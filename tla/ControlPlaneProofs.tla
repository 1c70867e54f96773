-------------------------- MODULE ControlPlaneProofs --------------------------
(***************************************************************************)
(* The control plane keeps its promises about tokens, answered requests,   *)
(* the divergence of what is in force and the operations clients poll, for *)
(* every number of handlers, rules and settings, every size of the log and *)
(* any number of requests and faults.                                      *)
(*                                                                         *)
(* The promises are about the moments when no request is being served, so  *)
(* they are not inductive: the invariants say what holds at each place of  *)
(* an operation for the one handler that has changeMu, and during a        *)
(* rotation for the one that has the store's lock.  They build on each     *)
(* other in the order in which they are stated.                            *)
(***************************************************************************)
EXTENDS ControlPlane, SequenceTheorems, TLAPS

\* One handler at a time is in an operation, and it holds changeMu; only a
\* running service serves requests and refreshes.
LockInv ==
  /\ \A h \in Handlers : changeMu = h <=> req[h].pc # "idle"
  /\ phase # "up" => changeMu = Free /\ refresh.pc = "idle" /\ ~swallowed

\* A rotation belongs to the handler that waits for it, or to the command.
RotationInv ==
  /\ rot.at = "none" => rot = NoRotation
  /\ rot.at # "none" => \/ rot.by \in Handlers /\ req[rot.by].pc = "rotate"
                        \/ rot.by = "reset" /\ phase = "reset"
  /\ \A h \in Handlers : req[h].pc = "rotate" => rot.at # "none" /\ rot.by = h

\* The file and the memory agree whenever the store is in use.
StoreInv ==
  /\ phase \in {"launch", "reset", "up"} => disk = cfg
  /\ phase \in {"loading", "resetting"} /\ Exists(disk) => cfg = disk

\* What a settings request would put back differs from the configuration in
\* the settings alone.
SettingsInv ==
  \A h \in Handlers : req[h].pc \in {"acl", "restore"} =>
    cfg = [req[h].old EXCEPT !.set = req[h].new.set]

\* The token file holds the accepted token, or the token that a failed
\* rotation puts back is the accepted one.
TokenInv ==
  /\ phase \in {"launch", "up"} /\ rot.at = "none" => token = cfg.hash \/ warned
  /\ phase \in {"launch", "up"} /\ rot.at # "none" => rot.prev = cfg.hash \/ warned

\* What was answered is saved, but for what the handler at work has saved and
\* not yet answered.
AckInv ==
  /\ phase \in {"down", "loading", "resetting"} /\ Exists(disk) => disk = acked
  /\ phase \in {"launch", "reset"} => cfg = acked
  /\ phase = "up" /\ ~swallowed =>
       /\ changeMu = Free => cfg = acked
       /\ \A h \in Handlers :
            /\ req[h].pc \in {"saved", "applying", "observe"} =>
                 cfg = [acked EXCEPT !.rules = req[h].new.rules]
            /\ req[h].pc \in {"acl", "dns", "reapply"} =>
                 cfg = [acked EXCEPT !.set = req[h].new.set]
            /\ req[h].pc \in {"acl", "restore", "aclback"} => req[h].old = acked
            /\ req[h].pc \in {"aclback", "rotate"} => cfg = acked

\* What is in force at each place of an operation.
ForceInv ==
  phase = "up" /\ ~swallowed =>
    /\ (\A h \in Handlers : req[h].pc \notin {"saved", "applying"}) =>
         desired = cfg.rules \/ "rules" \in stale
    /\ (\A h \in Handlers : req[h].pc \notin {"dns", "reapply"}) =>
         acl.list = acked.set.list \/ "acl" \in stale
    /\ (\A h \in Handlers : req[h].pc # "reapply") => servers = acked.set.dns
    /\ \A h \in Handlers :
         /\ req[h].pc \in {"dns", "reapply"} => acl.list = cfg.set.list \/ "acl" \in stale
         /\ req[h].pc = "reapply" =>
              servers = cfg.set.dns /\ (req[h].snap = cfg.rules \/ req[h].was)

\* The operations are numbered in order, and that of a handler at work is the
\* last one; no other is unfinished.
LogInv ==
  /\ \A n \in 1..Len(log) : log[n].id < edits
  /\ \A m, n \in 1..Len(log) : m < n => log[m].id < log[n].id
  /\ \A h \in Handlers : req[h].pc \in {"saved", "applying", "observe"} =>
       Len(log) > 0 /\ log[Len(log)].id = req[h].id
  /\ \A n \in 1..Len(log) : log[n].state \in {"saved", "applying"} =>
       n = Len(log) /\ \E h \in Handlers : req[h].pc \in {"saved", "applying", "observe"}

ControlInv ==
  /\ TypeOK /\ LockInv /\ RotationInv /\ StoreInv /\ SettingsInv /\ TokenInv
  /\ AckInv /\ ForceInv /\ LogInv

-----------------------------------------------------------------------------
\* Types.

\* The constants of the model have their types.
LEMMA ConstantTypes ==
  /\ NoRules \in [Ids -> RuleValues] /\ NoConfig \in Configs
  /\ Idle \in Requests /\ Idle.pc = "idle"
  /\ NoRotation \in [at : {"none", "written", "undo"}, by : Handlers \cup {Free, "reset"}, prev : Nat]
  /\ NoRotation.at = "none"
  /\ NoRefresh \in [pc : {"idle", "acl", "rules"}, snap : Configs] /\ NoRefresh.pc = "idle"
  /\ NoSnapshot \in [list : Lists \cup {"none"}, boot : BOOLEAN]
  /\ Free \notin Handlers /\ "reset" \notin Handlers /\ Free # "reset"
<1>1. NoRules \in [Ids -> RuleValues]
  BY DEF NoRules, RuleValues
<1>2. NoConfig \in Configs
  <2>1. (CHOOSE s \in Settings : TRUE) \in Settings
    BY ControlAssumption
  <2> QED BY <1>1, <2>1 DEF NoConfig, Configs
<1>3. Idle \in Requests /\ Idle.pc = "idle"
  BY <1>1, <1>2 DEF Idle, Requests, PCs
<1>4. /\ NoRotation \in [at : {"none", "written", "undo"}, by : Handlers \cup {Free, "reset"}, prev : Nat]
      /\ NoRotation.at = "none"
  BY DEF NoRotation
<1>5. NoRefresh \in [pc : {"idle", "acl", "rules"}, snap : Configs] /\ NoRefresh.pc = "idle"
  BY <1>2 DEF NoRefresh
<1>6. NoSnapshot \in [list : Lists \cup {"none"}, boot : BOOLEAN]
  BY DEF NoSnapshot
<1>7. Free \notin Handlers /\ "reset" \notin Handlers /\ Free # "reset"
  BY ControlAssumption DEF Free
<1> QED BY <1>1, <1>2, <1>3, <1>4, <1>5, <1>6, <1>7

\* Five numbers leave one of six, so a fresh token always exists.
LEMMA FreshType == Fresh \in Nat /\ Fresh # 0
<1> DEFINE used == {token, disk.hash, cfg.hash, rot.prev, acked.hash}
<1>1. \E n \in 1..6 : n \notin used
  OBVIOUS
<1>2. Fresh \in 1..6
  BY <1>1 DEF Fresh
<1> QED BY <1>2

\* The rows that Manager.apply may leave, and its faults.
LEMMA ApplyType ==
  ASSUME TypeOK, NEW rules \in [Ids -> RuleValues], Apply(rules)
  PROVE  /\ desired' \in [Ids -> RuleValues] /\ desired' = rules
         /\ rows' \in [Ids -> [body : RuleValues, st : {"absent", "stopped", "running", "failed", "pending"}]]
         /\ faults' \in 0..MaxFaults
<1> DEFINE Rows == [body : RuleValues, st : {"absent", "stopped", "running", "failed", "pending"}]
<1>1. \A b \in RuleValues : NormalRow(b) \in Rows
  BY DEF NormalRow, Row, RuleValues, Enabled
<1>2. \A b \in RuleValues, prev \in Rows : TroubledRows(b, prev) \subseteq Rows
  BY DEF TroubledRows, Row, RuleValues, Enabled
<1>3. rows \in [Ids -> Rows] /\ faults \in 0..MaxFaults /\ MaxFaults \in Nat
  BY ControlAssumption DEF TypeOK
<1> HIDE DEF Rows
<1> DEFINE normal == [i \in Ids |-> NormalRow(rules[i])]
<1>4. normal \in [Ids -> Rows]
  BY <1>1
<1>5. rows' \in [Ids -> Rows]
  <2>1. \/ rows' = normal
        \/ \E i \in Ids : \E r \in TroubledRows(rules[i], rows[i]) : rows' = [normal EXCEPT ![i] = r]
    BY DEF Apply
  <2> HIDE DEF normal
  <2> QED BY <1>2, <1>3, <1>4, <2>1
<1>6. faults' \in 0..MaxFaults
  BY <1>3 DEF Apply, Fault
<1> QED BY <1>5, <1>6 DEF Apply, Rows

\* What setOperation records: a known operation is replaced in its place, a
\* new one is appended and evicts the oldest beyond LogCap.
LEMMA SetOperationType ==
  ASSUME NEW Ops, log \in Seq(Ops), Len(log) <= LogCap, NEW op \in Ops, SetOperation(op)
  PROVE  log' \in Seq(Ops) /\ Len(log') <= LogCap
<1>0. LogCap \in Nat \ {0} /\ Len(log) \in Nat
  BY ControlAssumption
<1> DEFINE at == {n \in 1..Len(log) : log[n].id = op.id}
           longer == Append(log, op)
<1>1. CASE at # {}
  <2>1. PICK n \in 1..Len(log) : log' = [log EXCEPT ![n] = op]
    BY <1>1 DEF SetOperation
  <2>2. log' \in Seq(Ops) /\ Len(log') = Len(log)
    BY <2>1
  <2> QED BY <2>2
<1>2. CASE at = {} /\ Len(longer) > LogCap
  <2>1. log' = Tail(longer)
    BY <1>2 DEF SetOperation
  <2>2. longer \in Seq(Ops) /\ Len(longer) = Len(log) + 1 /\ longer # <<>>
    OBVIOUS
  <2> HIDE DEF longer
  <2>3. log' \in Seq(Ops) /\ Len(log') = Len(log)
    BY <1>0, <2>1, <2>2
  <2> QED BY <2>3
<1>3. CASE at = {} /\ ~(Len(longer) > LogCap)
  <2>1. log' = longer
    BY <1>3 DEF SetOperation
  <2>2. longer \in Seq(Ops) /\ Len(longer) \in Nat
    OBVIOUS
  <2> HIDE DEF longer
  <2> QED BY <1>0, <1>3, <2>1, <2>2
<1> QED BY <1>1, <1>2, <1>3

\* A request for rules saves some set of rules.
LEMMA RuleRequests ==
  ASSUME cfg \in Configs, NEW h \in Handlers,
         CreateRule(h) \/ UpdateRule(h) \/ DeleteRule(h) \/ ReplaceRules(h)
  PROVE  \E rules \in [Ids -> RuleValues], ids \in SUBSET Ids : SaveRules(h, rules, ids)
<1>1. cfg.rules \in [Ids -> RuleValues]
  BY DEF Configs
<1>2. CASE CreateRule(h)
  <2>1. PICK i \in Ids, b \in Bodies \cup {"off"} : SaveRules(h, [cfg.rules EXCEPT ![i] = b], {i})
    BY <1>2 DEF CreateRule
  <2>2. [cfg.rules EXCEPT ![i] = b] \in [Ids -> RuleValues]
    BY <1>1 DEF RuleValues
  <2> QED BY <2>1, <2>2
<1>3. CASE UpdateRule(h)
  <2>1. PICK i \in Ids, b \in Bodies \cup {"off"} : SaveRules(h, [cfg.rules EXCEPT ![i] = b], {i})
    BY <1>3 DEF UpdateRule
  <2>2. [cfg.rules EXCEPT ![i] = b] \in [Ids -> RuleValues]
    BY <1>1 DEF RuleValues
  <2> QED BY <2>1, <2>2
<1>4. CASE DeleteRule(h)
  <2>1. PICK i \in Ids : SaveRules(h, [cfg.rules EXCEPT ![i] = "none"], {i})
    BY <1>4 DEF DeleteRule
  <2>2. [cfg.rules EXCEPT ![i] = "none"] \in [Ids -> RuleValues]
    BY <1>1 DEF RuleValues
  <2> QED BY <2>1, <2>2
<1>5. CASE ReplaceRules(h)
  BY <1>5 DEF ReplaceRules
<1> QED BY <1>2, <1>3, <1>4, <1>5

\* A fault and a request are counted within their bounds.
LEMMA CountTypes ==
  ASSUME TypeOK
  PROVE  /\ \A kind : Fault(kind) => faults' \in 0..MaxFaults
         /\ Edit => edits' \in 0..MaxEdits
<1>1. MaxEdits \in Nat /\ MaxFaults \in Nat /\ faults \in 0..MaxFaults /\ edits \in 0..MaxEdits
  BY ControlAssumption DEF TypeOK
<1> QED BY <1>1 DEF Fault, Edit

\* The steps of the control plane, one by one.
LEMMA Steps ==
  ASSUME TypeOK, Next
  PROVE  \/ \E h \in Handlers, rules \in [Ids -> RuleValues], ids \in SUBSET Ids : SaveRules(h, rules, ids)
         \/ \E h \in Handlers : SaveSettings(h) \/ HandleRotate(h) \/ ChangeMonitor(h) \/ HandlerStep(h)
         \/ RotateStep \/ ResetToken \/ Load \/ LoadSaves \/ Launch \/ RefreshStep
         \/ Terminate /\ faults' \in 0..MaxFaults
<1>1. Crash => Terminate /\ faults' \in 0..MaxFaults
  BY CountTypes DEF Crash
<1>2. StartFails => Terminate /\ faults' \in 0..MaxFaults
  BY CountTypes DEF StartFails
<1>3. cfg \in Configs
  BY DEF TypeOK
<1> QED BY <1>1, <1>2, <1>3, RuleRequests DEF Next, Request, StartStep

\* How a handler's place changes.
LEMMA RequestTypes ==
  ASSUME req \in [Handlers -> Requests], NEW h \in Handlers
  PROVE  /\ \A pc \in PCs : Goto(h, pc) => req' \in [Handlers -> Requests]
         /\ Release(h) => req' \in [Handlers -> Requests] /\ changeMu' \in Handlers \cup {Free}
<1>1. ASSUME NEW pc \in PCs, Goto(h, pc) PROVE req' \in [Handlers -> Requests]
  <2>1. [req[h] EXCEPT !.pc = pc] \in Requests
    BY DEF Requests
  <2>2. req' = [req EXCEPT ![h] = [req[h] EXCEPT !.pc = pc]]
    BY <1>1 DEF Goto
  <2> QED BY <2>1, <2>2
<1>2. ASSUME Release(h) PROVE req' \in [Handlers -> Requests] /\ changeMu' \in Handlers \cup {Free}
  BY <1>2, ConstantTypes DEF Release
<1> QED BY <1>1, <1>2

\* A changed configuration is a configuration.
LEMMA ConfigTypes ==
  ASSUME NEW c \in Configs
  PROVE  /\ \A rules \in [Ids -> RuleValues] :
              /\ [c EXCEPT !.rules = rules] \in Configs
              /\ [c EXCEPT !.rules = rules].rules = rules
              /\ [c EXCEPT !.rules = rules].hash = c.hash
              /\ [c EXCEPT !.rules = rules].set = c.set
         /\ \A set \in Settings :
              /\ [c EXCEPT !.set = set] \in Configs
              /\ [c EXCEPT !.set = set].set = set
              /\ [c EXCEPT !.set = set].hash = c.hash
              /\ [c EXCEPT !.set = set].rules = c.rules
         /\ \A n \in Nat : /\ [c EXCEPT !.hash = n] \in Configs
                           /\ [c EXCEPT !.hash = n].hash = n
                           /\ [c EXCEPT !.hash = n].rules = c.rules
                           /\ [c EXCEPT !.hash = n].set = c.set
         /\ \A b \in BOOLEAN : /\ [c EXCEPT !.mon = b] \in Configs
                               /\ [c EXCEPT !.mon = b].hash = c.hash
                               /\ [c EXCEPT !.mon = b].rules = c.rules
                               /\ [c EXCEPT !.mon = b].set = c.set
         /\ c.rules \in [Ids -> RuleValues] /\ c.set \in Settings /\ c.hash \in Nat
BY DEF Configs

\* An access list is one of the lists, with or without the bootstrap entries.
LEMMA AclTypes ==
  ASSUME NEW set \in Settings, NEW boot \in BOOLEAN
  PROVE  AclOf(set, boot) \in [list : Lists \cup {"none"}, boot : BOOLEAN]
         /\ AclOf(set, boot).list = set.list
BY ControlAssumption DEF AclOf

\* Every variable has its type at first.
LEMMA InitTypeOK == Init => TypeOK
<1> SUFFICES ASSUME Init PROVE TypeOK
  OBVIOUS
<1>1. \A i \in Ids : NormalRow("none") \in
        [body : RuleValues, st : {"absent", "stopped", "running", "failed", "pending"}]
  BY ControlAssumption DEF NormalRow, Row, RuleValues, Enabled
<1>2. <<>> \in Seq([id : Nat, state : OpStates]) /\ Len(<<>>) = 0
  OBVIOUS
<1>3. warned \in BOOLEAN /\ swallowed \in BOOLEAN
  BY Zenon DEF Init
<1> QED BY <1>1, <1>2, <1>3, ConstantTypes, ControlAssumption DEF Init, TypeOK

\* The steps of a rule request keep the types.
LEMMA RuleStepsTypeOK ==
  ASSUME TypeOK, NEW h \in Handlers,
         \/ \E rules \in [Ids -> RuleValues], ids \in SUBSET Ids : SaveRules(h, rules, ids)
         \/ BeginApply(h) \/ ApplySaved(h) \/ Observe(h)
  PROVE  TypeOK'
<1> USE DEF storeVars, webVars, managerVars, ghostVars
<1> DEFINE Ops == [id : Nat, state : OpStates]
<1>0. /\ log \in Seq(Ops) /\ Len(log) <= LogCap /\ req \in [Handlers -> Requests]
      /\ cfg \in Configs /\ acked \in Configs /\ edits \in Nat
      /\ req[h].id \in Nat /\ req[h].new \in Configs
  BY ControlAssumption DEF TypeOK, Requests
<1>1. ASSUME NEW rules \in [Ids -> RuleValues], NEW ids \in SUBSET Ids, SaveRules(h, rules, ids)
      PROVE  TypeOK'
  <2>1. cfg' \in Configs /\ disk' \in Configs
    BY <1>0, <1>1, ConfigTypes DEF SaveRules, Update
  <2>2. [Idle EXCEPT !.pc = "saved", !.id = edits, !.ids = ids, !.new = cfg'] \in Requests
    BY <1>0, <2>1, ConstantTypes DEF Requests, PCs
  <2>3. req' \in [Handlers -> Requests]
    BY <1>0, <1>1, <2>2 DEF SaveRules
  <2>4. [id |-> edits, state |-> "saved"] \in Ops
    BY <1>0 DEF OpStates
  <2>5. log' \in Seq(Ops) /\ Len(log') <= LogCap
    BY <1>0, <1>1, <2>4, SetOperationType DEF SaveRules
  <2>6. edits' \in 0..MaxEdits /\ changeMu' \in Handlers \cup {Free}
    BY <1>1, CountTypes DEF SaveRules, Lock
  <2>7. UNCHANGED <<token, rot, phase, refresh, managerVars, acl, ghostVars, faults>>
    BY <1>1 DEF SaveRules
  <2> QED BY <2>1, <2>3, <2>5, <2>6, <2>7 DEF TypeOK
<1>2. CASE BeginApply(h)
  <2>1. [id |-> req[h].id, state |-> "applying"] \in Ops
    BY <1>0 DEF OpStates
  <2>2. log' \in Seq(Ops) /\ Len(log') <= LogCap
    BY <1>0, <1>2, <2>1, SetOperationType DEF BeginApply
  <2>3. req' \in [Handlers -> Requests]
    BY <1>0, <1>2, RequestTypes DEF BeginApply, PCs
  <2> QED BY <1>2, <2>2, <2>3 DEF BeginApply, TypeOK
<1>3. CASE ApplySaved(h)
  <2>1. req[h].new.rules \in [Ids -> RuleValues]
    BY <1>0, ConfigTypes
  <2>2. req' \in [Handlers -> Requests]
    BY <1>0, <1>3, RequestTypes DEF ApplySaved, PCs
  <2>3. stale' \subseteq {"rules", "acl"}
    BY <1>3 DEF ApplySaved, TypeOK
  <2>4. /\ desired' \in [Ids -> RuleValues] /\ faults' \in 0..MaxFaults
        /\ rows' \in [Ids -> [body : RuleValues, st : {"absent", "stopped", "running", "failed", "pending"}]]
    BY <1>3, <2>1, ApplyType DEF ApplySaved
  <2> QED BY <1>3, <2>2, <2>3, <2>4 DEF ApplySaved, TypeOK
<1>4. CASE Observe(h)
  <2>1. [id |-> req[h].id, state |-> Observed(req[h])] \in Ops
    BY <1>0 DEF OpStates, Observed
  <2>2. log' \in Seq(Ops) /\ Len(log') <= LogCap
    BY <1>0, <1>4, <2>1, SetOperationType DEF Observe
  <2>3. req' \in [Handlers -> Requests] /\ changeMu' \in Handlers \cup {Free}
    BY <1>0, <1>4, RequestTypes DEF Observe
  <2>4. acked' \in Configs
    BY <1>0, <1>4, ConfigTypes DEF Observe
  <2> QED BY <1>4, <2>2, <2>3, <2>4 DEF Observe, TypeOK
<1> QED BY <1>1, <1>2, <1>3, <1>4

\* The steps of a settings request keep the types.
LEMMA SettingsStepsTypeOK ==
  ASSUME TypeOK, NEW h \in Handlers,
         \/ SaveSettings(h) \/ SettingsAcl(h) \/ SettingsAclFails(h) \/ SettingsRestore(h)
         \/ SettingsAclBack(h) \/ SettingsServers(h) \/ SettingsReapply(h)
  PROVE  TypeOK'
<1> USE DEF storeVars, webVars, managerVars, ghostVars
<1>0. /\ req \in [Handlers -> Requests] /\ cfg \in Configs /\ acked \in Configs
      /\ req[h].new \in Configs /\ req[h].old \in Configs /\ req[h].snap \in [Ids -> RuleValues]
      /\ acl.boot \in BOOLEAN /\ stale \subseteq {"rules", "acl"}
      /\ Settings \subseteq [list : Lists, auto : BOOLEAN, strict : BOOLEAN, dns : Nat]
  BY ControlAssumption DEF TypeOK, Requests
<1>1. CASE SaveSettings(h)
  <2>1. cfg' \in Configs /\ disk' \in Configs
    BY <1>0, <1>1, ConfigTypes DEF SaveSettings, Update
  <2>2. [Idle EXCEPT !.pc = "acl", !.new = cfg', !.old = cfg] \in Requests
    BY <1>0, <2>1, ConstantTypes DEF Requests, PCs
  <2>3. req' \in [Handlers -> Requests]
    BY <1>0, <1>1, <2>2 DEF SaveSettings
  <2>4. edits' \in 0..MaxEdits /\ changeMu' \in Handlers \cup {Free}
    BY <1>1, CountTypes DEF SaveSettings, Lock
  <2> QED BY <1>1, <2>1, <2>3, <2>4 DEF SaveSettings, TypeOK
<1>2. CASE SettingsAcl(h)
  <2>1. req' \in [Handlers -> Requests]
    BY <1>0, <1>2, RequestTypes DEF SettingsAcl, PCs
  <2>2. acl' \in [list : Lists \cup {"none"}, boot : BOOLEAN]
    BY <1>0, <1>2, AclTypes, ConfigTypes DEF SettingsAcl
  <2>3. stale' \subseteq {"rules", "acl"}
    BY <1>0, <1>2 DEF SettingsAcl
  <2> QED BY <1>2, <2>1, <2>2, <2>3 DEF SettingsAcl, TypeOK
<1>3. CASE SettingsAclFails(h)
  <2>1. req' \in [Handlers -> Requests]
    BY <1>0, <1>3, RequestTypes DEF SettingsAclFails, PCs
  <2>2. faults' \in 0..MaxFaults
    BY <1>3, CountTypes DEF SettingsAclFails
  <2> QED BY <1>3, <2>1, <2>2 DEF SettingsAclFails, TypeOK
<1>4. CASE SettingsRestore(h)
  <2>1. req' \in [Handlers -> Requests]
    BY <1>0, <1>4, RequestTypes DEF SettingsRestore, PCs
  <2>2. cfg' \in Configs /\ disk' \in Configs
    BY <1>0, <1>4 DEF SettingsRestore, Update, TypeOK
  <2>3. swallowed' \in BOOLEAN
    <3>1. swallowed' = swallowed \/ swallowed' = TRUE
      BY <1>4 DEF SettingsRestore
    <3>2. swallowed \in BOOLEAN
      BY DEF TypeOK
    <3> QED BY <3>1, <3>2, Zenon
  <2>4. faults' \in 0..MaxFaults
    BY <1>4, CountTypes DEF SettingsRestore, TypeOK
  <2> QED BY <1>4, <2>1, <2>2, <2>3, <2>4 DEF SettingsRestore, TypeOK
<1>5. CASE SettingsAclBack(h)
  <2>1. req' \in [Handlers -> Requests] /\ changeMu' \in Handlers \cup {Free}
    BY <1>0, <1>5, RequestTypes DEF SettingsAclBack
  <2>2. acl' \in [list : Lists \cup {"none"}, boot : BOOLEAN]
    BY <1>0, <1>5, AclTypes, ConfigTypes DEF SettingsAclBack, TypeOK
  <2>3. stale' \subseteq {"rules", "acl"}
    BY <1>0, <1>5 DEF SettingsAclBack
  <2>4. faults' \in 0..MaxFaults
    BY <1>5, CountTypes DEF SettingsAclBack, TypeOK
  <2> QED BY <1>5, <2>1, <2>2, <2>3, <2>4 DEF SettingsAclBack, TypeOK
<1>6. CASE SettingsServers(h)
  <2>1. /\ req' = [req EXCEPT ![h] = [req[h] EXCEPT !.pc = "reapply", !.snap = desired,
                                                    !.was = "rules" \in stale]]
    BY <1>0, <1>6 DEF SettingsServers
  <2>2. ("rules" \in stale) \in BOOLEAN /\ desired \in [Ids -> RuleValues] /\ req[h] \in Requests
    BY <1>0 DEF TypeOK
  <2>3. [req[h] EXCEPT !.pc = "reapply", !.snap = desired, !.was = "rules" \in stale] \in Requests
    BY <2>2 DEF Requests, PCs
  <2>4. req' \in [Handlers -> Requests]
    BY <1>0, <2>1, <2>3
  <2>5. servers' \in Nat
    BY <1>0, <1>6, ConfigTypes DEF SettingsServers
  <2> QED BY <1>6, <2>4, <2>5 DEF SettingsServers, TypeOK
<1>7. CASE SettingsReapply(h)
  <2>1. req' \in [Handlers -> Requests] /\ changeMu' \in Handlers \cup {Free}
    BY <1>0, <1>7, RequestTypes DEF SettingsReapply
  <2>2. acked' \in Configs
    BY <1>0, <1>7, ConfigTypes DEF SettingsReapply
  <2>3. stale' \subseteq {"rules", "acl"}
    BY <1>0, <1>7 DEF SettingsReapply
  <2>4. /\ desired' \in [Ids -> RuleValues] /\ faults' \in 0..MaxFaults
        /\ rows' \in [Ids -> [body : RuleValues, st : {"absent", "stopped", "running", "failed", "pending"}]]
    BY <1>0, <1>7, ApplyType DEF SettingsReapply
  <2> QED BY <1>7, <2>1, <2>2, <2>3, <2>4 DEF SettingsReapply, TypeOK
<1> QED BY <1>1, <1>2, <1>3, <1>4, <1>5, <1>6, <1>7

\* The steps of a token request keep the types.
LEMMA TokenStepsTypeOK ==
  ASSUME TypeOK,
         \/ \E h \in Handlers : HandleRotate(h) \/ ChangeMonitor(h)
         \/ ResetToken \/ RotateStep
  PROVE  TypeOK'
<1> USE DEF storeVars, webVars, managerVars, ghostVars
<1> DEFINE Rotations == [at : {"none", "written", "undo"}, by : Handlers \cup {Free, "reset"}, prev : Nat]
<1>0. /\ req \in [Handlers -> Requests] /\ cfg \in Configs /\ acked \in Configs /\ token \in Nat
      /\ rot \in Rotations /\ rot.prev \in Nat
  BY DEF TypeOK
<1>1. ASSUME NEW h \in Handlers, HandleRotate(h) PROVE TypeOK'
  <2>1. rot' \in Rotations /\ token' \in Nat
    BY <1>0, <1>1, FreshType DEF HandleRotate, RotateWrites
  <2>2. [Idle EXCEPT !.pc = "rotate"] \in Requests
    BY ConstantTypes DEF Requests, PCs
  <2>3. req' \in [Handlers -> Requests]
    BY <1>0, <1>1, <2>2 DEF HandleRotate
  <2>4. edits' \in 0..MaxEdits /\ changeMu' \in Handlers \cup {Free}
    BY <1>1, CountTypes DEF HandleRotate, Lock
  <2> QED BY <1>1, <2>1, <2>3, <2>4 DEF HandleRotate, RotateWrites, TypeOK
<1>2. ASSUME NEW h \in Handlers, ChangeMonitor(h) PROVE TypeOK'
  <2>1. cfg' \in Configs /\ disk' \in Configs /\ acked' \in Configs
    BY <1>0, <1>2, ConfigTypes DEF ChangeMonitor, Update
  <2>2. edits' \in 0..MaxEdits
    BY <1>2, CountTypes DEF ChangeMonitor
  <2> QED BY <1>2, <2>1, <2>2 DEF ChangeMonitor, TypeOK
<1>3. CASE ResetToken
  <2>1. rot' \in Rotations /\ token' \in Nat
    BY <1>0, <1>3, FreshType DEF ResetToken, RotateWrites
  <2> QED BY <1>3, <2>1 DEF ResetToken, RotateWrites, TypeOK
<1>4. ASSUME NEW c \in Configs, RotateEnds(c)
      PROVE  /\ rot' \in Rotations /\ cfg' \in Configs
             /\ phase' \in {"down", "loading", "resetting", "launch", "reset", "up"}
             /\ req' \in [Handlers -> Requests] /\ changeMu' \in Handlers \cup {Free}
  <2>1. rot' \in Rotations
    BY <1>4, ConstantTypes DEF RotateEnds
  <2>2. CASE rot.by \in Handlers
    <3>1. Release(rot.by) /\ cfg' = c /\ phase' = phase
      BY <1>4, <2>2 DEF RotateEnds
    <3>2. req' \in [Handlers -> Requests] /\ changeMu' \in Handlers \cup {Free}
      BY <1>0, <2>2, <3>1, RequestTypes
    <3> QED BY <2>1, <3>1, <3>2 DEF TypeOK
  <2>3. CASE rot.by \notin Handlers
    BY <1>4, <2>1, <2>3, ConstantTypes DEF RotateEnds, TypeOK
  <2> QED BY <2>2, <2>3
<1>5. CASE RotateCommits
  <2>1. disk' \in Configs /\ acked' \in Configs
    BY <1>0, <1>5, ConfigTypes DEF RotateCommits
  <2>2. /\ rot' \in Rotations /\ cfg' \in Configs
        /\ phase' \in {"down", "loading", "resetting", "launch", "reset", "up"}
        /\ req' \in [Handlers -> Requests] /\ changeMu' \in Handlers \cup {Free}
    BY <1>4, <1>5, <2>1 DEF RotateCommits
  <2>3. warned' \in BOOLEAN
    BY <1>5, Zenon DEF RotateCommits
  <2> QED BY <1>5, <2>1, <2>2, <2>3 DEF RotateCommits, TypeOK
<1>6. CASE RotateSaveFails
  <2>1. rot' \in Rotations
    BY <1>0, <1>6 DEF RotateSaveFails
  <2>2. faults' \in 0..MaxFaults
    BY <1>6, CountTypes DEF RotateSaveFails
  <2> QED BY <1>6, <2>1, <2>2 DEF RotateSaveFails, TypeOK
<1>7. CASE RotateUndoes
  <2>1. token' \in Nat
    BY <1>0, <1>7 DEF RotateUndoes
  <2>2. /\ rot' \in Rotations /\ cfg' \in Configs
        /\ phase' \in {"down", "loading", "resetting", "launch", "reset", "up"}
        /\ req' \in [Handlers -> Requests] /\ changeMu' \in Handlers \cup {Free}
    BY <1>0, <1>4, <1>7 DEF RotateUndoes
  <2>3. warned' \in BOOLEAN
    <3>1. warned' = warned \/ warned' = TRUE
      BY <1>7 DEF RotateUndoes
    <3>2. warned \in BOOLEAN
      BY DEF TypeOK
    <3> QED BY <3>1, <3>2, Zenon
  <2>4. faults' \in 0..MaxFaults
    BY <1>7, CountTypes DEF RotateUndoes, TypeOK
  <2> QED BY <1>7, <2>1, <2>2, <2>3, <2>4 DEF RotateUndoes, TypeOK
<1> QED BY <1>1, <1>2, <1>3, <1>5, <1>6, <1>7 DEF RotateStep

\* The start, the end and the refresh loop of the process keep the types.
LEMMA ProcessStepsTypeOK ==
  ASSUME TypeOK,
         \/ Load \/ LoadSaves \/ Launch \/ RefreshStep
         \/ Terminate /\ faults' \in 0..MaxFaults
  PROVE  TypeOK'
<1> USE DEF storeVars, webVars, managerVars, ghostVars
<1> DEFINE Rows == [body : RuleValues, st : {"absent", "stopped", "running", "failed", "pending"}]
<1>0. /\ cfg \in Configs /\ disk \in Configs /\ acked \in Configs /\ token \in Nat
      /\ refresh \in [pc : {"idle", "acl", "rules"}, snap : Configs]
      /\ refresh.snap \in Configs /\ stale \subseteq {"rules", "acl"}
      /\ Settings \subseteq [list : Lists, auto : BOOLEAN, strict : BOOLEAN, dns : Nat]
  BY ControlAssumption DEF TypeOK
<1>1. CASE Load
  <2>1. cfg' \in Configs /\ token' \in Nat
    BY <1>0, <1>1, FreshType, ConfigTypes DEF Load
  <2>2. edits' \in 0..MaxEdits
    BY <1>1, CountTypes DEF Load, TypeOK
  <2> QED BY <1>1, <2>1, <2>2 DEF Load, TypeOK
<1>2. CASE LoadSaves
  <2>1. acked' \in Configs /\ disk' \in Configs
    BY <1>0, <1>2 DEF LoadSaves
  <2>2. warned' \in BOOLEAN
    BY <1>2, Zenon DEF LoadSaves
  <2> QED BY <1>2, <2>1, <2>2 DEF LoadSaves, TypeOK
<1>3. CASE Launch
  <2>1. acl' \in [list : Lists \cup {"none"}, boot : BOOLEAN]
    BY <1>0, <1>3, AclTypes, ConfigTypes DEF Launch
  <2>2. servers' \in Nat
    BY <1>0, <1>3, ConfigTypes DEF Launch
  <2>3. desired' \in [Ids -> RuleValues] /\ rows' \in [Ids -> Rows] /\ faults' \in 0..MaxFaults
    BY <1>0, <1>3, ApplyType, ConfigTypes DEF Launch
  <2> QED BY <1>3, <2>1, <2>2, <2>3 DEF Launch, TypeOK
<1>4. CASE RefreshReads
  <2>1. refresh' \in [pc : {"idle", "acl", "rules"}, snap : Configs]
    BY <1>0, <1>4 DEF RefreshReads
  <2> QED BY <1>4, <2>1 DEF RefreshReads, TypeOK
<1>5. CASE RefreshAcl
  <2>1. acl' \in [list : Lists \cup {"none"}, boot : BOOLEAN]
    <3>1. AclOf(refresh.snap.set, TRUE) \in [list : Lists \cup {"none"}, boot : BOOLEAN]
      BY <1>0, AclTypes, ConfigTypes
    <3> QED BY <1>5, <3>1 DEF RefreshAcl, TypeOK
  <2>2. stale' \subseteq {"rules", "acl"}
    BY <1>0, <1>5 DEF RefreshAcl
  <2>3. faults' \in 0..MaxFaults
    BY <1>5, CountTypes DEF RefreshAcl, TypeOK
  <2>4. refresh' \in [pc : {"idle", "acl", "rules"}, snap : Configs]
    BY <1>0, <1>5 DEF RefreshAcl
  <2> QED BY <1>5, <2>1, <2>2, <2>3, <2>4 DEF RefreshAcl, TypeOK
<1>6. CASE RefreshRules
  <2>1. desired' \in [Ids -> RuleValues] /\ rows' \in [Ids -> Rows] /\ faults' \in 0..MaxFaults
    BY <1>0, <1>6, ApplyType, ConfigTypes DEF RefreshRules
  <2>2. stale' \subseteq {"rules", "acl"}
    BY <1>0, <1>6 DEF RefreshRules
  <2>3. refresh' \in [pc : {"idle", "acl", "rules"}, snap : Configs]
    BY <1>6, ConstantTypes DEF RefreshRules
  <2> QED BY <1>6, <2>1, <2>2, <2>3 DEF RefreshRules, TypeOK
<1>7. CASE Terminate /\ faults' \in 0..MaxFaults
  <2>1. rows' \in [Ids -> Rows]
    <3>1. NormalRow("none") \in Rows
      BY ControlAssumption DEF NormalRow, Row, RuleValues, Enabled
    <3> QED BY <1>7, <3>1 DEF Terminate
  <2>2. log' \in Seq([id : Nat, state : OpStates]) /\ Len(log') <= LogCap
    BY <1>7, ControlAssumption DEF Terminate
  <2>3. warned' \in BOOLEAN /\ swallowed' \in BOOLEAN
    BY <1>7, Zenon DEF Terminate
  <2>4. acked' \in Configs
    BY <1>0, <1>7 DEF Terminate
  <2>5. req' \in [Handlers -> Requests] /\ changeMu' \in Handlers \cup {Free}
    BY <1>7, ConstantTypes DEF Terminate
  <2> QED BY <1>7, <2>1, <2>2, <2>3, <2>4, <2>5, ConstantTypes DEF Terminate, TypeOK
<1> QED BY <1>1, <1>2, <1>3, <1>4, <1>5, <1>6, <1>7 DEF RefreshStep

\* Every step keeps the types.
LEMMA NextTypeOK == TypeOK /\ [Next]_vars => TypeOK'
<1> SUFFICES ASSUME TypeOK, [Next]_vars PROVE TypeOK'
  OBVIOUS
<1>1. CASE Next
  BY <1>1, Steps, RuleStepsTypeOK, SettingsStepsTypeOK, TokenStepsTypeOK, ProcessStepsTypeOK
     DEF HandlerStep
<1>2. CASE UNCHANGED vars
  BY <1>2 DEF TypeOK, vars, storeVars, webVars, managerVars, ghostVars
<1> QED BY <1>1, <1>2

-----------------------------------------------------------------------------
\* The shapes of the steps.

\* Handler h starts an operation, goes on in it, or ends it.
Opens(h, to) ==
  /\ phase = "up" /\ changeMu = Free /\ changeMu' = h /\ req'[h].pc = to
  /\ \A g \in Handlers \ {h} : req'[g] = req[g]
Moves(h, from, to) ==
  /\ req[h].pc = from /\ req'[h].pc = to /\ changeMu' = changeMu
  /\ req'[h].id = req[h].id /\ req'[h].new = req[h].new /\ req'[h].old = req[h].old
  /\ \A g \in Handlers \ {h} : req'[g] = req[g]
Closes(h, from) ==
  /\ req[h].pc = from /\ req'[h].pc = "idle" /\ changeMu' = Free
  /\ \A g \in Handlers \ {h} : req'[g] = req[g]

\* The first step of an operation.
LEMMA Openings ==
  ASSUME TypeOK, NEW h \in Handlers
  PROVE  /\ \A rules, ids : SaveRules(h, rules, ids) =>
              Opens(h, "saved") /\ req'[h].id = edits /\ req'[h].new = cfg'
         /\ SaveSettings(h) => Opens(h, "acl") /\ req'[h].new = cfg' /\ req'[h].old = cfg
         /\ HandleRotate(h) => Opens(h, "rotate")
<1>0. req \in [Handlers -> Requests] /\ Idle \in Requests
  BY ConstantTypes DEF TypeOK
<1>1. ASSUME NEW rules, NEW ids, SaveRules(h, rules, ids)
      PROVE  Opens(h, "saved") /\ req'[h].id = edits /\ req'[h].new = cfg'
  <2>1. /\ phase = "up" /\ changeMu = Free /\ changeMu' = h
        /\ req' = [req EXCEPT ![h] = [Idle EXCEPT !.pc = "saved", !.id = edits, !.ids = ids, !.new = cfg']]
    BY <1>1 DEF SaveRules, Lock
  <2> QED BY <1>0, <2>1 DEF Opens, Requests
<1>2. ASSUME SaveSettings(h)
      PROVE  Opens(h, "acl") /\ req'[h].new = cfg' /\ req'[h].old = cfg
  <2>1. /\ phase = "up" /\ changeMu = Free /\ changeMu' = h
        /\ req' = [req EXCEPT ![h] = [Idle EXCEPT !.pc = "acl", !.new = cfg', !.old = cfg]]
    BY <1>2 DEF SaveSettings, Lock
  <2> QED BY <1>0, <2>1 DEF Opens, Requests
<1>3. ASSUME HandleRotate(h) PROVE Opens(h, "rotate")
  <2>1. /\ phase = "up" /\ changeMu = Free /\ changeMu' = h
        /\ req' = [req EXCEPT ![h] = [Idle EXCEPT !.pc = "rotate"]]
    BY <1>3 DEF HandleRotate, Lock
  <2> QED BY <1>0, <2>1 DEF Opens, Requests
<1> QED BY <1>1, <1>2, <1>3

\* A step to another place keeps what the handler remembers; the last step
\* forgets it.
LEMMA GoOn ==
  ASSUME TypeOK, NEW h \in Handlers
  PROVE  /\ \A from, to : req[h].pc = from /\ Goto(h, to) /\ UNCHANGED changeMu => Moves(h, from, to)
         /\ \A from : req[h].pc = from /\ Release(h) => Closes(h, from)
<1>0. req \in [Handlers -> Requests] /\ Idle \in Requests /\ Idle.pc = "idle"
  BY ConstantTypes DEF TypeOK
<1>1. ASSUME NEW from, NEW to, req[h].pc = from, Goto(h, to), UNCHANGED changeMu
      PROVE  Moves(h, from, to)
  <2>1. req' = [req EXCEPT ![h] = [req[h] EXCEPT !.pc = to]]
    BY <1>1 DEF Goto
  <2>2. /\ req'[h] = [req[h] EXCEPT !.pc = to]
        /\ \A g \in Handlers \ {h} : req'[g] = req[g]
    BY <1>0, <2>1
  <2>3. req[h] \in Requests
    BY <1>0
  <2> QED BY <1>1, <2>2, <2>3 DEF Moves, Requests
<1>2. ASSUME NEW from, req[h].pc = from, Release(h) PROVE Closes(h, from)
  BY <1>0, <1>2 DEF Release, Closes
<1> QED BY <1>1, <1>2

\* The later steps of an operation.
LEMMA Goings ==
  ASSUME TypeOK, NEW h \in Handlers
  PROVE  /\ BeginApply(h) => Moves(h, "saved", "applying")
         /\ ApplySaved(h) => Moves(h, "applying", "observe")
         /\ Observe(h) => Closes(h, "observe")
         /\ SettingsAcl(h) => Moves(h, "acl", "dns")
         /\ SettingsAclFails(h) => Moves(h, "acl", "restore")
         /\ SettingsRestore(h) => Moves(h, "restore", "aclback")
         /\ SettingsAclBack(h) => Closes(h, "aclback")
         /\ SettingsServers(h) => /\ Moves(h, "dns", "reapply")
                                  /\ req'[h].snap = desired /\ req'[h].was = ("rules" \in stale)
         /\ SettingsReapply(h) => Closes(h, "reapply")
<1>1. BeginApply(h) => Moves(h, "saved", "applying")
  BY GoOn DEF BeginApply
<1>2. ApplySaved(h) => Moves(h, "applying", "observe")
  BY GoOn DEF ApplySaved
<1>3. Observe(h) => Closes(h, "observe")
  BY GoOn DEF Observe
<1>4. SettingsAcl(h) => Moves(h, "acl", "dns")
  BY GoOn DEF SettingsAcl
<1>5. SettingsAclFails(h) => Moves(h, "acl", "restore")
  BY GoOn DEF SettingsAclFails
<1>6. SettingsRestore(h) => Moves(h, "restore", "aclback")
  BY GoOn DEF SettingsRestore
<1>7. SettingsAclBack(h) => Closes(h, "aclback")
  BY GoOn DEF SettingsAclBack
<1>8. ASSUME SettingsServers(h)
      PROVE  Moves(h, "dns", "reapply") /\ req'[h].snap = desired /\ req'[h].was = ("rules" \in stale)
  <2>0. req \in [Handlers -> Requests] /\ req[h] \in Requests
    BY DEF TypeOK
  <2>1. /\ req' = [req EXCEPT ![h] = [req[h] EXCEPT !.pc = "reapply", !.snap = desired,
                                                    !.was = ("rules" \in stale)]]
        /\ req[h].pc = "dns" /\ changeMu' = changeMu
    BY <1>8, <2>0 DEF SettingsServers
  <2>2. /\ req'[h] = [req[h] EXCEPT !.pc = "reapply", !.snap = desired, !.was = ("rules" \in stale)]
        /\ \A g \in Handlers \ {h} : req'[g] = req[g]
    BY <2>0, <2>1
  <2> QED BY <2>0, <2>1, <2>2 DEF Moves, Requests
<1>9. SettingsReapply(h) => Closes(h, "reapply")
  BY GoOn DEF SettingsReapply
<1> QED BY <1>1, <1>2, <1>3, <1>4, <1>5, <1>6, <1>7, <1>8, <1>9

\* What LockInv says about a handler in an operation, and when there is none.
LEMMA OneAtATime ==
  ASSUME TypeOK, LockInv
  PROVE  /\ \A h \in Handlers : req[h].pc # "idle" =>
              /\ phase = "up" /\ changeMu = h
              /\ \A g \in Handlers \ {h} : req[g].pc = "idle"
         /\ changeMu = Free \/ phase # "up" => \A g \in Handlers : req[g].pc = "idle"
BY ConstantTypes DEF LockInv

\* A handler's steps leave the rotation and the process alone.
LEMMA HandlerFrame ==
  ASSUME NEW h \in Handlers, HandlerStep(h)
  PROVE  UNCHANGED <<token, rot, phase, refresh, warned, edits>>
BY DEF HandlerStep, BeginApply, ApplySaved, Observe, SettingsAcl, SettingsAclFails, SettingsRestore,
       SettingsAclBack, SettingsServers, SettingsReapply, storeVars, managerVars, ghostVars

\* A handler at work goes on or ends, but for the one whose rotation runs.
LEMMA HandlerPlaces ==
  ASSUME TypeOK, NEW h \in Handlers, HandlerStep(h)
  PROVE  \/ \E from, to \in PCs \ {"idle", "rotate"} : Moves(h, from, to)
         \/ \E from \in PCs \ {"idle", "rotate"} : Closes(h, from)
BY Goings DEF HandlerStep, PCs

\* A rotation that ends releases its handler, or ends the command.
LEMMA Endings ==
  ASSUME TypeOK, LockInv, RotationInv, NEW c, RotateEnds(c), rot.at # "none"
  PROVE  /\ rot' = NoRotation
         /\ \/ /\ phase = "up" /\ phase' = "up" /\ cfg' = c
               /\ \E h \in Handlers : rot.by = h /\ Closes(h, "rotate")
            \/ /\ phase = "reset" /\ phase' = "down" /\ cfg' = NoConfig
               /\ changeMu' = Free /\ changeMu = Free /\ req' = req
<1>1. CASE rot.by \in Handlers /\ req[rot.by].pc = "rotate"
  <2>1. Release(rot.by) /\ cfg' = c /\ phase' = phase /\ rot' = NoRotation
    BY <1>1 DEF RotateEnds
  <2>2. phase = "up"
    BY <1>1, OneAtATime
  <2>3. Closes(rot.by, "rotate")
    BY <1>1, <2>1, GoOn
  <2> QED BY <1>1, <2>1, <2>2, <2>3
<1>2. CASE rot.by = "reset" /\ phase = "reset"
  BY <1>2, ConstantTypes DEF RotateEnds, LockInv
<1> QED BY <1>1, <1>2 DEF RotationInv

\* The configuration, the places and the answers of a refresh step are those
\* before it.
LEMMA RefreshFrame ==
  ASSUME RefreshStep
  PROVE  UNCHANGED <<disk, token, cfg, rot, phase, changeMu, req, log, servers, acked, warned, swallowed, edits>>
BY DEF RefreshStep, RefreshReads, RefreshAcl, RefreshRules, storeVars, webVars, managerVars, ghostVars

-----------------------------------------------------------------------------
\* The locks.

\* Every variable has its initial value.
LEMMA InitLocks == Init => LockInv /\ RotationInv
<1> SUFFICES ASSUME Init PROVE LockInv /\ RotationInv
  OBVIOUS
<1>1. \A h \in Handlers : req[h].pc = "idle"
  BY ConstantTypes DEF Init
<1>2. ~swallowed
  BY Zenon DEF Init
<1> QED BY <1>1, <1>2, ConstantTypes DEF Init, LockInv, RotationInv

\* changeMu and the rotation pass from handler to handler.
LEMMA NextLocks ==
  ASSUME TypeOK, LockInv, RotationInv, [Next]_vars
  PROVE  LockInv' /\ RotationInv'
<1> USE DEF storeVars, webVars, managerVars, ghostVars
<1>1. ASSUME NEW h \in Handlers, NEW to, Opens(h, to), to \notin {"idle", "rotate"},
             UNCHANGED <<rot, phase, refresh, swallowed>>
      PROVE  LockInv' /\ RotationInv'
  <2>1. \A g \in Handlers : req[g].pc = "idle"
    BY <1>1, OneAtATime DEF Opens
  <2>2. LockInv'
    BY <1>1, <2>1, ConstantTypes DEF Opens, LockInv
  <2> QED BY <1>1, <2>1, <2>2 DEF Opens, RotationInv
<1>2. ASSUME NEW h \in Handlers, HandlerStep(h) PROVE LockInv' /\ RotationInv'
  <2>0. phase' = phase /\ rot' = rot /\ refresh' = refresh
    BY <1>2, HandlerFrame
  <2>1. ASSUME NEW from, NEW to, from \notin {"idle", "rotate"}, to \notin {"idle", "rotate"},
               Moves(h, from, to)
        PROVE  LockInv' /\ RotationInv'
    <3>1. phase = "up"
      BY <2>1, OneAtATime DEF Moves
    <3> QED BY <2>0, <2>1, <3>1 DEF Moves, LockInv, RotationInv
  <2>2. ASSUME NEW from, from \notin {"idle", "rotate"}, Closes(h, from)
        PROVE  LockInv' /\ RotationInv'
    <3>1. phase = "up" /\ \A g \in Handlers \ {h} : req[g].pc = "idle"
      BY <2>2, OneAtATime DEF Closes
    <3> QED BY <2>0, <2>2, <3>1, ConstantTypes DEF Closes, LockInv, RotationInv
  <2> QED BY <1>2, <2>1, <2>2, HandlerPlaces
<1>3. ASSUME NEW h \in Handlers, HandleRotate(h) PROVE LockInv' /\ RotationInv'
  <2>1. Opens(h, "rotate")
    BY <1>3, Openings
  <2>2. /\ rot' = [at |-> "written", by |-> h, prev |-> token]
        /\ UNCHANGED <<phase, refresh, swallowed>>
    BY <1>3 DEF HandleRotate, RotateWrites
  <2>3. \A g \in Handlers : req[g].pc = "idle"
    BY <2>1, OneAtATime DEF Opens
  <2>4. LockInv'
    BY <2>1, <2>2, <2>3, ConstantTypes DEF Opens, LockInv
  <2> QED BY <2>1, <2>2, <2>3, <2>4 DEF Opens, RotationInv
<1>4. CASE ResetToken
  <2>1. /\ rot' = [at |-> "written", by |-> "reset", prev |-> token]
        /\ phase = "reset" /\ UNCHANGED <<phase, refresh, swallowed, req, changeMu>>
    BY <1>4 DEF ResetToken, RotateWrites
  <2>2. \A g \in Handlers : req[g].pc = "idle"
    BY <2>1, OneAtATime
  <2> QED BY <2>1, <2>2 DEF LockInv, RotationInv
<1>5. CASE RotateSaveFails
  <2>1. /\ rot.at = "written" /\ rot'.at = "undo" /\ rot'.by = rot.by
        /\ UNCHANGED <<phase, refresh, swallowed, req, changeMu>>
    BY <1>5 DEF RotateSaveFails, TypeOK
  <2> QED BY <2>1 DEF LockInv, RotationInv
<1>6. ASSUME NEW c, RotateEnds(c), rot.at # "none", UNCHANGED <<refresh, swallowed>>
      PROVE  LockInv' /\ RotationInv'
  <2>1. rot' = NoRotation /\ rot'.at = "none"
    BY <1>6, Endings, ConstantTypes
  <2>2. ASSUME NEW h \in Handlers, rot.by = h, Closes(h, "rotate"), phase = "up", phase' = "up"
        PROVE  LockInv' /\ RotationInv'
    <3>1. \A g \in Handlers \ {h} : req[g].pc = "idle"
      BY <2>2, OneAtATime DEF Closes
    <3> QED BY <2>1, <2>2, <3>1, ConstantTypes DEF Closes, LockInv, RotationInv
  <2>3. ASSUME phase = "reset", phase' = "down", changeMu' = Free, changeMu = Free, req' = req
        PROVE  LockInv' /\ RotationInv'
    <3>1. \A g \in Handlers : req[g].pc = "idle"
      BY <2>3, OneAtATime
    <3> QED BY <1>6, <2>1, <2>3, <3>1 DEF LockInv, RotationInv
  <2> QED BY <1>6, <2>2, <2>3, Endings
<1>7. CASE Load \/ LoadSaves \/ Launch
  <2>1. phase # "up" /\ phase # "reset" /\ UNCHANGED <<rot, refresh, swallowed, req, changeMu>>
    BY <1>7 DEF Load, LoadSaves, Launch
  <2>2. \A g \in Handlers : req[g].pc = "idle"
    BY <2>1, OneAtATime
  <2>3. rot.at = "none"
    BY <2>1, <2>2 DEF RotationInv
  <2> QED BY <2>1, <2>2, <2>3 DEF LockInv, RotationInv
<1>8. CASE RefreshStep
  <2>1. UNCHANGED <<rot, phase, changeMu, req, swallowed>>
    BY <1>8, RefreshFrame
  <2>2. phase = "up"
    BY <1>8 DEF RefreshStep, RefreshReads, RefreshAcl, RefreshRules, LockInv
  <2> QED BY <2>1, <2>2 DEF LockInv, RotationInv
<1>9. CASE Terminate
  <2>1. ~swallowed'
    BY <1>9, Zenon DEF Terminate
  <2>2. \A h \in Handlers : req'[h].pc = "idle"
    BY <1>9, ConstantTypes DEF Terminate
  <2> QED BY <1>9, <2>1, <2>2, ConstantTypes DEF Terminate, LockInv, RotationInv
<1>10. CASE UNCHANGED vars
  BY <1>10 DEF vars, LockInv, RotationInv
<1>11. ASSUME NEW h \in Handlers, NEW rules, NEW ids, SaveRules(h, rules, ids)
       PROVE  LockInv' /\ RotationInv'
  BY <1>1, <1>11, Openings DEF SaveRules
<1>12. ASSUME NEW h \in Handlers, SaveSettings(h) PROVE LockInv' /\ RotationInv'
  BY <1>1, <1>12, Openings DEF SaveSettings
<1>13. ASSUME NEW h \in Handlers, ChangeMonitor(h) PROVE LockInv' /\ RotationInv'
  BY <1>13 DEF ChangeMonitor, LockInv, RotationInv
<1>14. CASE RotateCommits
  BY <1>6, <1>14 DEF RotateCommits
<1>15. CASE RotateUndoes
  BY <1>6, <1>15 DEF RotateUndoes
<1> QED BY <1>2, <1>3, <1>4, <1>5, <1>7, <1>8, <1>9, <1>10, <1>11, <1>12, <1>13, <1>14, <1>15, Steps
        DEF RotateStep

-----------------------------------------------------------------------------
\* The store, the settings request and the token file.

\* Of a handler's later steps, only the roll-back of the settings saves.
LEMMA HandlerSaves ==
  ASSUME NEW h \in Handlers, HandlerStep(h)
  PROVE  \/ UNCHANGED <<cfg, disk>>
         \/ SettingsRestore(h) /\ cfg' = req[h].old /\ disk' = cfg'
BY DEF HandlerStep, BeginApply, ApplySaved, Observe, SettingsAcl, SettingsAclFails, SettingsRestore,
       SettingsAclBack, SettingsServers, SettingsReapply, Update, storeVars

\* What the other steps save.
LEMMA Saves ==
  ASSUME TypeOK, NEW h \in Handlers
  PROVE  /\ \A rules \in [Ids -> RuleValues] : \A ids : SaveRules(h, rules, ids) =>
              /\ cfg' = [cfg EXCEPT !.rules = rules] /\ disk' = cfg' /\ StoreFree
              /\ UNCHANGED <<token, rot, phase, warned, swallowed, acked, desired, servers, acl, stale>>
         /\ SaveSettings(h) =>
              /\ \E s \in Settings : cfg' = [cfg EXCEPT !.set = s]
              /\ disk' = cfg' /\ StoreFree
              /\ UNCHANGED <<token, rot, phase, warned, swallowed, acked, desired, servers, acl, stale, log>>
         /\ ChangeMonitor(h) =>
              /\ \E on \in BOOLEAN : cfg' = [cfg EXCEPT !.mon = on] /\ acked' = [acked EXCEPT !.mon = on]
              /\ disk' = cfg' /\ StoreFree /\ changeMu = Free /\ phase = "up"
              /\ UNCHANGED <<token, rot, phase, changeMu, req, log, warned, swallowed, desired, servers, acl, stale>>
<1> USE DEF storeVars, webVars, managerVars, ghostVars
<1>1. ASSUME NEW rules \in [Ids -> RuleValues], NEW ids, SaveRules(h, rules, ids)
      PROVE  /\ cfg' = [cfg EXCEPT !.rules = rules] /\ disk' = cfg' /\ StoreFree
             /\ UNCHANGED <<token, rot, phase, warned, swallowed, acked, desired, servers, acl, stale>>
  <2>1. /\ Update([cfg EXCEPT !.rules = rules])
        /\ UNCHANGED <<token, rot, phase, refresh, managerVars, acl, ghostVars, faults>>
    BY <1>1 DEF SaveRules
  <2> QED BY <2>1 DEF Update
<1>2. ASSUME SaveSettings(h)
      PROVE  /\ \E s \in Settings : cfg' = [cfg EXCEPT !.set = s]
             /\ disk' = cfg' /\ StoreFree
             /\ UNCHANGED <<token, rot, phase, warned, swallowed, acked, desired, servers, acl, stale, log>>
  BY <1>2 DEF SaveSettings, Update
<1>3. ASSUME ChangeMonitor(h)
      PROVE  /\ \E on \in BOOLEAN : cfg' = [cfg EXCEPT !.mon = on] /\ acked' = [acked EXCEPT !.mon = on]
             /\ disk' = cfg' /\ StoreFree /\ changeMu = Free /\ phase = "up"
             /\ UNCHANGED <<token, rot, phase, changeMu, req, log, warned, swallowed, desired, servers, acl, stale>>
  BY <1>3 DEF ChangeMonitor, Update
<1> QED BY <1>1, <1>2, <1>3

\* The file and the memory change together.
LEMMA NextStore ==
  ASSUME TypeOK, LockInv, RotationInv, StoreInv, [Next]_vars
  PROVE  StoreInv'
<1> USE DEF storeVars, webVars, managerVars, ghostVars
<1>1. ASSUME disk' = cfg' PROVE StoreInv'
  BY <1>1 DEF StoreInv
<1>2. ASSUME UNCHANGED <<disk, cfg, phase>> PROVE StoreInv'
  BY <1>2 DEF StoreInv, Exists
<1>3. ASSUME NEW h \in Handlers, HandlerStep(h) PROVE StoreInv'
  BY <1>1, <1>2, <1>3, HandlerFrame, HandlerSaves
<1>4. ASSUME NEW h \in Handlers,
             \/ \E rules \in [Ids -> RuleValues], ids \in SUBSET Ids : SaveRules(h, rules, ids)
             \/ SaveSettings(h) \/ ChangeMonitor(h)
      PROVE  StoreInv'
  BY <1>1, <1>4, Saves
<1>5. ASSUME \/ \E h \in Handlers : HandleRotate(h)
             \/ ResetToken \/ RotateSaveFails
      PROVE  StoreInv'
  BY <1>2, <1>5 DEF HandleRotate, RotateWrites, ResetToken, RotateSaveFails
<1>6. CASE RotateCommits
  <2>1. RotateEnds(disk') /\ rot.at # "none"
    BY <1>6 DEF RotateCommits
  <2>2. cfg' = disk' \/ phase' = "down"
    BY <2>1, Endings
  <2> QED BY <1>1, <2>2 DEF StoreInv
<1>7. CASE RotateUndoes
  <2>1. RotateEnds(cfg) /\ rot.at # "none" /\ disk' = disk
    BY <1>7 DEF RotateUndoes
  <2>2. (cfg' = cfg /\ phase' = phase) \/ phase' = "down"
    BY <2>1, Endings
  <2> QED BY <1>2, <2>1, <2>2 DEF StoreInv
<1>8. CASE Load
  BY <1>8 DEF Load, StoreInv
<1>9. CASE LoadSaves
  BY <1>1, <1>9 DEF LoadSaves
<1>10. CASE Launch
  BY <1>10 DEF Launch, StoreInv
<1>11. CASE Terminate
  BY <1>11 DEF Terminate, StoreInv
<1>12. CASE RefreshStep \/ UNCHANGED vars
  BY <1>2, <1>12, RefreshFrame DEF vars
<1> QED BY <1>3, <1>4, <1>5, <1>6, <1>7, <1>8, <1>9, <1>10, <1>11, <1>12, Steps DEF RotateStep

\* While a settings request may be rolled back, changeMu keeps every other
\* request from changing the configuration.
LEMMA NextSettings ==
  ASSUME TypeOK, LockInv, RotationInv, SettingsInv, [Next]_vars
  PROVE  SettingsInv'
<1> USE DEF storeVars, webVars, managerVars, ghostVars
<1>0. cfg \in Configs /\ \A h \in Handlers : req[h].new \in Configs /\ req[h].old \in Configs
  BY DEF TypeOK, Requests
<1>1. ASSUME \A h \in Handlers : req'[h].pc \notin {"acl", "restore"} PROVE SettingsInv'
  BY <1>1 DEF SettingsInv
<1>2. ASSUME UNCHANGED <<cfg, req>> PROVE SettingsInv'
  BY <1>2 DEF SettingsInv
<1>3. ASSUME NEW h \in Handlers, HandlerStep(h) PROVE SettingsInv'
  <2>1. CASE SettingsRestore(h)
    <3>1. Moves(h, "restore", "aclback")
      BY <2>1, Goings
    <3>2. \A g \in Handlers \ {h} : req[g].pc = "idle"
      BY <3>1, OneAtATime DEF Moves
    <3> QED BY <1>1, <3>1, <3>2 DEF Moves
  <2>2. CASE cfg' = cfg /\ \E from, to \in PCs \ {"idle", "rotate"} :
                              Moves(h, from, to) /\ (to \in {"acl", "restore"} => from = "acl")
    BY <2>2 DEF Moves, SettingsInv
  <2>3. CASE cfg' = cfg /\ \E from \in PCs \ {"idle", "rotate"} : Closes(h, from)
    BY <2>3 DEF Closes, SettingsInv
  <2>4. \/ \E from, to \in PCs \ {"idle", "rotate"} :
             Moves(h, from, to) /\ (to \in {"acl", "restore"} => from = "acl")
        \/ \E from \in PCs \ {"idle", "rotate"} : Closes(h, from)
    BY <1>3, Goings DEF HandlerStep, PCs
  <2> QED BY <1>3, <2>1, <2>2, <2>3, <2>4, HandlerSaves
<1>4. ASSUME NEW h \in Handlers, NEW to \in {"saved", "rotate"}, Opens(h, to) PROVE SettingsInv'
  <2>1. \A g \in Handlers : req[g].pc = "idle"
    BY <1>4, OneAtATime DEF Opens
  <2> QED BY <1>1, <1>4, <2>1 DEF Opens
<1>5. ASSUME NEW h \in Handlers, SaveSettings(h) PROVE SettingsInv'
  <2>1. Opens(h, "acl") /\ req'[h].new = cfg' /\ req'[h].old = cfg
    BY <1>5, Openings
  <2>2. PICK s \in Settings : cfg' = [cfg EXCEPT !.set = s]
    BY <1>5, Saves
  <2>3. \A g \in Handlers : req[g].pc = "idle"
    BY <2>1, OneAtATime DEF Opens
  <2>4. cfg' = [req'[h].old EXCEPT !.set = req'[h].new.set]
    BY <1>0, <2>1, <2>2, ConfigTypes
  <2> QED BY <2>1, <2>3, <2>4 DEF Opens, SettingsInv
<1>6. ASSUME NEW h \in Handlers, ChangeMonitor(h) PROVE SettingsInv'
  BY <1>1, <1>6, Saves, OneAtATime
<1>7. ASSUME NEW c, RotateEnds(c), rot.at # "none" PROVE SettingsInv'
  <2>1. ASSUME NEW h \in Handlers, Closes(h, "rotate") PROVE SettingsInv'
    <3>1. \A g \in Handlers \ {h} : req[g].pc = "idle"
      BY <2>1, OneAtATime DEF Closes
    <3> QED BY <1>1, <2>1, <3>1 DEF Closes
  <2>2. ASSUME changeMu = Free, req' = req PROVE SettingsInv'
    BY <1>1, <2>2, OneAtATime
  <2> QED BY <1>7, <2>1, <2>2, Endings
<1>8. CASE Load \/ LoadSaves \/ Launch \/ ResetToken
  <2>1. phase # "up" /\ req' = req
    BY <1>8 DEF Load, LoadSaves, Launch, ResetToken
  <2> QED BY <1>1, <2>1, OneAtATime
<1>9. CASE Terminate
  BY <1>1, <1>9, ConstantTypes DEF Terminate
<1>10. CASE RefreshStep \/ UNCHANGED vars \/ RotateSaveFails
  BY <1>2, <1>10, RefreshFrame DEF vars, RotateSaveFails
<1>11. CASE RotateCommits \/ RotateUndoes
  BY <1>7, <1>11 DEF RotateCommits, RotateUndoes
<1> QED BY <1>3, <1>4, <1>5, <1>6, <1>8, <1>9, <1>10, <1>11, Steps, Openings DEF RotateStep

\* The token file and the hash change in one rotation, or the operator is
\* told; no roll-back of the settings brings back another hash.
LEMMA NextToken ==
  ASSUME TypeOK, LockInv, RotationInv, SettingsInv, TokenInv, [Next]_vars
  PROVE  TokenInv'
<1> USE DEF storeVars, webVars, managerVars, ghostVars
<1>0. cfg \in Configs /\ token \in Nat /\ \A h \in Handlers : req[h].new \in Configs /\ req[h].old \in Configs
  BY DEF TypeOK, Requests
<1>1. ASSUME cfg'.hash = cfg.hash, UNCHANGED <<token, rot, phase, warned>> PROVE TokenInv'
  BY <1>1 DEF TokenInv
<1>2. ASSUME NEW h \in Handlers, HandlerStep(h) PROVE TokenInv'
  <2>1. UNCHANGED <<token, rot, phase, warned>>
    BY <1>2, HandlerFrame
  <2>2. cfg'.hash = cfg.hash
    <3>1. CASE cfg' = cfg
      BY <3>1
    <3>2. CASE SettingsRestore(h) /\ cfg' = req[h].old
      <4>1. cfg = [req[h].old EXCEPT !.set = req[h].new.set]
        BY <3>2 DEF SettingsRestore, SettingsInv
      <4>2. cfg.hash = req[h].old.hash
        BY <1>0, <4>1, ConfigTypes
      <4> QED BY <3>2, <4>2
    <3> QED BY <1>2, <3>1, <3>2, HandlerSaves
  <2> QED BY <1>1, <2>1, <2>2
<1>3. ASSUME NEW h \in Handlers,
             \/ \E rules \in [Ids -> RuleValues], ids \in SUBSET Ids : SaveRules(h, rules, ids)
             \/ SaveSettings(h) \/ ChangeMonitor(h)
      PROVE  TokenInv'
  <2>1. UNCHANGED <<token, rot, phase, warned>>
    BY <1>3, Saves
  <2>2. \/ \E rules \in [Ids -> RuleValues] : cfg' = [cfg EXCEPT !.rules = rules]
        \/ \E s \in Settings : cfg' = [cfg EXCEPT !.set = s]
        \/ \E on \in BOOLEAN : cfg' = [cfg EXCEPT !.mon = on]
    BY <1>3, Saves
  <2>3. cfg'.hash = cfg.hash
    BY <1>0, <2>2 DEF Configs
  <2> QED BY <1>1, <2>1, <2>3
<1>4. ASSUME NEW h \in Handlers, HandleRotate(h) PROVE TokenInv'
  <2>1. /\ phase = "up" /\ rot.at = "none" /\ rot'.at # "none" /\ rot'.prev = token
        /\ UNCHANGED <<cfg, phase, warned>>
    BY <1>4, ConstantTypes DEF HandleRotate, RotateWrites, Lock, StoreFree
  <2> QED BY <2>1 DEF TokenInv
<1>5. CASE ResetToken
  BY <1>5 DEF ResetToken, RotateWrites, TokenInv
<1>6. CASE RotateCommits
  <2>1. RotateEnds(disk') /\ rot.at # "none" /\ disk' = [cfg EXCEPT !.hash = token] /\ token' = token
    BY <1>6 DEF RotateCommits
  <2>2. disk'.hash = token
    BY <1>0, <2>1, ConfigTypes
  <2>3. rot'.at = "none" /\ (cfg' = disk' \/ phase' = "down")
    BY <2>1, Endings, ConstantTypes
  <2> QED BY <2>1, <2>2, <2>3 DEF TokenInv
<1>7. CASE RotateSaveFails
  <2>1. /\ rot.at # "none" /\ rot'.at = "undo" /\ rot'.prev = rot.prev
        /\ UNCHANGED <<cfg, phase, warned>>
    BY <1>7 DEF RotateSaveFails, TypeOK
  <2> QED BY <2>1 DEF TokenInv
<1>8. CASE RotateUndoes
  <2>1. RotateEnds(cfg) /\ rot.at # "none"
    BY <1>8 DEF RotateUndoes
  <2>2. rot'.at = "none" /\ ((phase = "up" /\ cfg' = cfg) \/ phase' = "down")
    BY <2>1, Endings, ConstantTypes
  <2>3. phase = "up" => rot.prev = cfg.hash \/ warned
    BY <2>1 DEF TokenInv
  <2>4. (token' = rot.prev /\ warned' = warned) \/ warned'
    <3>1. (token' = rot.prev /\ warned' = warned) \/ warned' = TRUE
      BY <1>8 DEF RotateUndoes
    <3> QED BY <3>1, Zenon
  <2> QED BY <2>2, <2>3, <2>4 DEF TokenInv
<1>9. CASE Load
  BY <1>9 DEF Load, TokenInv
<1>10. CASE LoadSaves
  <2>1. phase \notin {"up", "reset"} /\ UNCHANGED <<token, cfg, rot>>
    BY <1>10 DEF LoadSaves
  <2>2. rot.at = "none"
    BY <2>1, OneAtATime DEF RotationInv
  <2>3. warned' = (token # cfg.hash)
    BY <1>10 DEF LoadSaves
  <2>4. token' = cfg'.hash \/ warned'
    BY <2>1, <2>3
  <2> QED BY <2>1, <2>2, <2>4 DEF TokenInv
<1>11. CASE Launch
  <2>1. phase = "launch" /\ UNCHANGED <<token, cfg, rot, warned>>
    BY <1>11 DEF Launch
  <2> QED BY <2>1 DEF TokenInv
<1>12. CASE Terminate
  BY <1>12 DEF Terminate, TokenInv
<1>13. CASE RefreshStep \/ UNCHANGED vars
  BY <1>1, <1>13, RefreshFrame DEF vars
<1> QED BY <1>2, <1>3, <1>4, <1>5, <1>6, <1>7, <1>8, <1>9, <1>10, <1>11, <1>12, <1>13, Steps DEF RotateStep

-----------------------------------------------------------------------------
\* Answered requests.

\* A configuration that differs from another in one part.
LEMMA OnePart ==
  ASSUME NEW c \in Configs, NEW a \in Configs
  PROVE  /\ \A rules \in [Ids -> RuleValues] : c = [a EXCEPT !.rules = rules] =>
              c.rules = rules /\ c.set = a.set
         /\ \A set \in Settings : c = [a EXCEPT !.set = set] =>
              c.set = set /\ c.rules = a.rules
BY DEF Configs

\* Every answer adds to the answered requests what was saved for it, and a
\* process that dies leaves what was answered in the file.
LEMMA NextAck ==
  ASSUME TypeOK, LockInv, RotationInv, StoreInv, SettingsInv, AckInv, [Next]_vars
  PROVE  AckInv'
<1> USE DEF storeVars, webVars, managerVars, ghostVars
<1>0. /\ cfg \in Configs /\ acked \in Configs /\ disk \in Configs /\ token \in Nat
      /\ \A h \in Handlers : req[h].new \in Configs /\ req[h].old \in Configs
  BY DEF TypeOK, Requests
<1>1. ASSUME UNCHANGED <<cfg, disk, acked, phase, changeMu, req, swallowed>> PROVE AckInv'
  BY <1>1 DEF AckInv, Exists
<1>2. ASSUME NEW h \in Handlers, Closes(h, "observe") \/ Closes(h, "aclback") \/ Closes(h, "reapply")
                                   \/ Closes(h, "rotate"),
             phase = "up", phase' = "up", swallowed' = swallowed, swallowed \/ cfg' = acked'
      PROVE  AckInv'
  <2>1. \A g \in Handlers : req'[g].pc = "idle"
    BY <1>2, OneAtATime DEF Closes
  <2> QED BY <1>2, <2>1 DEF AckInv
<1>3. ASSUME NEW h \in Handlers, BeginApply(h) \/ ApplySaved(h) PROVE AckInv'
  <2>1. Moves(h, "saved", "applying") \/ Moves(h, "applying", "observe")
    BY <1>3, Goings
  <2>2. UNCHANGED <<cfg, disk, acked, phase, swallowed>>
    BY <1>3 DEF BeginApply, ApplySaved
  <2>3. phase = "up" /\ changeMu = h /\ \A g \in Handlers \ {h} : req[g].pc = "idle"
    BY <2>1, OneAtATime DEF Moves
  <2> QED BY <2>1, <2>2, <2>3, ConstantTypes DEF AckInv, Moves
<1>4. ASSUME NEW h \in Handlers, Observe(h) PROVE AckInv'
  <2>1. Closes(h, "observe")
    BY <1>4, Goings
  <2>2. UNCHANGED <<cfg, phase, swallowed>> /\ acked' = [acked EXCEPT !.rules = req[h].new.rules]
    BY <1>4 DEF Observe
  <2>3. phase = "up" /\ (swallowed \/ cfg = [acked EXCEPT !.rules = req[h].new.rules])
    BY <2>1, OneAtATime DEF AckInv, Closes
  <2> QED BY <1>2, <2>1, <2>2, <2>3
<1>5. ASSUME NEW h \in Handlers, SettingsAcl(h) \/ SettingsAclFails(h) \/ SettingsServers(h) PROVE AckInv'
  <2>1. Moves(h, "acl", "dns") \/ Moves(h, "acl", "restore") \/ Moves(h, "dns", "reapply")
    BY <1>5, Goings
  <2>2. UNCHANGED <<cfg, disk, acked, phase, swallowed>>
    BY <1>5 DEF SettingsAcl, SettingsAclFails, SettingsServers
  <2>3. phase = "up" /\ changeMu = h /\ \A g \in Handlers \ {h} : req[g].pc = "idle"
    BY <2>1, OneAtATime DEF Moves
  <2> QED BY <2>1, <2>2, <2>3, ConstantTypes DEF AckInv, Moves
<1>6. ASSUME NEW h \in Handlers, SettingsRestore(h) PROVE AckInv'
  <2>1. Moves(h, "restore", "aclback")
    BY <1>6, Goings
  <2>2. /\ UNCHANGED <<acked, phase>>
        /\ \/ cfg' = req[h].old /\ swallowed' = swallowed
           \/ swallowed' = TRUE
    BY <1>6 DEF SettingsRestore, Update
  <2>3. phase = "up" /\ changeMu = h /\ \A g \in Handlers \ {h} : req[g].pc = "idle"
    BY <2>1, OneAtATime DEF Moves
  <2>4. swallowed' \/ (cfg' = req[h].old /\ req[h].old = acked)
    <3>1. swallowed \/ req[h].old = acked
      BY <2>1, <2>3 DEF AckInv, Moves
    <3>2. \/ cfg' = req[h].old /\ swallowed' = swallowed
          \/ swallowed' = TRUE
      BY <2>2
    <3> QED BY <3>1, <3>2, Zenon
  <2> QED BY <2>1, <2>2, <2>3, <2>4, ConstantTypes DEF AckInv, Moves
<1>7. ASSUME NEW h \in Handlers, SettingsAclBack(h) PROVE AckInv'
  <2>1. Closes(h, "aclback")
    BY <1>7, Goings
  <2>2. UNCHANGED <<cfg, phase, swallowed, acked>>
    BY <1>7 DEF SettingsAclBack
  <2>3. phase = "up" /\ (swallowed \/ cfg = acked)
    BY <2>1, OneAtATime DEF AckInv, Closes
  <2> QED BY <1>2, <2>1, <2>2, <2>3
<1>8. ASSUME NEW h \in Handlers, SettingsReapply(h) PROVE AckInv'
  <2>1. Closes(h, "reapply")
    BY <1>8, Goings
  <2>2. UNCHANGED <<cfg, phase, swallowed>> /\ acked' = [acked EXCEPT !.set = req[h].new.set]
    BY <1>8 DEF SettingsReapply
  <2>3. phase = "up" /\ (swallowed \/ cfg = [acked EXCEPT !.set = req[h].new.set])
    BY <2>1, OneAtATime DEF AckInv, Closes
  <2> QED BY <1>2, <2>1, <2>2, <2>3
<1>9. ASSUME NEW h \in Handlers, NEW rules \in [Ids -> RuleValues], NEW ids, SaveRules(h, rules, ids)
      PROVE  AckInv'
  <2>1. Opens(h, "saved") /\ req'[h].new = cfg'
    BY <1>9, Openings
  <2>2. cfg' = [cfg EXCEPT !.rules = rules] /\ UNCHANGED <<phase, swallowed, acked>>
    BY <1>9, Saves
  <2>3. phase = "up" /\ \A g \in Handlers : req[g].pc = "idle"
    BY <2>1, OneAtATime DEF Opens
  <2>4. swallowed \/ cfg = acked
    BY <2>1 DEF AckInv, Opens
  <2>5. cfg'.rules = rules
    BY <1>0, <2>2, ConfigTypes
  <2> QED BY <2>1, <2>2, <2>3, <2>4, <2>5, ConstantTypes DEF AckInv, Opens
<1>10. ASSUME NEW h \in Handlers, SaveSettings(h) PROVE AckInv'
  <2>1. Opens(h, "acl") /\ req'[h].new = cfg' /\ req'[h].old = cfg
    BY <1>10, Openings
  <2>2. PICK s \in Settings : cfg' = [cfg EXCEPT !.set = s]
    BY <1>10, Saves
  <2>3. UNCHANGED <<phase, swallowed, acked>>
    BY <1>10, Saves
  <2>4. phase = "up" /\ \A g \in Handlers : req[g].pc = "idle"
    BY <2>1, OneAtATime DEF Opens
  <2>5. swallowed \/ cfg = acked
    BY <2>1 DEF AckInv, Opens
  <2>6. cfg'.set = s
    BY <1>0, <2>2, ConfigTypes
  <2> QED BY <2>1, <2>2, <2>3, <2>4, <2>5, <2>6, ConstantTypes DEF AckInv, Opens
<1>11. ASSUME NEW h \in Handlers, HandleRotate(h) PROVE AckInv'
  <2>1. Opens(h, "rotate")
    BY <1>11, Openings
  <2>2. UNCHANGED <<cfg, phase, swallowed, acked>>
    BY <1>11 DEF HandleRotate, RotateWrites
  <2>3. phase = "up" /\ \A g \in Handlers : req[g].pc = "idle"
    BY <2>1, OneAtATime DEF Opens
  <2>4. swallowed \/ cfg = acked
    BY <2>1 DEF AckInv, Opens
  <2> QED BY <2>1, <2>2, <2>3, <2>4, ConstantTypes DEF AckInv, Opens
<1>12. ASSUME NEW h \in Handlers, ChangeMonitor(h) PROVE AckInv'
  <2>1. PICK on \in BOOLEAN : cfg' = [cfg EXCEPT !.mon = on] /\ acked' = [acked EXCEPT !.mon = on]
    BY <1>12, Saves
  <2>2. phase = "up" /\ changeMu = Free /\ UNCHANGED <<phase, changeMu, req, swallowed>>
    BY <1>12, Saves
  <2>3. \A g \in Handlers : req[g].pc = "idle"
    BY <2>2, OneAtATime
  <2>4. swallowed \/ cfg = acked
    BY <2>2 DEF AckInv
  <2> QED BY <2>1, <2>2, <2>3, <2>4 DEF AckInv
<1>13. CASE ResetToken \/ RotateSaveFails
  BY <1>1, <1>13 DEF ResetToken, RotateWrites, RotateSaveFails
<1>14. ASSUME NEW c, RotateEnds(c), rot.at # "none", swallowed' = swallowed, disk' = c,
              cfg = acked => c = acked'
       PROVE  AckInv'
  <2>1. ASSUME NEW h \in Handlers, Closes(h, "rotate"), phase = "up", phase' = "up", cfg' = c
        PROVE  AckInv'
    <3>1. swallowed \/ cfg = acked
      BY <2>1 DEF AckInv, Closes
    <3> QED BY <1>2, <1>14, <2>1, <3>1
  <2>2. ASSUME phase = "reset", phase' = "down" PROVE AckInv'
    BY <1>14, <2>2 DEF AckInv
  <2> QED BY <1>14, <2>1, <2>2, Endings
<1>15. CASE RotateCommits
  BY <1>14, <1>15 DEF RotateCommits
<1>16. CASE RotateUndoes
  <2>1. RotateEnds(cfg) /\ rot.at # "none" /\ swallowed' = swallowed /\ disk' = disk /\ acked' = acked
    BY <1>16 DEF RotateUndoes
  <2>2. disk = cfg
    BY <2>1, Endings DEF StoreInv
  <2> QED BY <1>14, <2>1, <2>2
<1>17. CASE Load
  BY <1>17 DEF Load, AckInv, Exists
<1>18. CASE LoadSaves
  <2>1. /\ phase \in {"loading", "resetting"} /\ phase' \in {"launch", "reset"} /\ cfg' = cfg
        /\ acked' = IF Exists(disk) THEN acked ELSE cfg
    BY <1>18 DEF LoadSaves
  <2>2. Exists(disk) => cfg = disk /\ disk = acked
    BY <2>1 DEF StoreInv, AckInv
  <2> QED BY <2>1, <2>2 DEF AckInv
<1>19. CASE Launch
  <2>1. phase = "launch" /\ phase' = "up" /\ UNCHANGED <<cfg, acked, req, changeMu>>
    BY <1>19 DEF Launch
  <2>2. \A g \in Handlers : req[g].pc = "idle"
    BY <2>1, OneAtATime
  <2> QED BY <2>1, <2>2 DEF AckInv
<1>20. CASE Terminate
  <2>1. /\ phase' = "down" /\ disk' = disk
        /\ acked' = IF changeMu = Free /\ StoreFree /\ ~swallowed THEN acked ELSE disk
    BY <1>20 DEF Terminate
  <2>2. Exists(disk) /\ changeMu = Free /\ ~swallowed => disk = acked
    BY DEF StoreInv, AckInv, TypeOK
  <2>3. Exists(disk) => disk' = acked'
    BY <2>1, <2>2
  <2> QED BY <2>1, <2>3 DEF AckInv, Exists
<1>21. CASE RefreshStep \/ UNCHANGED vars
  BY <1>1, <1>21, RefreshFrame DEF vars
<1>22. ASSUME NEW h \in Handlers, HandlerStep(h) PROVE AckInv'
  BY <1>3, <1>4, <1>5, <1>6, <1>7, <1>8, <1>22 DEF HandlerStep
<1> QED BY <1>9, <1>10, <1>11, <1>12, <1>13, <1>15, <1>16, <1>17, <1>18, <1>19, <1>20, <1>21, <1>22, Steps
        DEF RotateStep

-----------------------------------------------------------------------------
\* What is in force.

\* A handler brings into force what it saved, and the refresh loop marks what
\* it sets from an outdated snapshot.
LEMMA NextForce ==
  ASSUME TypeOK, LockInv, RotationInv, SettingsInv, AckInv, ForceInv, [Next]_vars
  PROVE  ForceInv'
<1> USE DEF storeVars, webVars, managerVars, ghostVars
<1>0. /\ cfg \in Configs /\ acked \in Configs /\ refresh.snap \in Configs
      /\ cfg.set \in Settings /\ acked.set \in Settings
      /\ acl.boot \in BOOLEAN /\ stale \subseteq {"rules", "acl"}
      /\ \A h \in Handlers :
           /\ req[h].new \in Configs /\ req[h].old \in Configs /\ req[h].snap \in [Ids -> RuleValues]
           /\ req[h].new.rules \in [Ids -> RuleValues] /\ req[h].new.set \in Settings
           /\ req[h].old.set \in Settings
  BY DEF TypeOK, Requests, Configs
<1>1. ASSUME cfg'.rules = cfg.rules, cfg'.set = cfg.set, acked'.set = acked.set,
             UNCHANGED <<phase, req, swallowed, desired, servers, acl, stale>>
      PROVE  ForceInv'
  BY <1>1 DEF ForceInv
<1>2. ASSUME NEW h \in Handlers, BeginApply(h) PROVE ForceInv'
  <2>1. Moves(h, "saved", "applying")
    BY <1>2, Goings
  <2>2. UNCHANGED <<cfg, acked, phase, swallowed, desired, servers, acl, stale>>
    BY <1>2 DEF BeginApply
  <2>3. \A g \in Handlers \ {h} : req[g].pc = "idle"
    BY <2>1, OneAtATime DEF Moves
  <2> QED BY <2>1, <2>2, <2>3 DEF ForceInv, Moves
<1>3. ASSUME NEW h \in Handlers, ApplySaved(h) PROVE ForceInv'
  <2>1. Moves(h, "applying", "observe")
    BY <1>3, Goings
  <2>2. /\ UNCHANGED <<cfg, acked, phase, swallowed, servers, acl>> /\ desired' = req[h].new.rules
        /\ "acl" \in stale => "acl" \in stale'
    BY <1>3 DEF ApplySaved, Apply
  <2>3. \A g \in Handlers \ {h} : req[g].pc = "idle"
    BY <2>1, OneAtATime DEF Moves
  <2>4. phase = "up" /\ ~swallowed => cfg = [acked EXCEPT !.rules = req[h].new.rules]
    BY <2>1 DEF AckInv, Moves
  <2>5. phase = "up" /\ ~swallowed => cfg.rules = req[h].new.rules
    BY <1>0, <2>4, OnePart
  <2> QED BY <2>1, <2>2, <2>3, <2>5 DEF ForceInv, Moves
<1>4. ASSUME NEW h \in Handlers, Observe(h) PROVE ForceInv'
  <2>1. Closes(h, "observe")
    BY <1>4, Goings
  <2>2. /\ UNCHANGED <<cfg, phase, swallowed, desired, servers, acl, stale>>
        /\ acked' = [acked EXCEPT !.rules = req[h].new.rules]
    BY <1>4 DEF Observe
  <2>3. acked'.set = acked.set
    BY <1>0, <2>2, ConfigTypes
  <2>4. \A g \in Handlers \ {h} : req[g].pc = "idle"
    BY <2>1, OneAtATime DEF Closes
  <2> QED BY <2>1, <2>2, <2>3, <2>4 DEF ForceInv, Closes
<1>5. ASSUME NEW h \in Handlers, SettingsAcl(h) PROVE ForceInv'
  <2>1. Moves(h, "acl", "dns")
    BY <1>5, Goings
  <2>2. /\ UNCHANGED <<cfg, acked, phase, swallowed, desired, servers>>
        /\ acl' = AclOf(req[h].new.set, acl.boot)
        /\ "rules" \in stale => "rules" \in stale'
    BY <1>5 DEF SettingsAcl
  <2>3. \A g \in Handlers \ {h} : req[g].pc = "idle"
    BY <2>1, OneAtATime DEF Moves
  <2>4. phase = "up" /\ ~swallowed => cfg = [acked EXCEPT !.set = req[h].new.set]
    BY <2>1 DEF AckInv, Moves
  <2>5. phase = "up" /\ ~swallowed => cfg.set = req[h].new.set
    BY <1>0, <2>4, OnePart
  <2>6. acl'.list = req[h].new.set.list
    BY <1>0, <2>2, AclTypes
  <2> QED BY <2>1, <2>2, <2>3, <2>5, <2>6 DEF ForceInv, Moves
<1>6. ASSUME NEW h \in Handlers, SettingsAclFails(h) PROVE ForceInv'
  <2>1. Moves(h, "acl", "restore")
    BY <1>6, Goings
  <2>2. UNCHANGED <<cfg, acked, phase, swallowed, desired, servers, acl, stale>>
    BY <1>6 DEF SettingsAclFails
  <2>3. \A g \in Handlers \ {h} : req[g].pc = "idle"
    BY <2>1, OneAtATime DEF Moves
  <2> QED BY <2>1, <2>2, <2>3 DEF ForceInv, Moves
<1>7. ASSUME NEW h \in Handlers, SettingsRestore(h) PROVE ForceInv'
  <2>1. Moves(h, "restore", "aclback")
    BY <1>7, Goings
  <2>2. UNCHANGED <<acked, phase, desired, servers, acl, stale>>
    BY <1>7 DEF SettingsRestore
  <2>3. \A g \in Handlers \ {h} : req[g].pc = "idle"
    BY <2>1, OneAtATime DEF Moves
  <2>4. cfg'.rules = cfg.rules
    <3>1. cfg = [req[h].old EXCEPT !.set = req[h].new.set]
      BY <2>1 DEF SettingsInv, Moves
    <3>2. cfg.rules = req[h].old.rules
      BY <1>0, <3>1, OnePart
    <3>3. cfg' = req[h].old \/ cfg' = cfg
      BY <1>7 DEF SettingsRestore, Update
    <3> QED BY <3>2, <3>3
  <2>5. ~swallowed' => ~swallowed
    <3>1. swallowed' = swallowed \/ swallowed' = TRUE
      BY <1>7 DEF SettingsRestore
    <3> QED BY <3>1, Zenon
  <2> QED BY <2>1, <2>2, <2>3, <2>4, <2>5 DEF ForceInv, Moves
<1>8. ASSUME NEW h \in Handlers, SettingsAclBack(h) PROVE ForceInv'
  <2>1. Closes(h, "aclback")
    BY <1>8, Goings
  <2>2. /\ UNCHANGED <<cfg, acked, phase, swallowed, desired, servers>>
        /\ "rules" \in stale => "rules" \in stale'
        /\ acl' = AclOf(req[h].old.set, acl.boot) \/ UNCHANGED <<acl, stale>>
    BY <1>8 DEF SettingsAclBack
  <2>3. \A g \in Handlers \ {h} : req[g].pc = "idle"
    BY <2>1, OneAtATime DEF Closes
  <2>4. phase = "up" /\ ~swallowed => req[h].old = acked
    BY <2>1 DEF AckInv, Closes
  <2>5. acl'.list = req[h].old.set.list \/ UNCHANGED <<acl, stale>>
    BY <1>0, <2>2, AclTypes
  <2> QED BY <2>1, <2>2, <2>3, <2>4, <2>5 DEF ForceInv, Closes
<1>9. ASSUME NEW h \in Handlers, SettingsServers(h) PROVE ForceInv'
  <2>1. /\ Moves(h, "dns", "reapply")
        /\ req'[h].snap = desired /\ req'[h].was = ("rules" \in stale)
    BY <1>9, Goings
  <2>2. UNCHANGED <<cfg, acked, phase, swallowed, desired, acl, stale>> /\ servers' = req[h].new.set.dns
    BY <1>9 DEF SettingsServers
  <2>3. \A g \in Handlers \ {h} : req[g].pc = "idle"
    BY <2>1, OneAtATime DEF Moves
  <2>4. phase = "up" /\ ~swallowed => cfg = [acked EXCEPT !.set = req[h].new.set]
    BY <2>1 DEF AckInv, Moves
  <2>5. phase = "up" /\ ~swallowed => cfg.set = req[h].new.set
    BY <1>0, <2>4, OnePart
  <2>6. phase = "up" /\ ~swallowed => desired = cfg.rules \/ "rules" \in stale
    BY <2>1, <2>3 DEF ForceInv, Moves
  <2>7. "rules" \in stale => req'[h].was
    BY <2>1
  <2> QED BY <2>1, <2>2, <2>3, <2>5, <2>6, <2>7 DEF ForceInv, Moves
<1>10. ASSUME NEW h \in Handlers, SettingsReapply(h) PROVE ForceInv'
  <2>1. Closes(h, "reapply")
    BY <1>10, Goings
  <2>2. /\ UNCHANGED <<cfg, phase, swallowed, servers, acl>> /\ desired' = req[h].snap
        /\ acked' = [acked EXCEPT !.set = req[h].new.set]
        /\ "acl" \in stale => "acl" \in stale'
    BY <1>10 DEF SettingsReapply, Apply
  <2>3. \A g \in Handlers \ {h} : req[g].pc = "idle"
    BY <2>1, OneAtATime DEF Closes
  <2>4. phase = "up" /\ ~swallowed => cfg = [acked EXCEPT !.set = req[h].new.set]
    BY <2>1 DEF AckInv, Closes
  <2>5. phase = "up" /\ ~swallowed => acked'.set = cfg.set
    BY <2>2, <2>4
  <2>6. phase = "up" /\ ~swallowed => req[h].snap = cfg.rules \/ req[h].was
    BY <2>1 DEF ForceInv, Closes
  <2>7. req[h].snap # cfg.rules /\ req[h].was => "rules" \in stale'
    BY <1>10 DEF SettingsReapply
  <2>8. phase = "up" /\ ~swallowed =>
          /\ acl.list = cfg.set.list \/ "acl" \in stale
          /\ servers = cfg.set.dns
    BY <2>1 DEF ForceInv, Closes
  <2> QED BY <2>1, <2>2, <2>3, <2>5, <2>6, <2>7, <2>8 DEF ForceInv, Closes
<1>11. ASSUME NEW h \in Handlers, NEW rules \in [Ids -> RuleValues], NEW ids, SaveRules(h, rules, ids)
       PROVE  ForceInv'
  <2>1. Opens(h, "saved")
    BY <1>11, Openings
  <2>2. UNCHANGED <<acked, phase, swallowed, desired, servers, acl, stale>>
    BY <1>11, Saves
  <2>3. \A g \in Handlers : req[g].pc = "idle"
    BY <2>1, OneAtATime DEF Opens
  <2> QED BY <2>1, <2>2, <2>3 DEF ForceInv, Opens
<1>12. ASSUME NEW h \in Handlers, SaveSettings(h) PROVE ForceInv'
  <2>1. Opens(h, "acl")
    BY <1>12, Openings
  <2>2. UNCHANGED <<acked, phase, swallowed, desired, servers, acl, stale>>
    BY <1>12, Saves
  <2>3. \A g \in Handlers : req[g].pc = "idle"
    BY <2>1, OneAtATime DEF Opens
  <2>4. PICK s \in Settings : cfg' = [cfg EXCEPT !.set = s]
    BY <1>12, Saves
  <2>5. cfg'.rules = cfg.rules
    BY <1>0, <2>4, ConfigTypes
  <2> QED BY <2>1, <2>2, <2>3, <2>5 DEF ForceInv, Opens
<1>13. ASSUME NEW h \in Handlers, HandleRotate(h) PROVE ForceInv'
  <2>1. Opens(h, "rotate")
    BY <1>13, Openings
  <2>2. UNCHANGED <<cfg, acked, phase, swallowed, desired, servers, acl, stale>>
    BY <1>13 DEF HandleRotate, RotateWrites
  <2>3. \A g \in Handlers : req[g].pc = "idle"
    BY <2>1, OneAtATime DEF Opens
  <2> QED BY <2>1, <2>2, <2>3 DEF ForceInv, Opens
<1>14. ASSUME NEW h \in Handlers, ChangeMonitor(h) PROVE ForceInv'
  <2>1. PICK on \in BOOLEAN : cfg' = [cfg EXCEPT !.mon = on] /\ acked' = [acked EXCEPT !.mon = on]
    BY <1>14, Saves
  <2>2. cfg'.rules = cfg.rules /\ cfg'.set = cfg.set /\ acked'.set = acked.set
    BY <1>0, <2>1, ConfigTypes
  <2>3. UNCHANGED <<phase, req, swallowed, desired, servers, acl, stale>>
    BY <1>14, Saves
  <2> QED BY <1>1, <2>2, <2>3
<1>15. CASE ResetToken \/ RotateSaveFails
  BY <1>1, <1>15 DEF ResetToken, RotateWrites, RotateSaveFails
<1>16. ASSUME NEW c, RotateEnds(c), rot.at # "none", c.rules = cfg.rules, c.set = cfg.set,
              acked'.set = acked.set, UNCHANGED <<swallowed, desired, servers, acl, stale>>
       PROVE  ForceInv'
  <2>1. ASSUME NEW h \in Handlers, Closes(h, "rotate"), phase = "up", cfg' = c PROVE ForceInv'
    <3>1. \A g \in Handlers \ {h} : req[g].pc = "idle"
      BY <2>1, OneAtATime DEF Closes
    <3> QED BY <1>16, <2>1, <3>1 DEF ForceInv, Closes
  <2> QED BY <1>16, <2>1, Endings DEF ForceInv
<1>17. CASE RotateCommits
  <2>1. /\ RotateEnds(disk') /\ rot.at # "none" /\ disk' = [cfg EXCEPT !.hash = token]
        /\ acked' = [acked EXCEPT !.hash = token] /\ token \in Nat
        /\ UNCHANGED <<swallowed, desired, servers, acl, stale>>
    BY <1>17 DEF RotateCommits, TypeOK
  <2>2. disk'.rules = cfg.rules /\ disk'.set = cfg.set /\ acked'.set = acked.set
    BY <1>0, <2>1, ConfigTypes
  <2> QED BY <1>16, <2>1, <2>2
<1>18. CASE RotateUndoes
  BY <1>16, <1>18 DEF RotateUndoes
<1>19. CASE Load \/ LoadSaves \/ Terminate
  BY <1>19 DEF Load, LoadSaves, Terminate, ForceInv
<1>20. CASE Launch
  <2>1. /\ phase = "launch" /\ UNCHANGED <<cfg, acked, req>> /\ servers' = cfg.set.dns
        /\ acl' = AclOf(cfg.set, TRUE) /\ desired' = cfg.rules
    BY <1>20 DEF Launch, Apply
  <2>2. cfg = acked
    BY <2>1 DEF AckInv
  <2>3. \A g \in Handlers : req[g].pc = "idle"
    BY <2>1, OneAtATime
  <2>4. acl'.list = cfg.set.list
    BY <1>0, <2>1, AclTypes
  <2> QED BY <2>1, <2>2, <2>3, <2>4 DEF ForceInv
<1>21. CASE RefreshReads \/ UNCHANGED vars
  BY <1>1, <1>21 DEF RefreshReads, vars
<1>22. CASE RefreshAcl
  <2>1. UNCHANGED <<cfg, acked, phase, swallowed, req, desired, servers>>
    BY <1>22 DEF RefreshAcl
  <2>2. /\ "rules" \in stale => "rules" \in stale'
        /\ \/ UNCHANGED <<acl, stale>>
           \/ "acl" \in stale'
           \/ /\ acl' = AclOf(refresh.snap.set, TRUE)
              /\ refresh.snap.set = cfg.set /\ refresh.snap.set = acked.set
    BY <1>22 DEF RefreshAcl
  <2>3. \/ UNCHANGED <<acl, stale>>
        \/ "acl" \in stale'
        \/ acl'.list = cfg.set.list /\ acl'.list = acked.set.list
    <3>1. refresh.snap.set \in Settings
      BY <1>0 DEF Configs
    <3>2. AclOf(refresh.snap.set, TRUE).list = refresh.snap.set.list
      BY <3>1, AclTypes
    <3> QED BY <2>2, <3>2
  <2> QED BY <2>1, <2>2, <2>3 DEF ForceInv
<1>23. CASE RefreshRules
  <2>1. UNCHANGED <<cfg, acked, phase, swallowed, req, servers, acl>>
    BY <1>23 DEF RefreshRules
  <2>2. /\ "acl" \in stale => "acl" \in stale'
        /\ desired' = cfg.rules \/ "rules" \in stale'
    BY <1>23 DEF RefreshRules, Apply
  <2> QED BY <2>1, <2>2 DEF ForceInv
<1>24. ASSUME NEW h \in Handlers, HandlerStep(h) PROVE ForceInv'
  BY <1>2, <1>3, <1>4, <1>5, <1>6, <1>7, <1>8, <1>9, <1>10, <1>24 DEF HandlerStep
<1> QED BY <1>11, <1>12, <1>13, <1>14, <1>15, <1>17, <1>18, <1>19, <1>20, <1>21, <1>22, <1>23, <1>24, Steps
        DEF RotateStep, RefreshStep

-----------------------------------------------------------------------------
\* The operations.

\* A new operation is the last; the others keep their order, and the oldest
\* may be gone.
LEMMA SetOperationNew ==
  ASSUME NEW Ops, log \in Seq(Ops), Len(log) <= LogCap, NEW op \in Ops, SetOperation(op),
         \A n \in 1..Len(log) : log[n].id # op.id
  PROVE  \E d \in {0, 1} : /\ Len(log') = Len(log) + 1 - d /\ Len(log') > 0
                           /\ log'[Len(log')] = op
                           /\ \A n \in 1..(Len(log') - 1) : n + d \in 1..Len(log) /\ log'[n] = log[n + d]
<1>0. LogCap \in Nat \ {0} /\ Len(log) \in Nat
  BY ControlAssumption
<1> DEFINE longer == Append(log, op)
<1>1. log' = IF Len(longer) > LogCap THEN Tail(longer) ELSE longer
  BY DEF SetOperation
<1>2. /\ longer \in Seq(Ops) /\ Len(longer) = Len(log) + 1 /\ longer[Len(log) + 1] = op
      /\ \A n \in 1..Len(log) : longer[n] = log[n]
  OBVIOUS
<1> HIDE DEF longer
<1>3. CASE Len(longer) > LogCap
  <2>1. log' = Tail(longer) /\ longer # <<>> /\ Len(log) > 0
    BY <1>0, <1>1, <1>2, <1>3
  <2>2. Len(log') = Len(log) /\ \A n \in 1..Len(log) : log'[n] = longer[n + 1]
    BY <1>0, <1>2, <2>1
  <2>3. log'[Len(log')] = op
    BY <1>0, <1>2, <2>1, <2>2
  <2>4. \A n \in 1..(Len(log') - 1) : n + 1 \in 1..Len(log) /\ log'[n] = log[n + 1]
    BY <1>0, <1>2, <2>2
  <2> QED BY <1>0, <2>1, <2>2, <2>3, <2>4
<1>4. CASE ~(Len(longer) > LogCap)
  <2>1. log' = longer
    BY <1>1, <1>4
  <2>2. \A n \in 1..(Len(log') - 1) : n + 0 \in 1..Len(log) /\ log'[n] = log[n + 0]
    BY <1>0, <1>2, <2>1
  <2> QED BY <1>0, <1>2, <2>1, <2>2
<1> QED BY <1>3, <1>4

\* The operation at work, which is the last, is replaced.
LEMMA SetOperationLast ==
  ASSUME NEW Ops, log \in Seq(Ops), Len(log) > 0, NEW op \in Ops, SetOperation(op),
         log[Len(log)].id = op.id,
         \A n \in 1..Len(log) : n # Len(log) => log[n].id # op.id
  PROVE  /\ Len(log') = Len(log) /\ log'[Len(log)] = op
         /\ \A n \in 1..Len(log) : n # Len(log) => log'[n] = log[n]
<1> DEFINE at == {n \in 1..Len(log) : log[n].id = op.id}
<1>1. Len(log) \in Nat /\ Len(log) \in 1..Len(log)
  OBVIOUS
<1>2. at = {Len(log)}
  BY <1>1
<1>3. log' = IF at # {} THEN [log EXCEPT ![CHOOSE n \in at : TRUE] = op]
             ELSE IF Len(Append(log, op)) > LogCap THEN Tail(Append(log, op)) ELSE Append(log, op)
  BY DEF SetOperation
<1> HIDE DEF at
<1>4. log' = [log EXCEPT ![Len(log)] = op]
  BY <1>2, <1>3
<1> QED BY <1>1, <1>4

\* The handler at work is the one whose operation is last and unfinished.
LEMMA NextLog ==
  ASSUME TypeOK, LockInv, RotationInv, LogInv, [Next]_vars
  PROVE  LogInv'
<1> USE DEF storeVars, webVars, managerVars, ghostVars
<1> DEFINE Ops == [id : Nat, state : OpStates]
           Busy == {"saved", "applying", "observe"}
<1>0. /\ log \in Seq(Ops) /\ Len(log) <= LogCap /\ Len(log) \in Nat /\ edits \in Nat
      /\ \A n \in 1..Len(log) : log[n] \in Ops /\ log[n].id \in Nat
      /\ \A h \in Handlers : req[h].id \in Nat
  <2>1. log \in Seq(Ops) /\ Len(log) <= LogCap
    BY DEF TypeOK
  <2>2. edits \in Nat
    BY ControlAssumption DEF TypeOK
  <2>3. \A h \in Handlers : req[h].id \in Nat
    BY DEF TypeOK, Requests
  <2>4. \A op \in Ops : op.id \in Nat
    OBVIOUS
  <2> HIDE DEF Ops
  <2>5. Len(log) \in Nat /\ \A n \in 1..Len(log) : log[n] \in Ops
    BY <2>1
  <2> QED BY <2>1, <2>2, <2>3, <2>4, <2>5
<1>1. ASSUME log' = log, edits' \in Nat, edits' >= edits,
             \A h \in Handlers : /\ (req'[h].pc \in Busy <=> req[h].pc \in Busy)
                                 /\ (req[h].pc \in Busy => req'[h].id = req[h].id)
      PROVE  LogInv'
  <2>1. \A n \in 1..Len(log) : log[n].id < edits'
    BY <1>0, <1>1 DEF LogInv
  <2> QED BY <1>1, <2>1 DEF LogInv
<1>2. ASSUME NEW h \in Handlers, req[h].pc \in Busy, NEW op \in Ops, op.id = req[h].id, SetOperation(op)
      PROVE  /\ Len(log') = Len(log) /\ Len(log) > 0 /\ log'[Len(log)] = op
             /\ \A n \in 1..Len(log) : n # Len(log) => log'[n] = log[n] /\ log[n].state \notin {"saved", "applying"}
             /\ \A n \in 1..Len(log) : log'[n].id = log[n].id
  <2>1. Len(log) > 0 /\ log[Len(log)].id = op.id
    BY <1>2 DEF LogInv
  <2>2. \A n \in 1..Len(log) : n # Len(log) => log[n].id < log[Len(log)].id
    BY <1>0, <2>1 DEF LogInv
  <2>3. \A n \in 1..Len(log) : n # Len(log) => log[n].id # op.id
    BY <1>0, <2>1, <2>2
  <2>4. /\ Len(log') = Len(log) /\ log'[Len(log)] = op
        /\ \A n \in 1..Len(log) : n # Len(log) => log'[n] = log[n]
    BY <1>0, <1>2, <2>1, <2>3, SetOperationLast
  <2>5. \A n \in 1..Len(log) : log[n].state \in {"saved", "applying"} => n = Len(log)
    BY DEF LogInv
  <2> QED BY <2>1, <2>4, <2>5
<1>3. ASSUME NEW h \in Handlers, BeginApply(h) PROVE LogInv'
  <2>1. Moves(h, "saved", "applying") /\ edits' = edits
    BY <1>3, Goings DEF BeginApply
  <2>2. [id |-> req[h].id, state |-> "applying"] \in Ops
    BY <1>0 DEF OpStates
  <2>3. SetOperation([id |-> req[h].id, state |-> "applying"])
    BY <1>3 DEF BeginApply
  <2>4. /\ Len(log') = Len(log) /\ Len(log) > 0
        /\ \A n \in 1..Len(log) : n # Len(log) => log'[n] = log[n] /\ log[n].state \notin {"saved", "applying"}
        /\ \A n \in 1..Len(log) : log'[n].id = log[n].id
    BY <1>2, <2>1, <2>2, <2>3 DEF Moves
  <2>5. \A g \in Handlers : req'[g].pc \in Busy <=> g = h
    BY <2>1, OneAtATime DEF Moves
  <2>6. req'[h].id = req[h].id /\ log[Len(log)].id = req[h].id
    BY <2>1 DEF Moves, LogInv
  <2>7. Len(log) \in 1..Len(log)
    BY <1>0, <2>4
  <2>8. /\ \A n \in 1..Len(log) : log[n].id < edits
        /\ \A m, n \in 1..Len(log) : m < n => log[m].id < log[n].id
    BY DEF LogInv
  <2> QED BY <2>1, <2>4, <2>5, <2>6, <2>7, <2>8 DEF LogInv
<1>4. ASSUME NEW h \in Handlers, Observe(h) PROVE LogInv'
  <2>1. Closes(h, "observe") /\ edits' = edits
    BY <1>4, Goings DEF Observe
  <2> DEFINE op == [id |-> req[h].id, state |-> Observed(req[h])]
  <2>2. Observed(req[h]) \in OpStates \ {"saved", "applying"}
    BY DEF OpStates, Observed
  <2>3. SetOperation(op)
    BY <1>4 DEF Observe
  <2>4. op \in Ops /\ op.id = req[h].id /\ op.state \notin {"saved", "applying"}
    BY <1>0, <2>2
  <2> HIDE DEF op
  <2>5. /\ Len(log') = Len(log) /\ Len(log) > 0 /\ log'[Len(log)] = op
        /\ \A n \in 1..Len(log) : n # Len(log) => log'[n] = log[n] /\ log[n].state \notin {"saved", "applying"}
        /\ \A n \in 1..Len(log) : log'[n].id = log[n].id
    BY <1>2, <2>1, <2>3, <2>4 DEF Closes
  <2>6. \A g \in Handlers : req'[g].pc \notin Busy
    BY <2>1, OneAtATime DEF Closes
  <2>7. \A n \in 1..Len(log) : log'[n].state \notin {"saved", "applying"}
    BY <2>4, <2>5
  <2>8. /\ \A n \in 1..Len(log) : log[n].id < edits
        /\ \A m, n \in 1..Len(log) : m < n => log[m].id < log[n].id
    BY DEF LogInv
  <2> QED BY <2>1, <2>5, <2>6, <2>7, <2>8 DEF LogInv
<1>5. ASSUME NEW h \in Handlers, NEW rules, NEW ids, SaveRules(h, rules, ids) PROVE LogInv'
  <2>1. Opens(h, "saved") /\ req'[h].id = edits
    BY <1>5, Openings
  <2> DEFINE op == [id |-> edits, state |-> "saved"]
  <2>2. SetOperation(op) /\ edits' = edits + 1
    BY <1>5 DEF SaveRules, Edit
  <2>3. op \in Ops /\ op.id = edits
    BY <1>0 DEF OpStates
  <2> HIDE DEF op
  <2>4. \A g \in Handlers : req[g].pc = "idle"
    BY <2>1, OneAtATime DEF Opens
  <2>5. \A n \in 1..Len(log) : log[n].id < edits /\ log[n].state \notin {"saved", "applying"}
    BY <2>4 DEF LogInv
  <2>6. \A n \in 1..Len(log) : log[n].id # op.id
    BY <1>0, <2>3, <2>5
  <2>7. PICK d \in {0, 1} :
          /\ Len(log') = Len(log) + 1 - d /\ Len(log') > 0
          /\ log'[Len(log')] = op
          /\ \A n \in 1..(Len(log') - 1) : n + d \in 1..Len(log) /\ log'[n] = log[n + d]
    BY <1>0, <2>2, <2>3, <2>6, SetOperationNew
  <2>8. Len(log') \in Nat
    BY <1>0, <2>7
  <2>9. \A n \in 1..Len(log') : n # Len(log') => n \in 1..(Len(log') - 1)
    BY <2>8
  <2>10. \A n \in 1..Len(log') : n # Len(log') =>
           log'[n].id < edits /\ log'[n].id \in Nat /\ log'[n].state \notin {"saved", "applying"}
    BY <1>0, <2>5, <2>7, <2>9
  <2>11. \A n \in 1..Len(log') : log'[n].id < edits'
    <3> SUFFICES ASSUME NEW n \in 1..Len(log') PROVE log'[n].id < edits'
      OBVIOUS
    <3>1. CASE n = Len(log')
      <4>1. log'[n].id = edits
        BY <2>3, <2>7, <3>1
      <4> QED BY <1>0, <2>2, <4>1
    <3>2. CASE n # Len(log')
      <4>1. log'[n].id < edits /\ log'[n].id \in Nat
        BY <2>10, <3>2
      <4> QED BY <1>0, <2>2, <4>1
    <3> QED BY <3>1, <3>2
  <2>12. \A m, n \in 1..Len(log') : m < n => log'[m].id < log'[n].id
    <3> SUFFICES ASSUME NEW m \in 1..Len(log'), NEW n \in 1..Len(log'), m < n
                 PROVE  log'[m].id < log'[n].id
      OBVIOUS
    <3>1. m # Len(log') /\ m \in 1..(Len(log') - 1)
      BY <2>8
    <3>2. CASE n = Len(log')
      BY <2>3, <2>7, <2>10, <3>1, <3>2
    <3>3. CASE n # Len(log')
      <4>1. n \in 1..(Len(log') - 1)
        BY <2>9, <3>3
      <4>2. m + d < n + d
        BY <2>8
      <4> QED BY <2>7, <3>1, <4>1, <4>2 DEF LogInv
    <3> QED BY <3>2, <3>3
  <2>13. \A g \in Handlers : req'[g].pc \in Busy <=> g = h
    BY <2>1, <2>4 DEF Opens
  <2> QED BY <2>1, <2>3, <2>7, <2>10, <2>11, <2>12, <2>13 DEF LogInv
<1>6. ASSUME NEW h \in Handlers,
             ApplySaved(h) \/ SettingsAcl(h) \/ SettingsAclFails(h) \/ SettingsRestore(h) \/ SettingsServers(h)
      PROVE  LogInv'
  <2>1. \/ Moves(h, "applying", "observe") \/ Moves(h, "acl", "dns") \/ Moves(h, "acl", "restore")
        \/ Moves(h, "restore", "aclback") \/ Moves(h, "dns", "reapply")
    BY <1>6, Goings
  <2>2. log' = log /\ edits' = edits
    BY <1>6 DEF ApplySaved, SettingsAcl, SettingsAclFails, SettingsRestore, SettingsServers
  <2> QED BY <1>0, <1>1, <2>1, <2>2 DEF Moves
<1>7. ASSUME NEW h \in Handlers, SettingsAclBack(h) \/ SettingsReapply(h) PROVE LogInv'
  <2>1. Closes(h, "aclback") \/ Closes(h, "reapply")
    BY <1>7, Goings
  <2>2. log' = log /\ edits' = edits
    BY <1>7 DEF SettingsAclBack, SettingsReapply
  <2> QED BY <1>0, <1>1, <2>1, <2>2 DEF Closes
<1>8. ASSUME NEW h \in Handlers, SaveSettings(h) \/ HandleRotate(h) PROVE LogInv'
  <2>1. Opens(h, "acl") \/ Opens(h, "rotate")
    BY <1>8, Openings
  <2>2. log' = log /\ edits' = edits + 1
    BY <1>8 DEF SaveSettings, HandleRotate, RotateWrites, Edit
  <2>3. \A g \in Handlers : req[g].pc = "idle"
    BY <2>1, OneAtATime DEF Opens
  <2> QED BY <1>0, <1>1, <2>1, <2>2, <2>3 DEF Opens
<1>9. ASSUME NEW h \in Handlers, ChangeMonitor(h) PROVE LogInv'
  <2>1. log' = log /\ edits' = edits + 1 /\ req' = req
    BY <1>9 DEF ChangeMonitor, Edit
  <2> QED BY <1>0, <1>1, <2>1
<1>10. CASE ResetToken \/ RotateSaveFails \/ Load \/ LoadSaves \/ Launch
  <2>1. log' = log /\ req' = req /\ (edits' = edits \/ edits' = edits + 1)
    BY <1>10 DEF ResetToken, RotateWrites, RotateSaveFails, Load, LoadSaves, Launch, Edit
  <2> QED BY <1>0, <1>1, <2>1
<1>11. CASE RotateCommits \/ RotateUndoes
  <2>1. log' = log /\ edits' = edits /\ rot.at # "none" /\ \E c : RotateEnds(c)
    BY <1>11 DEF RotateCommits, RotateUndoes
  <2>2. req' = req \/ \E h \in Handlers : Closes(h, "rotate")
    BY <2>1, Endings
  <2> QED BY <1>0, <1>1, <2>1, <2>2 DEF Closes
<1>12. CASE Terminate
  <2>1. log' = <<>> /\ Len(log') = 0 /\ \A h \in Handlers : req'[h].pc = "idle"
    BY <1>12, ConstantTypes DEF Terminate
  <2> QED BY <2>1 DEF LogInv
<1>13. CASE RefreshStep \/ UNCHANGED vars
  <2>1. log' = log /\ edits' = edits /\ req' = req
    BY <1>13, RefreshFrame DEF vars
  <2> QED BY <1>0, <1>1, <2>1
<1> QED BY <1>3, <1>4, <1>5, <1>6, <1>7, <1>8, <1>9, <1>10, <1>11, <1>12, <1>13, Steps
        DEF RotateStep, HandlerStep

-----------------------------------------------------------------------------
\* The results.

\* The other parts of the invariant hold at first.
LEMMA InitOthers == Init => StoreInv /\ SettingsInv /\ TokenInv /\ AckInv /\ ForceInv /\ LogInv
<1> SUFFICES ASSUME Init PROVE StoreInv /\ SettingsInv /\ TokenInv /\ AckInv /\ ForceInv /\ LogInv
  OBVIOUS
<1>1. \A h \in Handlers : req[h].pc = "idle"
  BY ConstantTypes DEF Init
<1>2. phase = "down" /\ disk = acked /\ disk = cfg /\ Len(log) = 0
  BY DEF Init
<1> QED BY <1>1, <1>2 DEF StoreInv, SettingsInv, TokenInv, AckInv, ForceInv, LogInv

\* ControlInv is an inductive invariant of the control plane.
THEOREM ControlInvariant == ControlSpec => []ControlInv
<1>1. Init => ControlInv
  BY InitTypeOK, InitLocks, InitOthers DEF ControlInv
<1>2. ControlInv /\ [Next]_vars => ControlInv'
  BY NextTypeOK, NextLocks, NextStore, NextSettings, NextToken, NextAck, NextForce, NextLog DEF ControlInv
<1> QED BY <1>1, <1>2, PTL DEF ControlSpec

\* Every variable has its type, and setOperation never keeps more than LogCap
\* operations.
THEOREM TypeAlwaysCorrect == ControlSpec => []TypeOK
<1>1. ControlInv => TypeOK
  BY DEF ControlInv
<1> QED BY <1>1, ControlInvariant, PTL

\* A running service accepts the token in the token file or has said that it
\* does not, whatever failed or died between the writes of the two files
\* (RotateAdminToken, LoadOrCreate, the roll-back of handleSettings).
THEOREM TokenAlwaysUsable == ControlSpec => []TokenUsable
<1>1. ControlInv => TokenUsable
  BY ConstantTypes DEF ControlInv, TokenInv, TokenUsable, StoreFree
<1> QED BY <1>1, ControlInvariant, PTL

\* When no request is being served, memory and file hold exactly what the
\* answered requests add up to, but for a roll-back whose failure
\* handleSettings dropped.
THEOREM AlwaysAcknowledged == ControlSpec => []Acknowledged
<1>1. ControlInv => Acknowledged
  BY DEF ControlInv, StoreInv, AckInv, Acknowledged
<1> QED BY <1>1, ControlInvariant, PTL

\* When no request is being served, the rules, the access list and the DNS
\* servers in force are the saved ones, but for what startRefreshLoop set
\* from an outdated snapshot.
THEOREM DivergesOnlyByRefresh == ControlSpec => []OnlyRefreshDiverges
<1>1. ASSUME ControlInv PROVE OnlyRefreshDiverges
  <2> SUFFICES ASSUME phase = "up", changeMu = Free, ~swallowed
               PROVE  /\ desired = cfg.rules \/ "rules" \in stale
                      /\ acl.list = cfg.set.list \/ "acl" \in stale
                      /\ servers = cfg.set.dns
    BY DEF OnlyRefreshDiverges
  <2>1. \A h \in Handlers : req[h].pc = "idle"
    BY <1>1, OneAtATime DEF ControlInv
  <2>2. cfg = acked
    BY <1>1 DEF ControlInv, AckInv
  <2> QED BY <1>1, <2>1, <2>2 DEF ControlInv, ForceInv
<1> QED BY <1>1, ControlInvariant, PTL

\* An operation that a client sees as saved or applying is the latest one, and
\* the handler that holds changeMu is at work on it (setOperation,
\* applyRuleOperation).
THEOREM UnfinishedAlwaysLive == ControlSpec => []UnfinishedIsLive
<1>1. ASSUME ControlInv PROVE UnfinishedIsLive
  <2> SUFFICES ASSUME NEW n \in 1..Len(log), log[n].state \in {"saved", "applying"}
               PROVE  /\ n = Len(log)
                      /\ \E h \in Handlers : changeMu = h /\ req[h].id = log[n].id
                                             /\ req[h].pc \in {"saved", "applying", "observe"}
    BY DEF UnfinishedIsLive
  <2>1. n = Len(log) /\ \E h \in Handlers : req[h].pc \in {"saved", "applying", "observe"}
    BY <1>1 DEF ControlInv, LogInv
  <2>2. PICK h \in Handlers : req[h].pc \in {"saved", "applying", "observe"}
    BY <2>1
  <2>3. changeMu = h /\ log[Len(log)].id = req[h].id
    BY <1>1, <2>2 DEF ControlInv, LockInv, LogInv
  <2> QED BY <2>1, <2>2, <2>3
<1> QED BY <1>1, ControlInvariant, PTL

=============================================================================

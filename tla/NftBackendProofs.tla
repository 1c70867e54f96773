--------------------------- MODULE NftBackendProofs ---------------------------
(***************************************************************************)
(* Facts about the nftables backend, alone and inside the Manager, that    *)
(* hold for every set of paths, plans, configurations and faults.          *)
(*                                                                         *)
(* Of the backend: its type invariant; that a revocation never touches the *)
(* connections of a path that is still asked for; and, in every run in     *)
(* which it loses no ownership history (HistoryKept, HistoryTrue), that    *)
(* the kernel never mixes two targets at a point, that success retires     *)
(* what the request drops, and that an error reports it.  Without a failed *)
(* observation, write, transaction or crash the history is never lost.     *)
(*                                                                         *)
(* Of the Manager: its types; that a unit cleaned up after forwards        *)
(* nothing; and, under the same hypotheses, that no Go listener accepts    *)
(* where the kernel still forwards or tracks, and that no row hides what   *)
(* the kernel does.  Where no two paths share a point and nothing once     *)
(* allowed is forbidden, the hypotheses are theorems themselves.           *)
(***************************************************************************)
EXTENDS Manager, TLAPS

-----------------------------------------------------------------------------
\* The algebra of specs stays within Specs.

\* The fields of an nftRuleSpec lie in their sets.
LEMMA SpecFields ==
  ASSUME NEW s \in Specs
  PROVE  s.fam \in Families /\ s.to \in Targets /\ Covers[s.in] \subseteq Points
BY ConstantsOK DEF Specs, Spec

\* The plan asks for well-formed specs.
LEMMA DesiredSpecs ==
  ASSUME plan \in SUBSET Paths, offload \in BOOLEAN
  PROVE  Desired \subseteq Specs
BY DEF Desired, Specs

\* Merging, retiring, gating and retaining specs yields specs.
LEMMA AlgebraSpecs ==
  ASSUME NEW A \in SUBSET Specs, NEW B \in SUBSET Specs
  PROVE  /\ Merge(A, B) \in SUBSET Specs /\ Retired(A, B) \in SUBSET Specs
         /\ Gate(A, B) \in SUBSET Specs /\ PreviouslyAdmitted(A, B) \in SUBSET Specs
BY DEF Merge, Retired, Gate, PreviouslyAdmitted

\* The empty journal, recovery file, call and memory are well typed.
LEMMA EmptyTyped ==
  /\ Empty \in Snapshot /\ NoRecord \in DiskRecords /\ NoCall \in Calls /\ FreshMem \in Memory
<1>1. Empty \in Snapshot
  BY DEF Empty, Snapshot
<1>2. NoRecord \in DiskRecords /\ NoCall \in Calls /\ FreshMem \in Memory
  BY <1>1 DEF NoRecord, DiskRecords, NoCall, Calls, FreshMem, Memory
<1> QED BY <1>1, <1>2

\* A fresh process on a clean host is well typed.
LEMMA InitTypeOK == Init => TypeOK
<1> SUFFICES ASSUME Init PROVE TypeOK
  OBVIOUS
<1>1. KernelType /\ StoreType /\ mem \in Memory
  BY EmptyTyped DEF Init, KernelType, StoreType, NoRecord
<1>2. ControlType
  BY EmptyTyped DEF Init, ControlType, PCs
<1>3. edits \in 0..MaxEdits /\ faults \in 0..MaxFaults
  BY ConstantsOK DEF Init
<1> QED BY <1>1, <1>2, <1>3 DEF TypeOK

-----------------------------------------------------------------------------
\* The parts of the type invariant, one lemma each.

\* No step disturbs the types of the edit and fault counters.
LEMMA BoundsStep ==
  ASSUME TypeOK, [Next]_vars
  PROVE  edits' \in 0..MaxEdits /\ faults' \in 0..MaxFaults
<1>0. edits \in 0..MaxEdits /\ faults \in 0..MaxFaults /\ MaxEdits \in Nat /\ MaxFaults \in Nat
  BY ConstantsOK DEF TypeOK
<1>1. edits' = edits \/ (edits < MaxEdits /\ edits' = edits + 1)
  BY DEF Next, vars, ReconcileStep, Environment, Reconcile, envVars, AlreadyHealthy,
    HealthFails, Replace, BeginCurrentBoot, BeginRollover, BeginFails, RecoverUnchanged,
    RecoverHistory, RecoverUnverified, RecoverFails, Admit, AdmitNothing, AdmitUnreadable,
    ObserveFails, SkipApplied, Prepare, PrepareFails, Apply, ApplyFails, Verify, VerifyFails,
    Checkpoint, CheckpointFails, RevokeNone, RevokeDelete, RevokeRelist, RevokeFails,
    RevokeDone, OpenConn, CloseConn, InstallTool, PolicyChange, FlushRuleset, Crash, Reboot,
    Restart
<1>2. faults' = faults \/ (faults < MaxFaults /\ faults' = faults + 1)
  BY DEF Next, vars, ReconcileStep, Environment, Reconcile, envVars, AlreadyHealthy,
    HealthFails, Replace, BeginCurrentBoot, BeginRollover, BeginFails, RecoverUnchanged,
    RecoverHistory, RecoverUnverified, RecoverFails, Admit, AdmitNothing, AdmitUnreadable,
    ObserveFails, SkipApplied, Prepare, PrepareFails, Apply, ApplyFails, Verify, VerifyFails,
    Checkpoint, CheckpointFails, RevokeNone, RevokeDelete, RevokeRelist, RevokeFails,
    RevokeDone, OpenConn, CloseConn, InstallTool, PolicyChange, FlushRuleset, Crash, Reboot,
    Restart, Fault, NoFault
<1> QED BY <1>0, <1>1, <1>2

\* Every transaction and environment step keeps the kernel state typed.
LEMMA KernelStep ==
  ASSUME TypeOK, [Next]_vars
  PROVE  KernelType'
<1>0. table \in Snapshot /\ conns \subseteq Conns /\ rejected \subseteq Families /\ call.tgt \in Snapshot
  BY DEF TypeOK, KernelType, ControlType, Calls
<1>1. table' \in {table, call.tgt, Empty}
  BY DEF Next, vars, ReconcileStep, Environment, Reconcile, kernelVars, diskVars, envVars,
    AlreadyHealthy, HealthFails, Replace, BeginCurrentBoot, BeginRollover, BeginFails,
    RecoverUnchanged, RecoverHistory, RecoverUnverified, RecoverFails, Admit, AdmitNothing,
    AdmitUnreadable, ObserveFails, SkipApplied, Prepare, PrepareFails, Apply, ApplyFails,
    Verify, VerifyFails, Checkpoint, CheckpointFails, RevokeNone, RevokeDelete, RevokeRelist,
    RevokeFails, RevokeDone, OpenConn, CloseConn, InstallTool, PolicyChange, FlushRuleset,
    Crash, Reboot, Restart
<1>2. RevokeDelete => conns' \subseteq conns
  BY DEF RevokeDelete, Entries
<1>3. ~OpenConn /\ ~RevokeDelete => conns' \subseteq conns
  BY DEF Next, vars, ReconcileStep, Environment, Reconcile, kernelVars, diskVars, envVars,
    AlreadyHealthy, HealthFails, Replace, BeginCurrentBoot, BeginRollover, BeginFails,
    RecoverUnchanged, RecoverHistory, RecoverUnverified, RecoverFails, Admit, AdmitNothing,
    AdmitUnreadable, ObserveFails, SkipApplied, Prepare, PrepareFails, Apply, ApplyFails,
    Verify, VerifyFails, Checkpoint, CheckpointFails, RevokeNone, RevokeRelist,
    RevokeFails, RevokeDone, CloseConn, InstallTool, PolicyChange, FlushRuleset,
    Crash, Reboot, Restart
<1>4. \/ conns' \subseteq conns
      \/ \E s \in table.act : \E p \in Covers[s.in] : conns' = conns \cup {[point |-> p, to |-> s.to]}
  BY <1>2, <1>3 DEF OpenConn
<1>5. rejected' = rejected \/ rejected' \in SUBSET Families
  BY DEF Next, vars, ReconcileStep, Environment, Reconcile, kernelVars, diskVars, envVars,
    AlreadyHealthy, HealthFails, Replace, BeginCurrentBoot, BeginRollover, BeginFails,
    RecoverUnchanged, RecoverHistory, RecoverUnverified, RecoverFails, Admit, AdmitNothing,
    AdmitUnreadable, ObserveFails, SkipApplied, Prepare, PrepareFails, Apply, ApplyFails,
    Verify, VerifyFails, Checkpoint, CheckpointFails, RevokeNone, RevokeDelete, RevokeRelist,
    RevokeFails, RevokeDone, OpenConn, CloseConn, InstallTool, PolicyChange, FlushRuleset,
    Crash, Reboot, Restart
<1>6. conns' \subseteq Conns
  <2> SUFFICES ASSUME NEW s \in table.act, NEW p \in Covers[s.in]
               PROVE  [point |-> p, to |-> s.to] \in Conns
    BY <1>0, <1>4
  <2>1. s \in Specs
    BY <1>0 DEF Snapshot
  <2> QED BY <2>1, SpecFields DEF Conns
<1> QED BY <1>0, <1>1, <1>5, <1>6, EmptyTyped DEF KernelType

\* Every write, archive and crash keeps the recovery files typed.
LEMMA StoreStep ==
  ASSUME TypeOK, [Next]_vars
  PROVE  StoreType'
<1>0. /\ disk \in DiskRecords /\ (disk.boot = "none") = (disk = NoRecord)
      /\ installed \in BOOLEAN /\ archived \in BOOLEAN
      /\ call.tgt \in Snapshot /\ MemSnapshot \in Snapshot
  BY DEF TypeOK, StoreType, ControlType, Calls, Memory, MemSnapshot, Snapshot
<1>1. installed' \in {installed, TRUE, FALSE} /\ archived' \in {archived, TRUE}
  BY DEF Next, vars, ReconcileStep, Environment, Reconcile, kernelVars, diskVars, envVars,
    AlreadyHealthy, HealthFails, Replace, BeginCurrentBoot, BeginRollover, BeginFails,
    RecoverUnchanged, RecoverHistory, RecoverUnverified, RecoverFails, Admit, AdmitNothing,
    AdmitUnreadable, ObserveFails, SkipApplied, Prepare, PrepareFails, Apply, ApplyFails,
    Verify, VerifyFails, Checkpoint, CheckpointFails, RevokeNone, RevokeDelete, RevokeRelist,
    RevokeFails, RevokeDone, OpenConn, CloseConn, InstallTool, PolicyChange, FlushRuleset,
    Crash, Reboot, Restart
<1>2. disk' \in {disk, NoRecord, DiskRecord("prepare", MemSnapshot), DiskRecord("checkpoint", call.tgt),
                 [disk EXCEPT !.boot = IF disk = NoRecord THEN "none" ELSE "previous"]}
  BY DEF Next, vars, ReconcileStep, Environment, Reconcile, kernelVars, diskVars, envVars,
    AlreadyHealthy, HealthFails, Replace, BeginCurrentBoot, BeginRollover, BeginFails,
    RecoverUnchanged, RecoverHistory, RecoverUnverified, RecoverFails, Admit, AdmitNothing,
    AdmitUnreadable, ObserveFails, SkipApplied, Prepare, PrepareFails, Apply, ApplyFails,
    Verify, VerifyFails, Checkpoint, CheckpointFails, RevokeNone, RevokeDelete, RevokeRelist,
    RevokeFails, RevokeDone, OpenConn, CloseConn, InstallTool, PolicyChange, FlushRuleset,
    Crash, Reboot, Restart
<1>3. disk' \in DiskRecords /\ (disk'.boot = "none") = (disk' = NoRecord)
  <2>1. CASE disk' = disk \/ disk' = NoRecord
    BY <1>0, <2>1, EmptyTyped DEF NoRecord
  <2>2. CASE disk' = DiskRecord("prepare", MemSnapshot) \/ disk' = DiskRecord("checkpoint", call.tgt)
    BY <1>0, <2>2 DEF DiskRecord, DiskRecords, NoRecord
  <2>3. CASE disk' = [disk EXCEPT !.boot = IF disk = NoRecord THEN "none" ELSE "previous"]
    BY <1>0, <2>3 DEF DiskRecords, NoRecord
  <2> QED BY <1>2, <2>1, <2>2, <2>3
<1> QED BY <1>0, <1>1, <1>3 DEF StoreType

\* What recoverKernelState and the admission gate compute.
LEMMA ComputedSpecs ==
  ASSUME TypeOK
  PROVE  /\ Desired \in SUBSET Specs /\ Rejection \in SUBSET Families
         /\ Recovered \in Snapshot /\ Pending \in SUBSET Specs
         /\ Admissible \in SUBSET Specs /\ Suspended \in SUBSET Specs
<1>0. /\ mem.act \in SUBSET Specs /\ mem.pen \in SUBSET Specs /\ mem.sus \in SUBSET Specs
      /\ table.act \in SUBSET Specs /\ table.pen \in SUBSET Specs /\ table.sus \in SUBSET Specs
      /\ disk.conf.act \in SUBSET Specs /\ disk.conf.pen \in SUBSET Specs
      /\ disk.conf.sus \in SUBSET Specs
  BY DEF TypeOK, KernelType, StoreType, Memory, DiskRecords, Snapshot
<1>1. Desired \in SUBSET Specs /\ Rejection \in SUBSET Families
  BY DesiredSpecs DEF TypeOK, ControlType, KernelType, Rejection
<1>2. Recovered \in Snapshot
  BY <1>0, AlgebraSpecs DEF Recovered, Snapshot
<1>3. History \in SUBSET Specs
  BY <1>0, AlgebraSpecs DEF History
<1>4. Retired(History, Desired) \in SUBSET Specs
  BY <1>1, <1>3, AlgebraSpecs
<1>5. Pending \in SUBSET Specs
  BY <1>0, <1>4, AlgebraSpecs DEF Pending
<1>6. Suspended \in SUBSET Specs
  BY <1>3, <1>4, AlgebraSpecs DEF Suspended
<1>7. Admissible \in SUBSET Specs
  <2> DEFINE free == {s \in Desired : ~Affects(Rejection, s)}
  <2>1. free \in SUBSET Specs
    BY <1>1
  <2>2. PreviouslyAdmitted(free, mem.act) \in SUBSET Specs
    BY <1>0, <2>1, AlgebraSpecs
  <2> QED BY <2>1, <2>2 DEF Admissible
<1> QED BY <1>1, <1>2, <1>5, <1>6, <1>7

\* Every step keeps the fields of commandNFTBackend typed.
LEMMA MemoryStep ==
  ASSUME TypeOK, [Next]_vars
  PROVE  mem' \in Memory
<1>0. /\ mem \in Memory /\ call \in Calls /\ table \in Snapshot /\ installed \in BOOLEAN
      /\ call.tgt \in Snapshot
  BY DEF TypeOK, ControlType, KernelType, StoreType, Calls
<1>1. CASE mem' = mem
  BY <1>0, <1>1
<1>2. CASE \/ \E P \in Plans : Reconcile(P)
           \/ Replace
  <2>1. mem' = [mem EXCEPT !.tool = mem.tool \/ installed]
    BY <1>2 DEF Reconcile, Replace
  <2> QED BY <1>0, <2>1 DEF Memory
<1>3. CASE HealthFails \/ BeginFails \/ RecoverFails \/ VerifyFails \/ CheckpointFails
  <2>1. mem' \in {[mem EXCEPT !.unknown = TRUE], [mem EXCEPT !.init = FALSE],
                  [mem EXCEPT !.init = FALSE, !.unknown = TRUE]}
    BY <1>3 DEF HealthFails, BeginFails, RecoverFails, VerifyFails, CheckpointFails
  <2> QED BY <1>0, <2>1 DEF Memory
<1>4. Cleared(mem) \in Memory
  BY <1>0, EmptyTyped DEF Cleared, Memory
<1>5. CASE BeginRollover
  BY <1>4, <1>5 DEF BeginRollover, Memory
<1>6. ASSUME NEW unknown \in BOOLEAN, NEW init \in BOOLEAN, Adopt(Recovered, unknown, init)
      PROVE  mem' \in Memory
  <2>1. Recovered \in Snapshot
    BY ComputedSpecs
  <2>2. {s.fam : s \in Recovered.sus} \subseteq Families
    BY <2>1, SpecFields DEF Snapshot
  <2> QED BY <1>0, <1>6, <2>1, <2>2 DEF Adopt, Memory, Snapshot
<1>7. CASE RecoverHistory \/ RecoverUnverified
  <2>1. Adopted(Recovered) \in BOOLEAN
    BY DEF Adopted
  <2> QED BY <1>6, <1>7, <2>1 DEF RecoverHistory, RecoverUnverified
<1>8. CASE Admit \/ AdmitNothing
  <2>1. \E i \in BOOLEAN : mem' \in {[mem EXCEPT !.pen = Pending, !.init = i],
                                    [mem EXCEPT !.init = i]}
    <3>1. (mem.init /\ ~Rebuild) \in BOOLEAN
      OBVIOUS
    <3> QED BY <1>8, <3>1 DEF Admit, AdmitNothing
  <2> QED BY <1>0, <2>1, ComputedSpecs DEF Memory
<1>9. CASE Verify
  <2>1. Confirmed \in Memory
    <3>1. CASE call.tgt = Empty
      BY <1>4, <3>1 DEF Confirmed
    <3>2. CASE call.tgt # Empty
      BY <1>0, <3>2 DEF Confirmed, Memory, Snapshot
    <3> QED BY <3>1, <3>2
  <2> QED BY <1>9, <2>1 DEF Verify
<1>10. CASE SkipApplied \/ Checkpoint
  <2>1. \/ mem' = [mem EXCEPT !.pol = call.adm]
        \/ mem' = [mem EXCEPT !.pol = call.adm, !.pen = {}, !.unknown = call.dep]
    BY <1>10 DEF SkipApplied, Checkpoint, AfterObjects
  <2>2. call.adm \in SUBSET Families /\ call.dep \in BOOLEAN
    BY <1>0 DEF Calls
  <2> QED BY <1>0, <2>1, <2>2 DEF Memory
<1>11. CASE Crash \/ Reboot
  BY <1>11, EmptyTyped DEF Crash, Reboot, Restart
<1> QED
  BY <1>1, <1>2, <1>3, <1>5, <1>7, <1>8, <1>9, <1>10, <1>11
  DEF Next, vars, ReconcileStep, Environment, AlreadyHealthy, BeginCurrentBoot,
    RecoverUnchanged, AdmitUnreadable, ObserveFails, Prepare, PrepareFails, Apply, ApplyFails,
    RevokeNone, RevokeDelete, RevokeRelist, RevokeFails, RevokeDone, OpenConn, CloseConn,
    InstallTool, PolicyChange, FlushRuleset

\* A return of Replace ends the call; its result is one of the known ones.
LEMMA ReturnControl ==
  ASSUME TypeOK, NEW result \in {"ok", "suspended", "dep", "err", "unread"}, Return(result)
  PROVE  ControlType'
<1>1. Desired \in SUBSET Specs
  BY ComputedSpecs
<1> QED BY <1>1, EmptyTyped DEF Return, TypeOK, ControlType, PCs

\* Moving on inside a call keeps the control state typed.
LEMMA GotoControl ==
  ASSUME TypeOK, NEW label \in PCs, Goto(label), call' \in Calls,
         label \in {"idle", "health", "begin", "recover", "admit"} => call' = NoCall
  PROVE  ControlType'
BY DEF Goto, TypeOK, ControlType

\* The locals of Replace exist only while it runs.
LEMMA ControlStep ==
  ASSUME TypeOK, [Next]_vars
  PROVE  ControlType'
<1>0. ControlType /\ call \in Calls /\ call.tgt \in Snapshot
      /\ (pc \in {"idle", "health", "begin", "recover", "admit"} => call = NoCall)
  BY DEF TypeOK, ControlType, Calls
<1>1. CASE UNCHANGED <<pc, call, plan, offload, done, outcome>>
  BY <1>0, <1>1 DEF ControlType
<1>2. ASSUME NEW P \in Plans, Reconcile(P) PROVE ControlType'
  BY <1>0, <1>2, ConstantsOK DEF Reconcile, ControlType, PCs
<1>3. CASE HealthFails
  BY <1>0, <1>3 DEF HealthFails, ControlType, PCs
<1>4. CASE \/ AlreadyHealthy \/ BeginFails \/ RecoverFails \/ AdmitNothing \/ AdmitUnreadable
           \/ ObserveFails \/ ApplyFails \/ VerifyFails \/ CheckpointFails \/ RevokeFails
  <2>1. Return("ok") \/ Return("err") \/ Return("unread")
    BY <1>4 DEF AlreadyHealthy, BeginFails, RecoverFails, AdmitNothing, AdmitUnreadable,
      ObserveFails, ApplyFails, VerifyFails, CheckpointFails, RevokeFails
  <2> QED BY <2>1, ReturnControl
<1>5. CASE \/ Replace \/ BeginCurrentBoot \/ BeginRollover \/ RecoverUnchanged \/ RecoverHistory
           \/ RecoverUnverified
  <2>1. call' = call /\ call = NoCall /\ (Goto("begin") \/ Goto("recover") \/ Goto("admit"))
    BY <1>0, <1>5 DEF Replace, BeginCurrentBoot, BeginRollover, RecoverUnchanged, RecoverHistory,
      RecoverUnverified
  <2> QED BY <1>0, <2>1, GotoControl DEF PCs
<1>6. CASE Admit
  <2>1. /\ Admissible \in SUBSET Specs /\ Pending \in SUBSET Specs /\ Suspended \in SUBSET Specs
        /\ Rejection \in SUBSET Families /\ mem.pen \in SUBSET Specs /\ mem.tool \in BOOLEAN
    BY ComputedSpecs DEF TypeOK, Memory
  <2> DEFINE c == [NoCall EXCEPT !.next = Admissible, !.pend = Pending,
                                 !.sus = Suspended, !.dep = ~mem.tool, !.adm = Rejection]
  <2>2. /\ c \in Calls
        /\ c.next = Admissible /\ c.pend = Pending /\ c.sus = Suspended
    BY <2>1, EmptyTyped DEF Calls, NoCall
  <2> HIDE DEF c
  <2>3. StageTarget(c) \in Snapshot /\ FinalTarget(c) \in Snapshot
    BY <2>1, <2>2, AlgebraSpecs DEF StageTarget, FinalTarget, Snapshot
  <2>4. call' = [c EXCEPT !.round = IF c.pend # {} THEN "stage" ELSE "final",
                          !.tgt = IF c.pend # {} THEN StageTarget(c) ELSE FinalTarget(c)]
    BY <1>6 DEF Admit, c
  <2>5. call' \in Calls
    BY <2>2, <2>3, <2>4 DEF Calls
  <2> QED BY <1>6, <2>5, GotoControl DEF Admit, PCs
<1>7. CASE SkipApplied \/ Checkpoint
  <2>1. PICK m : AfterObjects(m)
    BY <1>7 DEF SkipApplied, Checkpoint
  <2>2. CASE call' = [call EXCEPT !.todo = call.pend] /\ Goto("revoke")
    <3>1. call' \in Calls
      BY <1>0, <2>2 DEF Calls
    <3> QED BY <2>2, <3>1, GotoControl DEF PCs
  <2>3. CASE Return("ok") \/ Return("dep") \/ Return("suspended")
    BY <2>3, ReturnControl
  <2> QED BY <2>1, <2>2, <2>3 DEF AfterObjects
<1>8. CASE Prepare \/ PrepareFails
  <2>1. Withdrawal \in Snapshot
    <3>1. /\ call.tgt.act \in SUBSET Specs /\ call.tgt.pen \in SUBSET Specs
          /\ call.tgt.sus \in SUBSET Specs /\ mem.act \in SUBSET Specs /\ mem.pen \in SUBSET Specs
      BY <1>0 DEF Snapshot, TypeOK, Memory
    <3> DEFINE act == PreviouslyAdmitted(call.tgt.act, mem.act)
               pen == Merge(Merge(mem.pen, call.tgt.pen), Retired(mem.act, act))
    <3>2. act \in SUBSET Specs
      BY <3>1, AlgebraSpecs
    <3>3. Retired(mem.act, act) \in SUBSET Specs /\ Merge(mem.pen, call.tgt.pen) \in SUBSET Specs
      BY <3>1, <3>2, AlgebraSpecs
    <3>4. pen \in SUBSET Specs
      BY <3>3, AlgebraSpecs
    <3>5. Gate(call.tgt.sus, pen) \in SUBSET Specs
      BY <3>1, <3>4, AlgebraSpecs
    <3> QED BY <3>2, <3>4, <3>5 DEF Withdrawal, Snapshot
  <2>2. CASE Goto("apply") /\ call' = [call EXCEPT !.perr = FALSE, !.seen = table # Empty]
    <3>1. call' \in Calls
      BY <1>0, <2>2 DEF Calls
    <3> QED BY <2>2, <3>1, GotoControl DEF PCs
  <2>3. CASE Goto("apply") /\ call' = [call EXCEPT !.perr = TRUE, !.seen = table # Empty,
                                                   !.tgt = Withdrawal]
    <3>1. call' \in Calls
      BY <1>0, <2>1, <2>3 DEF Calls
    <3> QED BY <2>3, <3>1, GotoControl DEF PCs
  <2>4. CASE Return("err")
    BY <2>4, ReturnControl
  <2> QED BY <1>8, <2>2, <2>3, <2>4 DEF Prepare, PrepareFails
<1>9. CASE Apply \/ RevokeDelete
  BY <1>0, <1>9, GotoControl DEF Apply, RevokeDelete, PCs
<1>10. CASE Verify
  BY <1>0, <1>10, GotoControl, ReturnControl DEF Verify, PCs
<1>11. CASE RevokeNone \/ RevokeRelist
  <2>1. Goto("revoke") /\ call' = [call EXCEPT !.todo = @ \ {Current}]
    BY <1>11 DEF RevokeNone, RevokeRelist
  <2>2. call' \in Calls
    BY <1>0, <2>1 DEF Calls
  <2> QED BY <2>1, <2>2, GotoControl DEF PCs
<1>12. CASE RevokeDone
  <2>1. FinalTarget(call) \in Snapshot
    BY <1>0 DEF FinalTarget, Snapshot, Calls
  <2>2. call' \in Calls
    BY <1>0, <1>12, <2>1 DEF RevokeDone, Calls
  <2> QED BY <1>12, <2>2, GotoControl DEF RevokeDone, PCs
<1>13. CASE Crash \/ Reboot
  BY <1>0, <1>13, EmptyTyped DEF Crash, Reboot, Restart, ControlType, PCs
<1> QED
  BY <1>1, <1>2, <1>3, <1>4, <1>5, <1>6, <1>7, <1>8, <1>9, <1>10, <1>11, <1>12, <1>13
  DEF Next, vars, ReconcileStep, Environment, OpenConn, CloseConn, InstallTool, PolicyChange,
    FlushRuleset

\* The backend, its kernel and its recovery file keep their types, and the
\* locals of Replace exist only while it runs.
THEOREM TypeAlwaysCorrect == BackendSpec => []TypeOK
<1>1. TypeOK /\ [Next]_vars => TypeOK'
  BY KernelStep, StoreStep, MemoryStep, ControlStep, BoundsStep DEF TypeOK
<1> QED BY InitTypeOK, <1>1, PTL DEF BackendSpec

-----------------------------------------------------------------------------
\* Revocation.  A delete command is aimed at the pending list of its call, and
\* whatever a step adds to what awaits retirement comes from what did before,
\* from the difference that Admit takes before the policy and tool gates, or
\* from a withdrawal.

TodoPending == call.todo \subseteq call.pend

\* Every step keeps the work of a revocation inside the call's pending list.
LEMMA TodoStep ==
  ASSUME TypeOK, TodoPending, [Next]_vars
  PROVE  TodoPending'
<1>0. call \in Calls /\ NoCall.todo \subseteq NoCall.pend
  BY DEF TypeOK, ControlType, NoCall
<1>1. CASE call' = NoCall \/ call' = call
  BY <1>0, <1>1 DEF TodoPending
<1>2. CASE Admit
  <2>1. call'.todo = {}
    BY <1>2 DEF Admit, NoCall
  <2> QED BY <2>1 DEF TodoPending
<1>3. CASE \/ SkipApplied \/ Checkpoint \/ Prepare \/ PrepareFails \/ RevokeNone \/ RevokeRelist
           \/ RevokeDone
  <2>1. ASSUME call'.pend = call.pend, call'.todo \subseteq call.todo \/ call'.todo = call.pend
        PROVE  TodoPending'
    BY <2>1 DEF TodoPending
  <2>2. CASE call' = [call EXCEPT !.todo = call.pend]
    BY <1>0, <2>1, <2>2 DEF Calls
  <2>3. CASE call' = [call EXCEPT !.todo = @ \ {Current}]
    BY <1>0, <2>1, <2>3 DEF Calls
  <2>4. CASE call' = [call EXCEPT !.perr = FALSE, !.seen = table # Empty]
    BY <1>0, <2>1, <2>4 DEF Calls
  <2>5. CASE call' = [call EXCEPT !.perr = TRUE, !.seen = table # Empty, !.tgt = Withdrawal]
    BY <1>0, <2>1, <2>5 DEF Calls
  <2>6. CASE call' = [call EXCEPT !.round = "final", !.tgt = FinalTarget(call)]
    BY <1>0, <2>1, <2>6 DEF Calls
  <2> QED
    BY <1>1, <1>3, <2>2, <2>3, <2>4, <2>5, <2>6
    DEF SkipApplied, Checkpoint, AfterObjects, Prepare, PrepareFails, RevokeNone,
      RevokeRelist, RevokeDone, Return
<1> QED
  BY <1>1, <1>2, <1>3
  DEF Next, vars, Reconcile, ReconcileStep, Environment, AlreadyHealthy, HealthFails, Replace,
    BeginCurrentBoot, BeginRollover, BeginFails, RecoverUnchanged, RecoverHistory,
    RecoverUnverified, RecoverFails, AdmitNothing, AdmitUnreadable, ObserveFails, Apply,
    ApplyFails, Verify, VerifyFails, CheckpointFails, RevokeDelete, RevokeFails, OpenConn,
    CloseConn, InstallTool, PolicyChange, FlushRuleset, Crash, Reboot, Restart, Goto, Return

\* revokeNFTConnections points the delete command at the pending list only.
LEMMA RevokesPending ==
  ASSUME TodoPending, Next, pc = "revoke", pc' = "relist", NEW c \in conns, c \notin conns'
  PROVE  \E p \in call.pend : Matches(c, p)
<1>1. RevokeDelete
  <2>1. ASSUME NEW P \in Plans, Reconcile(P) PROVE FALSE
    BY <2>1 DEF Reconcile
  <2>2. ReconcileStep => RevokeNone \/ RevokeDelete \/ RevokeFails \/ RevokeDone
    BY DEF ReconcileStep, AlreadyHealthy, HealthFails, Replace, BeginCurrentBoot,
      BeginRollover, BeginFails, RecoverUnchanged, RecoverHistory, RecoverUnverified,
      RecoverFails, Admit, AdmitNothing, AdmitUnreadable, ObserveFails, SkipApplied, Prepare,
      PrepareFails, Apply, ApplyFails, Verify, VerifyFails, Checkpoint, CheckpointFails,
      RevokeRelist
  <2>3. Environment => pc' \in {pc, "idle"}
    BY DEF Environment, OpenConn, CloseConn, InstallTool, PolicyChange, FlushRuleset, Crash,
      Reboot, Restart
  <2>4. RevokeNone \/ RevokeFails \/ RevokeDone => pc' # "relist"
    BY DEF RevokeNone, RevokeFails, RevokeDone, Goto, Return
  <2> QED BY <2>1, <2>2, <2>3, <2>4 DEF Next
<1>2. Current \in call.todo /\ c \in Entries(Current)
  BY <1>1 DEF RevokeDelete, Current
<1> QED BY <1>2 DEF TodoPending, Entries

\* What a step leaves awaiting retirement was awaiting it in the same place, in
\* another one, or not at all.
Moved ==
  /\ mem'.pen \subseteq Awaiting /\ table'.pen \subseteq Awaiting
  /\ disk'.conf.pen \subseteq Awaiting
  /\ call'.pend \subseteq Awaiting /\ call'.tgt.pen \subseteq Awaiting

LEMMA MovedKeeps == Moved => \A p \in Awaiting' : \E q \in Awaiting : SameTuple(p, q)
<1> SUFFICES ASSUME Moved, NEW p \in Awaiting' PROVE \E q \in Awaiting : SameTuple(p, q)
  OBVIOUS
<1>1. p \in Awaiting
  BY DEF Moved, Awaiting
<1> QED BY <1>1 DEF SameTuple

\* Nothing but the admission gate and a withdrawal adds to it.
LEMMA AwaitingStep ==
  ASSUME TypeOK, [Next]_vars, ~Admit, ~WithdrawsUnrecorded
  PROVE  Moved
<1>0. /\ call \in Calls /\ mem \in Memory /\ disk \in DiskRecords /\ table \in Snapshot
      /\ NoCall.pend = {} /\ NoCall.tgt.pen = {} /\ Empty.pen = {} /\ NoRecord.conf.pen = {}
      /\ FreshMem.pen = {} /\ MemSnapshot.pen = mem.pen
  BY DEF TypeOK, ControlType, KernelType, StoreType, NoCall, Empty, NoRecord, FreshMem, MemSnapshot
<1>1. /\ mem.pen \subseteq Awaiting /\ table.pen \subseteq Awaiting
      /\ disk.conf.pen \subseteq Awaiting
      /\ call.pend \subseteq Awaiting /\ call.tgt.pen \subseteq Awaiting
  BY DEF Awaiting
<1>2. \A m : Cleared(m) = [m EXCEPT !.init = FALSE, !.act = {}, !.pen = {}, !.sus = {}, !.applied = Empty]
  BY DEF Cleared
<1>3. CASE UNCHANGED <<table, disk, call>> /\ mem'.pen = mem.pen
  BY <1>1, <1>3 DEF Moved
<1>4. CASE call' = NoCall /\ mem'.pen \subseteq Awaiting /\ table'.pen \subseteq Awaiting
           /\ disk'.conf.pen \subseteq Awaiting
  BY <1>0, <1>4 DEF Moved
<1>5. CASE \/ \E P \in Plans : Reconcile(P)
           \/ Replace \/ BeginCurrentBoot \/ RecoverUnchanged \/ OpenConn \/ CloseConn
           \/ InstallTool \/ PolicyChange \/ UNCHANGED vars \/ RevokeDelete
  BY <1>0, <1>3, <1>5
  DEF Reconcile, Replace, BeginCurrentBoot, RecoverUnchanged, OpenConn, CloseConn, InstallTool,
    PolicyChange, RevokeDelete, vars, kernelVars, diskVars, Memory
<1>6. CASE AlreadyHealthy \/ HealthFails \/ BeginFails \/ RecoverFails \/ AdmitNothing
           \/ AdmitUnreadable \/ ObserveFails \/ VerifyFails \/ RevokeFails
  <2>1. call = NoCall \/ call' = NoCall
    BY <1>6 DEF AlreadyHealthy, HealthFails, BeginFails, RecoverFails, AdmitNothing,
      AdmitUnreadable, ObserveFails, VerifyFails, RevokeFails, Return, TypeOK, ControlType
  <2>2. call' = NoCall
    BY <1>6, <2>1 DEF AlreadyHealthy, HealthFails, BeginFails, RecoverFails, AdmitNothing,
      AdmitUnreadable, ObserveFails, VerifyFails, RevokeFails, Return
  <2>3. mem'.pen = mem.pen /\ table' = table /\ (disk' = disk \/ disk' = NoRecord)
    BY <1>0, <1>6 DEF AlreadyHealthy, HealthFails, BeginFails, RecoverFails, AdmitNothing,
      AdmitUnreadable, ObserveFails, VerifyFails, RevokeFails, kernelVars, diskVars, Memory
  <2> QED BY <1>0, <1>1, <1>4, <2>2, <2>3
<1>7. CASE BeginRollover \/ FlushRuleset \/ Crash \/ Reboot
  <2>1. mem'.pen \subseteq Awaiting
    BY <1>0, <1>1, <1>7 DEF BeginRollover, FlushRuleset, Crash, Reboot, Restart, Cleared, Memory
  <2>2. table'.pen \subseteq Awaiting
    BY <1>0, <1>1, <1>7 DEF BeginRollover, FlushRuleset, Crash, Reboot, kernelVars
  <2>3. disk'.conf.pen \subseteq Awaiting
    BY <1>0, <1>1, <1>7 DEF BeginRollover, FlushRuleset, Crash, Reboot, diskVars, DiskRecords
  <2>4. call' = call \/ call' = NoCall
    BY <1>7 DEF BeginRollover, FlushRuleset, Crash, Reboot, Restart
  <2> QED BY <1>0, <1>1, <2>1, <2>2, <2>3, <2>4 DEF Moved
<1>8. CASE RecoverHistory \/ RecoverUnverified
  <2>1. UNCHANGED <<table, disk, call>> /\ mem'.pen = Recovered.pen
    BY <1>0, <1>8 DEF RecoverHistory, RecoverUnverified, Adopt, kernelVars, diskVars, Memory
  <2>2. Recovered.pen \subseteq Awaiting
    BY DEF Recovered, Merge, Awaiting
  <2> QED BY <1>1, <2>1, <2>2 DEF Moved
<1>9. CASE Prepare \/ PrepareFails
  <2>1. mem' = mem /\ table' = table
    BY <1>9 DEF Prepare, PrepareFails, kernelVars
  <2>2. disk' \in {disk, DiskRecord("prepare", MemSnapshot)}
    BY <1>9 DEF Prepare, PrepareFails
  <2>3. disk'.conf.pen \subseteq Awaiting
    BY <1>0, <1>1, <2>2 DEF DiskRecord
  <2>4. call' = NoCall \/ call' = [call EXCEPT !.perr = FALSE, !.seen = table # Empty]
    BY <1>0, <1>9 DEF Prepare, PrepareFails, Return, Goto, WithdrawsUnrecorded, Calls
  <2>5. call'.pend \subseteq Awaiting /\ call'.tgt.pen \subseteq Awaiting
    BY <1>0, <1>1, <2>4 DEF Calls
  <2> QED BY <1>1, <2>1, <2>3, <2>5 DEF Moved
<1>10. CASE Apply \/ ApplyFails
  <2>1. mem' = mem /\ disk' = disk /\ (table' = table \/ table' = call.tgt)
    BY <1>10 DEF Apply, ApplyFails, diskVars
  <2>2. call' = call \/ call' = NoCall
    BY <1>10 DEF Apply, ApplyFails, Return
  <2> QED BY <1>0, <1>1, <2>1, <2>2 DEF Moved
<1>11. CASE Verify
  <2>1. mem'.pen \subseteq Awaiting
    <3>1. mem' = Confirmed
      BY <1>11 DEF Verify
    <3>2. CASE call.tgt = Empty
      BY <1>0, <3>1, <3>2 DEF Confirmed, Cleared, Memory
    <3>3. CASE call.tgt # Empty
      BY <1>0, <1>1, <3>1, <3>3 DEF Confirmed, Memory
    <3> QED BY <3>2, <3>3
  <2>2. UNCHANGED <<table, disk>> /\ (call' = call \/ call' = NoCall)
    BY <1>11 DEF Verify, kernelVars, diskVars, Return
  <2> QED BY <1>0, <1>1, <2>1, <2>2 DEF Moved
<1>12. CASE SkipApplied \/ Checkpoint
  <2>1. table' = table /\ (disk' = disk \/ disk' = DiskRecord("checkpoint", call.tgt)) /\ AfterObjects(mem)
    BY <1>12 DEF SkipApplied, Checkpoint, kernelVars, diskVars
  <2>2. disk'.conf.pen \subseteq Awaiting
    BY <1>1, <2>1 DEF DiskRecord
  <2>3. mem'.pen \subseteq Awaiting
    BY <1>0, <1>1, <2>1 DEF AfterObjects, Memory
  <2>4. call' = NoCall \/ call' = [call EXCEPT !.todo = call.pend]
    BY <2>1 DEF AfterObjects, Return
  <2>5. call'.pend \subseteq Awaiting /\ call'.tgt.pen \subseteq Awaiting
    BY <1>0, <1>1, <2>4 DEF Calls
  <2> QED BY <1>1, <2>1, <2>2, <2>3, <2>5 DEF Moved
<1>13. CASE CheckpointFails
  <2>1. /\ table' = table /\ (disk' = disk \/ disk' = DiskRecord("checkpoint", call.tgt))
        /\ mem'.pen = mem.pen /\ call' = NoCall
    BY <1>0, <1>13 DEF CheckpointFails, kernelVars, Return, Memory
  <2> QED BY <1>1, <1>4, <2>1 DEF DiskRecord
<1>14. CASE RevokeNone \/ RevokeRelist \/ RevokeDone
  <2>1. UNCHANGED <<table, disk, mem>>
    BY <1>14 DEF RevokeNone, RevokeRelist, RevokeDone, kernelVars, diskVars
  <2>2. call'.pend = call.pend /\ (call'.tgt = call.tgt \/ call'.tgt = FinalTarget(call))
    BY <1>0, <1>14 DEF RevokeNone, RevokeRelist, RevokeDone, Calls
  <2> QED BY <1>1, <2>1, <2>2 DEF Moved, FinalTarget
<1> QED
  BY <1>5, <1>6, <1>7, <1>8, <1>9, <1>10, <1>11, <1>12, <1>13, <1>14
  DEF Next, ReconcileStep, Environment

\* The gate adds what the request drops, and nothing else.
LEMMA AdmitAwaits ==
  ASSUME TypeOK, Admit, NEW p \in Awaiting'
  PROVE  (\E q \in Awaiting : SameTuple(p, q)) \/ p \in Retired({p}, Desired)
<1>0. mem \in Memory
  BY DEF TypeOK
<1>1. /\ table' = table /\ disk' = disk /\ mem'.pen = Pending
      /\ call'.pend = Pending /\ call'.tgt.pen \subseteq Pending
  BY <1>0 DEF Admit, kernelVars, diskVars, Memory, NoCall, StageTarget, FinalTarget
<1>2. \A q \in Pending : q \in Awaiting \/ q \in Retired({q}, Desired)
  BY DEF Pending, Merge, Retired, Awaiting
<1>3. p \in Awaiting \/ p \in Pending
  BY <1>1 DEF Awaiting
<1> QED BY <1>2, <1>3 DEF SameTuple

\* For every set of paths and any number of edits and faults: a revocation
\* deletes connections of paths awaiting retirement only, and a path begins to
\* await it because the request drops it or because Replace withdraws it when
\* it cannot write its intent, never by a policy, a crash or a recovery.
THEOREM RevocationJustified == BackendSpec => RevokesOnlyRetired
<1> DEFINE Step ==
      /\ pc = "revoke" /\ pc' = "relist" =>
           \A c \in conns \ conns' : \E p \in call.pend : Matches(c, p)
      /\ \A p \in Awaiting' : \/ \E q \in Awaiting : SameTuple(p, q)
                             \/ p \in Retired({p}, Desired)
                             \/ WithdrawsUnrecorded
<1>1. Init => TodoPending
  BY DEF Init, TodoPending, NoCall
<1>2. TypeOK /\ TodoPending /\ [Next]_vars => [Step]_vars
  <2> SUFFICES ASSUME TypeOK, TodoPending, Next PROVE Step
    OBVIOUS
  <2>1. ASSUME pc = "revoke", pc' = "relist", NEW c \in conns \ conns'
        PROVE  \E p \in call.pend : Matches(c, p)
    BY <2>1, RevokesPending
  <2>2. ASSUME NEW p \in Awaiting', ~WithdrawsUnrecorded
        PROVE  (\E q \in Awaiting : SameTuple(p, q)) \/ p \in Retired({p}, Desired)
    BY <2>2, AdmitAwaits, AwaitingStep, MovedKeeps
  <2> QED BY <2>1, <2>2
<1>3. TypeOK /\ TodoPending /\ [Next]_vars => TodoPending'
  BY TodoStep
<1> QED
  BY <1>1, <1>2, <1>3, TypeAlwaysCorrect, PTL DEF BackendSpec, RevokesOnlyRetired

-----------------------------------------------------------------------------
\* Retirement.  The next three theorems say that no connection is lost sight
\* of, from two hypotheses on the ownership history of the backend.  They name
\* exactly where the code may lose it: a target whose transaction would drop a
\* record that memory still holds, and a history adopted without the tool.

\* Every spec of S has its tuple in T; every entry of C belongs to a spec of T.
Recorded(S, T) == \A s \in S : \E q \in T : SameTuple(q, s)
Accounted(C, T) == \A c \in C : \E q \in T : Matches(c, q)
Unmatched(C, T) == \A q \in T : \A c \in C : ~Matches(c, q)

\* Two specs share an ingress point.
Touch(s, t) == Covers[s.in] \cap Covers[t.in] # {}
Agree(S, T) == \A s \in S : \A t \in T : Touch(s, t) => s.to = t.to
Apart(S, T) == \A s \in S : \A t \in T : ~Touch(s, t)

\* No entry of C leads from an ingress of S to a target of another path.
Uncrossed(C, S) == \A s \in S : \A c \in C : c.point \in Covers[s.in] => c.to = s.to

\* The specs of S that can have connections are still asked for by D.
Wanted(S, D) == \A s \in S : Covers[s.in] = {} \/ \E d \in D : SameTuple(d, s)

\* Every path memory knows of, whatever its role.
Known == mem.act \cup mem.pen \cup mem.sus

\* Hypothesis: a transaction never drops the record of a path that memory
\* knows as active or suspended.  Broken by what nft.go:255-272 and a
\* transaction of unknown outcome (nft.go:306) leave behind.
HistoryKept ==
  pc \in {"prepare", "apply"} => Recorded(mem.act \cup mem.sus, All(call.tgt))

\* Hypothesis: a history adopted while the conntrack tool is missing, which
\* nothing can verify, accounts for the tracked connections.
HistoryTrue == pc = "admit" /\ ~mem.tool => Accounted(conns, Known)

-----------------------------------------------------------------------------
\* The algebra of records.

\* Being recorded is reflexive, transitive and additive.
LEMMA Recording ==
  ASSUME NEW S, NEW T, NEW U
  PROVE  /\ S \subseteq T => Recorded(S, T)
         /\ Recorded(S, T) /\ Recorded(T, U) => Recorded(S, U)
         /\ Recorded(S, U) /\ Recorded(T, U) => Recorded(S \cup T, U)
         /\ Recorded(S, T) /\ T \subseteq U => Recorded(S, U)
         /\ S \subseteq T /\ Recorded(T, U) => Recorded(S, U)
BY DEF Recorded, SameTuple

\* Entries stay accounted for when fewer are tracked or more is recorded.
LEMMA Accounting ==
  ASSUME NEW C, NEW D, NEW S, NEW T
  PROVE  /\ D \subseteq C /\ Accounted(C, S) => Accounted(D, S)
         /\ Accounted(C, S) /\ Recorded(S, T) => Accounted(C, T)
         /\ Accounted(C, S) /\ S \subseteq T => Accounted(C, T)
         /\ D \subseteq C /\ Uncrossed(C, S) => Uncrossed(D, S)
         /\ S \subseteq T /\ Uncrossed(C, T) => Uncrossed(C, S)
         /\ D \subseteq C /\ Unmatched(C, S) => Unmatched(D, S)
<1>1. D \subseteq C /\ Accounted(C, S) => Accounted(D, S)
  BY DEF Accounted
<1>2. Accounted(C, S) /\ Recorded(S, T) => Accounted(C, T)
  BY DEF Accounted, Recorded, SameTuple, Matches
<1>3. Accounted(C, S) /\ S \subseteq T => Accounted(C, T)
  BY DEF Accounted
<1>4. /\ D \subseteq C /\ Uncrossed(C, S) => Uncrossed(D, S)
      /\ S \subseteq T /\ Uncrossed(C, T) => Uncrossed(C, S)
      /\ D \subseteq C /\ Unmatched(C, S) => Unmatched(D, S)
  BY DEF Uncrossed, Unmatched
<1> QED BY <1>1, <1>2, <1>3, <1>4

\* A path in agreement with everything recorded crosses no tracked entry.
LEMMA Agreement ==
  ASSUME NEW A, NEW B, NEW C, NEW S, NEW T
  PROVE  /\ Agree(A, T) /\ Recorded(S, T) => Agree(A, S)
         /\ Agree(A, T) /\ Accounted(C, T) => Uncrossed(C, A)
         /\ B \subseteq A /\ Agree(A, T) => Agree(B, T)
         /\ B \subseteq A /\ Apart(A, T) => Apart(B, T)
<1>1. Agree(A, T) /\ Recorded(S, T) => Agree(A, S)
  BY DEF Agree, Recorded, SameTuple, Touch
<1>2. Agree(A, T) /\ Accounted(C, T) => Uncrossed(C, A)
  BY DEF Agree, Accounted, Uncrossed, Matches, Touch
<1>3. /\ B \subseteq A /\ Agree(A, T) => Agree(B, T)
      /\ B \subseteq A /\ Apart(A, T) => Apart(B, T)
  BY DEF Agree, Apart
<1> QED BY <1>1, <1>2, <1>3

\* uniqueNFTSpecs keeps a record of every tuple of both groups.
LEMMA Merging ==
  ASSUME NEW A, NEW B
  PROVE  /\ Recorded(A, Merge(A, B)) /\ Recorded(B, Merge(A, B))
         /\ B \subseteq Merge(A, B) /\ Merge(A, B) \subseteq A \cup B
BY DEF Recorded, Merge, SameTuple

\* The paths a target admits agree with everything it keeps a record of: what
\* it admits or suspends is asked for, what it retires touches none of them.
LEMMA TargetAgrees ==
  ASSUME NEW A, NEW P, NEW S, NEW D,
         Agree(D, D), A \subseteq D, Wanted(S, D), Apart(A, P)
  PROVE  Agree(A, A \cup P \cup S)
<1> SUFFICES ASSUME NEW a \in A, NEW t \in A \cup P \cup S, Touch(a, t)
             PROVE  a.to = t.to
  BY DEF Agree
<1>1. CASE t \in A
  BY <1>1 DEF Agree
<1>2. CASE t \in P
  BY <1>2 DEF Apart
<1>3. CASE t \in S
  <2>1. Covers[t.in] # {}
    BY DEF Touch
  <2>2. PICK d \in D : SameTuple(d, t)
    BY <1>3, <2>1 DEF Wanted
  <2> QED BY <2>2 DEF Agree, SameTuple, Touch
<1> QED BY <1>1, <1>2, <1>3

\* Entries of paths that are all wanted belong to the request.
LEMMA WantedAccounts ==
  ASSUME NEW C, NEW A, NEW S, NEW D,
         A \subseteq D, Wanted(S, D), Accounted(C, A \cup S)
  PROVE  Accounted(C, D)
BY DEF Accounted, Wanted, Matches, SameTuple

-----------------------------------------------------------------------------
\* The inductive invariant, one part for every stretch of Replace.

\* The request does not listen twice at one point.
PlanInv == \A p, q \in plan : Covers[p.in] \cap Covers[q.in] # {} => p = q

\* The kernel's rules agree with each other and with the tracked entries.
TableInv == Agree(table.act, table.act) /\ Uncrossed(conns, table.act)

\* n.appliedFingerprint belongs to the active set in memory.
MemInv == mem.init => mem.applied # Empty /\ mem.applied.act = mem.act

\* A table that is still the applied one hides no connection from memory.
IdleInv ==
  pc \in {"idle", "health", "begin", "recover"} /\ mem.init /\ mem.recovered /\ table = mem.applied
    => Accounted(conns, Known)

\* Recovery has brought every rule and every entry into the history.
Covered == Accounted(conns, Known) /\ Recorded(table.act, Known)
AdmitInv == pc = "admit" => Covered

InCall == pc \in {"prepare", "apply", "verify", "checkpoint", "revoke", "relist"}

\* The target of a call admits and suspends only what is asked for, and a
\* staging target nothing that touches a path it retires.
CallInv ==
  InCall =>
    /\ call.next \subseteq Desired /\ Wanted(call.sus, Desired)
    /\ call.tgt.act \subseteq Desired /\ Wanted(call.tgt.sus, Desired)
    /\ pc \notin {"apply", "verify"} => ~call.perr
    /\ ~call.perr => call.tgt.pen = IF call.round = "stage" THEN call.pend ELSE {}
    /\ call.round = "stage" => Apart(call.tgt.act, call.pend)

\* What the running call has to account for: memory's admitted and suspended
\* paths, and those its target retires.
Owned == mem.act \cup mem.sus \cup call.tgt.pen

\* Until the transaction, the target crosses neither a rule nor an entry.
PrepareInv ==
  pc \in {"prepare", "apply"} =>
    /\ Accounted(conns, Owned) /\ Recorded(table.act, Owned) /\ call.tgt.pen \subseteq Known
    /\ Agree(call.tgt.act, table.act) /\ Uncrossed(conns, call.tgt.act)
    /\ Recorded(mem.act, Desired \cup mem.pen) /\ mem.pen = call.pend

\* After it, target and memory each account for every entry.
VerifyInv ==
  pc = "verify" =>
    /\ Accounted(conns, All(call.tgt)) /\ Accounted(conns, Known \cup call.tgt.act)
    /\ table.act \subseteq call.tgt.act

CheckInv ==
  pc = "checkpoint" =>
    /\ Accounted(conns, Known) /\ table.act \subseteq mem.act
    /\ mem.act = call.tgt.act /\ mem.pen = call.tgt.pen /\ mem.sus = call.tgt.sus

\* A spec that revocation has finished with has no entry left.
RevokeInv ==
  pc \in {"revoke", "relist"} =>
    /\ Accounted(conns, Known) /\ table.act \subseteq mem.act
    /\ mem.act = call.tgt.act /\ mem.pen = call.pend /\ call.round = "stage"
    /\ Unmatched(conns, call.pend \ call.todo)

\* The key the Manager remembers still accounts for the kernel.
DoneInv ==
  pc \in {"idle", "health"} => \A D \in done : Accounted(conns, D) /\ Recorded(table.act, D)

OutcomeInv ==
  /\ outcome # "none" => pc = "idle"
  /\ outcome \in {"ok", "suspended"} => Accounted(conns, Desired) /\ Recorded(table.act, Desired)

\* What an error return reports, but for the one case of HooksRead.
Reported ==
  outcome = "err" /\ ~ReportedUnknown =>
    Recorded(table.act, Desired \cup Potential) /\ Accounted(conns, Desired \cup Potential)

\* Every Replace could read the hook inventory when it had to check admission.
\* One that could not returns before it records the retirement difference
\* (nft_reconcile.go:234-236), and its error reports nothing of what is left.
HooksRead == outcome # "unread"

Retirement ==
  /\ PlanInv /\ TableInv /\ MemInv /\ IdleInv /\ AdmitInv /\ CallInv /\ PrepareInv /\ VerifyInv
  /\ CheckInv /\ RevokeInv /\ DoneInv /\ OutcomeInv /\ Reported

\* A fresh process on a clean host.
LEMMA InitRetirement == Init => Retirement
<1> SUFFICES ASSUME Init PROVE Retirement
  OBVIOUS
<1>1. PlanInv /\ MemInv /\ IdleInv /\ OutcomeInv /\ Reported
  BY DEF Init, PlanInv, MemInv, IdleInv, FreshMem, OutcomeInv, Reported
<1>2. TableInv
  BY DEF Init, TableInv, Agree, Uncrossed, Empty
<1>3. AdmitInv /\ CallInv /\ PrepareInv /\ VerifyInv /\ CheckInv /\ RevokeInv /\ DoneInv
  BY DEF Init, AdmitInv, CallInv, InCall, PrepareInv, VerifyInv, CheckInv, RevokeInv, DoneInv
<1> QED BY <1>1, <1>2, <1>3 DEF Retirement

\* The specs of a plan without double listeners agree.
LEMMA DesiredAgrees == PlanInv => Agree(Desired, Desired)
BY DEF PlanInv, Agree, Touch, Desired, Spec

\* gateNFTReplacements keeps every new path away from what is being retired.
LEMMA GateApart ==
  ASSUME NEW A \in SUBSET Specs, NEW P \in SUBSET Specs
  PROVE  Apart(Gate(A, P), P) /\ Gate(A, P) \subseteq A
BY PlansOK DEF Apart, Touch, Gate, Overlap, Specs, Spec

\* A suspended path is still asked for: had the request dropped it, it would
\* be retired and overlap itself.
LEMMA SuspendedWanted == Wanted(Suspended, Desired)
BY DEF Wanted, Suspended, Gate, Overlap, Retired, SameTuple

\* The policy and tool gates only remove paths from the request.
LEMMA AdmissibleAsked == Admissible \subseteq Desired
BY DEF Admissible, PreviouslyAdmitted

\* The retirement difference keeps every record: a path in memory is asked
\* for or pending.
LEMMA PendingRecords ==
  /\ Recorded(mem.pen, Pending)
  /\ Recorded(mem.act, Desired \cup Pending)
  /\ Recorded(mem.act \cup mem.sus, History)
<1>1. Recorded(mem.pen, Pending) /\ Retired(History, Desired) \subseteq Pending
  BY Merging DEF Pending
<1>2. Recorded(mem.act, History) /\ Recorded(mem.sus, History)
  BY Merging DEF History
<1>3. Recorded(History, Desired \cup Retired(History, Desired))
  BY DEF Recorded, Retired, SameTuple
<1>4. Recorded(History, Desired \cup Pending)
  BY <1>1, <1>3, Recording
<1> QED BY <1>1, <1>2, <1>4, Recording

-----------------------------------------------------------------------------
\* The kernel's clients, its administrator and the end of the process.

\* Entries that end and a ruleset that is flushed take nothing out of account.
LEMMA ShrinkStep ==
  ASSUME Retirement, table' \in {table, Empty}, conns' \subseteq conns,
         UNCHANGED <<mem, pc, call, plan, offload, done, outcome>>
  PROVE  Retirement'
<1>1. table'.act \subseteq table.act
  BY DEF Empty
<1>2. /\ Desired' = Desired /\ Known' = Known /\ Owned' = Owned /\ Potential' = Potential
      /\ All(call.tgt)' = All(call.tgt) /\ ReportedUnknown' = ReportedUnknown
  BY DEF Desired, Known, Owned, Potential, All, ReportedUnknown
<1>3. /\ \A T : Accounted(conns, T) => Accounted(conns', T)
      /\ \A T : Recorded(table.act, T) => Recorded(table'.act, T)
      /\ \A S : Uncrossed(conns, S) => Uncrossed(conns', S)
      /\ \A S : Unmatched(conns, S) => Unmatched(conns', S)
  BY <1>1 DEF Accounted, Recorded, Uncrossed, Unmatched
<1>4. PlanInv' /\ MemInv' /\ CallInv'
  BY <1>2 DEF Retirement, PlanInv, MemInv, CallInv, InCall
<1>5. TableInv'
  BY <1>1 DEF Retirement, TableInv, Agree, Uncrossed
<1>6. IdleInv'
  BY <1>2, <1>3 DEF Retirement, IdleInv, MemInv
<1>7. AdmitInv'
  BY <1>2, <1>3 DEF Retirement, AdmitInv, Covered
<1>8. PrepareInv'
  <2> SUFFICES ASSUME pc \in {"prepare", "apply"}
               PROVE  Agree(call.tgt.act, table'.act)
    BY <1>2, <1>3 DEF Retirement, PrepareInv
  <2> QED BY <1>1 DEF Retirement, PrepareInv, Agree
<1>9. VerifyInv' /\ CheckInv' /\ RevokeInv'
  BY <1>1, <1>2, <1>3 DEF Retirement, VerifyInv, CheckInv, RevokeInv
<1>10. DoneInv' /\ OutcomeInv' /\ Reported'
  BY <1>2, <1>3 DEF Retirement, DoneInv, OutcomeInv, Reported
<1> QED BY <1>4, <1>5, <1>6, <1>7, <1>8, <1>9, <1>10 DEF Retirement

\* A new connection belongs to an admitted path, and what accounts for the
\* table accounts for it.
LEMMA OpenConnStep ==
  ASSUME Retirement, OpenConn
  PROVE  Retirement'
<1>0. PICK s \in table.act : \E p \in Covers[s.in] : conns' = conns \cup {[point |-> p, to |-> s.to]}
  BY DEF OpenConn
<1>1. PICK p \in Covers[s.in] : conns' = conns \cup {[point |-> p, to |-> s.to]}
  BY <1>0
<1>2. UNCHANGED <<table, mem, pc, call, plan, offload, done, outcome>>
  BY DEF OpenConn
<1>3. /\ Desired' = Desired /\ Known' = Known /\ Owned' = Owned /\ Potential' = Potential
      /\ All(call.tgt)' = All(call.tgt) /\ ReportedUnknown' = ReportedUnknown
  BY <1>2 DEF Desired, Known, Owned, Potential, All, ReportedUnknown
<1>4. ASSUME NEW T, Accounted(conns, T), Recorded(table.act, T)
      PROVE  Accounted(conns', T)
  BY <1>1, <1>4 DEF Accounted, Recorded, Matches, SameTuple
<1>5. ASSUME NEW S, Uncrossed(conns, S), Agree(S, table.act)
      PROVE  Uncrossed(conns', S)
  BY <1>1, <1>5 DEF Uncrossed, Agree, Touch
<1>6. PlanInv' /\ MemInv' /\ CallInv' /\ TableInv'
  BY <1>2, <1>3, <1>5 DEF Retirement, PlanInv, MemInv, CallInv, InCall, TableInv
<1>7. ASSUME NEW T, table.act \subseteq T, Accounted(conns, T) PROVE Accounted(conns', T)
  BY <1>4, <1>7, Recording
<1>8. IdleInv'
  BY <1>2, <1>3, <1>7 DEF Retirement, IdleInv, MemInv, Known
<1>9. AdmitInv' /\ PrepareInv'
  BY <1>2, <1>3, <1>4, <1>5 DEF Retirement, AdmitInv, Covered, PrepareInv
<1>10. VerifyInv'
  <2>1. pc = "verify" => table.act \subseteq All(call.tgt) /\ table.act \subseteq Known \cup call.tgt.act
    BY DEF Retirement, VerifyInv, All
  <2> QED BY <1>2, <1>3, <1>7, <2>1 DEF Retirement, VerifyInv
<1>11. CheckInv'
  <2>1. pc = "checkpoint" => table.act \subseteq Known
    BY DEF Retirement, CheckInv, Known
  <2> QED BY <1>2, <1>3, <1>7, <2>1 DEF Retirement, CheckInv
<1>12. RevokeInv'
  <2> SUFFICES ASSUME pc \in {"revoke", "relist"}
               PROVE  /\ Accounted(conns', Known)
                      /\ Unmatched(conns', call.pend \ call.todo)
    BY <1>2, <1>3 DEF Retirement, RevokeInv
  <2>1. table.act \subseteq Known /\ Accounted(conns, Known)
    BY DEF Retirement, RevokeInv, Known
  <2>2. Apart(table.act, call.pend) /\ Unmatched(conns, call.pend \ call.todo)
    BY Agreement DEF Retirement, RevokeInv, CallInv, InCall
  <2>3. Unmatched(conns', call.pend \ call.todo)
    BY <1>1, <2>2 DEF Unmatched, Apart, Touch, Matches
  <2> QED BY <1>7, <2>1, <2>3
<1>13. DoneInv' /\ OutcomeInv' /\ Reported'
  BY <1>2, <1>3, <1>4 DEF Retirement, DoneInv, OutcomeInv, Reported
<1> QED BY <1>6, <1>8, <1>9, <1>10, <1>11, <1>12, <1>13 DEF Retirement

\* A crash or a reboot leaves rules and entries, and an empty memory.
LEMMA RestartStep ==
  ASSUME Retirement, Restart, table' \in {table, Empty}, conns' \subseteq conns
  PROVE  Retirement'
<1>1. PlanInv'
  BY DEF Retirement, PlanInv, Restart
<1>2. TableInv'
  <2>1. table'.act \subseteq table.act
    BY DEF Empty
  <2> QED BY <2>1 DEF Retirement, TableInv, Agree, Uncrossed
<1>3. MemInv' /\ IdleInv' /\ DoneInv' /\ OutcomeInv' /\ Reported'
  BY DEF Restart, FreshMem, MemInv, IdleInv, DoneInv, OutcomeInv, Reported
<1>4. AdmitInv' /\ CallInv' /\ PrepareInv' /\ VerifyInv' /\ CheckInv' /\ RevokeInv'
  BY DEF Restart, AdmitInv, CallInv, InCall, PrepareInv, VerifyInv, CheckInv, RevokeInv
<1> QED BY <1>1, <1>2, <1>3, <1>4 DEF Retirement

\* The whole environment.
LEMMA EnvironmentStep ==
  ASSUME Retirement, Environment
  PROVE  Retirement'
<1>1. CASE OpenConn
  BY <1>1, OpenConnStep
<1>2. CASE CloseConn \/ InstallTool \/ PolicyChange \/ FlushRuleset
  <2>1. table' \in {table, Empty} /\ conns' \subseteq conns
    BY <1>2 DEF CloseConn, InstallTool, PolicyChange, FlushRuleset, kernelVars
  <2>2. UNCHANGED <<mem, pc, call, plan, offload, done, outcome>>
    BY <1>2 DEF CloseConn, InstallTool, PolicyChange, FlushRuleset
  <2> QED BY <2>1, <2>2, ShrinkStep
<1>3. CASE Crash \/ Reboot
  <2>1. Restart /\ table' \in {table, Empty} /\ conns' \subseteq conns
    BY <1>3 DEF Crash, Reboot, kernelVars
  <2> QED BY <2>1, RestartStep
<1> QED BY <1>1, <1>2, <1>3 DEF Environment

-----------------------------------------------------------------------------
\* The steps of a reconciliation.

\* Moving on inside Replace: nothing has been returned yet.
LEMMA Moving ==
  ASSUME Retirement, pc # "idle", NEW label, label \notin {"idle", "health"}, Goto(label)
  PROVE  PlanInv' /\ DoneInv' /\ OutcomeInv' /\ Reported' /\ Desired' = Desired
<1>1. outcome' = "none"
  BY DEF Retirement, OutcomeInv, Goto
<1>2. PlanInv' /\ Desired' = Desired
  BY DEF Retirement, PlanInv, Goto, Desired
<1> QED BY <1>1, <1>2 DEF DoneInv, OutcomeInv, Reported, Goto

\* A return leaves only the parts about the table, memory and the report.
LEMMA Returning ==
  ASSUME Retirement, NEW result, Return(result)
  PROVE  /\ PlanInv' /\ AdmitInv' /\ CallInv' /\ PrepareInv' /\ VerifyInv' /\ CheckInv' /\ RevokeInv'
         /\ Desired' = Desired
         /\ result \in {"err", "unread"} => DoneInv' /\ OutcomeInv'
         /\ Accounted(conns', Desired) /\ Recorded(table'.act, Desired) => DoneInv' /\ OutcomeInv'
         /\ result = "dep" => DoneInv' /\ OutcomeInv'
<1>1. PlanInv' /\ Desired' = Desired
  BY DEF Retirement, PlanInv, Return, Desired
<1>2. AdmitInv' /\ CallInv' /\ PrepareInv' /\ VerifyInv' /\ CheckInv' /\ RevokeInv'
  BY DEF Return, AdmitInv, CallInv, InCall, PrepareInv, VerifyInv, CheckInv, RevokeInv
<1>3. result \in {"err", "unread", "dep"} => DoneInv' /\ OutcomeInv'
  BY DEF Return, DoneInv, OutcomeInv
<1>4. Accounted(conns', Desired) /\ Recorded(table'.act, Desired) => DoneInv' /\ OutcomeInv'
  BY <1>1 DEF Return, DoneInv, OutcomeInv
<1> QED BY <1>1, <1>2, <1>3, <1>4

\* An error return from a state whose history covers the kernel, and whose
\* active paths are asked for, pending or reported as not confirmed.
LEMMA Failing ==
  ASSUME Retirement, Return("err"), TableInv', MemInv',
         Accounted(conns', (Desired \cup Known)'), Recorded(table'.act, (Desired \cup Known)'),
         Recorded(mem'.act, Desired' \cup mem'.pen) \/ ~mem'.init,
         mem'.init /\ mem'.recovered /\ table' = mem'.applied => Accounted(conns', Known')
  PROVE  Retirement'
<1>1. Recorded((Desired \cup Known)', (Desired \cup Potential)')
  <2>1. Recorded(mem'.act, (Desired \cup Potential)')
    <3>1. CASE Recorded(mem'.act, Desired' \cup mem'.pen)
      <4>1. Desired' \cup mem'.pen \subseteq (Desired \cup Potential)'
        BY DEF Potential
      <4> QED BY <3>1, <4>1 DEF Recorded
    <3>2. CASE ~mem'.init
      <4>1. mem'.act \subseteq (Desired \cup Potential)'
        BY <3>2 DEF Potential
      <4> QED BY <4>1, Recording
    <3> QED BY <3>1, <3>2
  <2>2. Desired' \cup mem'.pen \cup mem'.sus \subseteq (Desired \cup Potential)'
    BY DEF Potential
  <2>3. Recorded(Desired' \cup mem'.pen \cup mem'.sus, (Desired \cup Potential)')
    BY <2>2, Recording
  <2>4. (Desired \cup Known)' = (Desired' \cup mem'.pen \cup mem'.sus) \cup mem'.act
    BY DEF Known
  <2> QED BY <2>1, <2>3, <2>4 DEF Recorded
<1>2. Reported'
  BY <1>1, Accounting, Recording DEF Reported
<1>3. IdleInv'
  BY DEF IdleInv
<1> QED BY <1>2, <1>3, Returning DEF Retirement

\* Apply and Refresh: a plan is asked for, nothing else has happened yet.
LEMMA ReconcileRetirement ==
  ASSUME TypeOK, Retirement, NEW P \in Plans, Reconcile(P)
  PROVE  Retirement'
<1>0. mem \in Memory
  BY DEF TypeOK
<1>1. /\ mem'.init = mem.init /\ mem'.recovered = mem.recovered /\ mem'.applied = mem.applied
      /\ mem'.act = mem.act /\ mem'.pen = mem.pen /\ mem'.sus = mem.sus
      /\ table' = table /\ conns' = conns /\ done' = done
      /\ pc = "idle" /\ pc' = "health" /\ outcome' = "none" /\ plan' = P
  BY <1>0 DEF Reconcile, Memory, kernelVars
<1>2. PlanInv'
  BY <1>1, PlansOK DEF PlanInv
<1>3. TableInv' /\ MemInv' /\ IdleInv' /\ DoneInv'
  BY <1>1 DEF Retirement, TableInv, MemInv, IdleInv, Known, DoneInv
<1>4. /\ AdmitInv' /\ CallInv' /\ PrepareInv' /\ VerifyInv' /\ CheckInv' /\ RevokeInv'
      /\ OutcomeInv' /\ Reported'
  BY <1>1 DEF AdmitInv, CallInv, InCall, PrepareInv, VerifyInv, CheckInv, RevokeInv, OutcomeInv,
    Reported
<1> QED BY <1>2, <1>3, <1>4 DEF Retirement

\* Healthy, and the entry of Replace up to its recovery.
LEMMA HealthRetirement ==
  ASSUME TypeOK, Retirement,
         AlreadyHealthy \/ HealthFails \/ Replace \/ BeginCurrentBoot \/ BeginRollover \/ BeginFails
  PROVE  Retirement'
<1>0. mem \in Memory /\ table' = table /\ conns' = conns
  BY DEF TypeOK, AlreadyHealthy, HealthFails, Replace, BeginCurrentBoot, BeginRollover, BeginFails,
    kernelVars
<1>1. TableInv'
  BY <1>0 DEF Retirement, TableInv
<1>2. CASE AlreadyHealthy
  <2>1. Return("ok") /\ mem' = mem /\ pc = "health" /\ done = {Desired}
    BY <1>2 DEF AlreadyHealthy, UpToDate
  <2>2. Accounted(conns, Desired) /\ Recorded(table.act, Desired)
    BY <2>1 DEF Retirement, DoneInv
  <2>3. MemInv' /\ IdleInv' /\ Reported'
    BY <1>0, <2>1 DEF Retirement, MemInv, IdleInv, Known, Reported, Return
  <2> QED BY <1>0, <1>1, <2>1, <2>2, <2>3, Returning DEF Retirement
<1>3. CASE HealthFails
  <2>1. /\ mem'.init = mem.init /\ mem'.recovered = mem.recovered /\ mem'.applied = mem.applied
        /\ mem'.act = mem.act /\ mem'.pen = mem.pen /\ mem'.sus = mem.sus /\ mem'.unknown
        /\ pc = "health" /\ pc' = "idle" /\ outcome' = "err"
        /\ UNCHANGED <<plan, offload, done>>
    BY <1>0, <1>3 DEF HealthFails, Memory
  <2>2. PlanInv' /\ MemInv' /\ IdleInv' /\ DoneInv' /\ OutcomeInv' /\ Reported'
    BY <1>0, <2>1 DEF Retirement, PlanInv, MemInv, IdleInv, Known, DoneInv, OutcomeInv, Reported,
      ReportedUnknown
  <2>3. AdmitInv' /\ CallInv' /\ PrepareInv' /\ VerifyInv' /\ CheckInv' /\ RevokeInv'
    BY <2>1 DEF AdmitInv, CallInv, InCall, PrepareInv, VerifyInv, CheckInv, RevokeInv
  <2> QED BY <1>1, <2>2, <2>3 DEF Retirement
<1>4. CASE Replace \/ BeginCurrentBoot \/ BeginRollover
  <2>1. pc \in {"health", "begin"} /\ (Goto("begin") \/ Goto("recover"))
    BY <1>4 DEF Replace, BeginCurrentBoot, BeginRollover
  <2>2. \/ ~mem'.init
        \/ /\ mem'.init = mem.init /\ mem'.recovered = mem.recovered /\ mem'.applied = mem.applied
           /\ mem'.act = mem.act /\ mem'.pen = mem.pen /\ mem'.sus = mem.sus
    BY <1>0, <1>4 DEF Replace, BeginCurrentBoot, BeginRollover, Cleared, Memory
  <2>3. MemInv' /\ IdleInv'
    BY <1>0, <2>1, <2>2 DEF Retirement, MemInv, IdleInv, Known
  <2>4. AdmitInv' /\ CallInv' /\ PrepareInv' /\ VerifyInv' /\ CheckInv' /\ RevokeInv'
    BY <2>1 DEF AdmitInv, CallInv, InCall, PrepareInv, VerifyInv, CheckInv, RevokeInv, Goto
  <2> QED BY <1>1, <2>1, <2>3, <2>4, Moving DEF Retirement
<1>5. CASE BeginFails
  <2>1. Return("err") /\ ~mem'.init /\ mem'.unknown
    BY <1>0, <1>5 DEF BeginFails, Memory
  <2>2. MemInv' /\ IdleInv' /\ Reported'
    BY <2>1 DEF MemInv, IdleInv, Reported, ReportedUnknown
  <2> QED BY <1>1, <2>1, <2>2, Returning DEF Retirement
<1> QED BY <1>2, <1>3, <1>4, <1>5

\* recoverKernelState brings every rule and entry into the history.
LEMMA RecoverRetirement ==
  ASSUME TypeOK, Retirement, HistoryTrue',
         RecoverUnchanged \/ RecoverHistory \/ RecoverUnverified \/ RecoverFails
  PROVE  Retirement'
<1>0. mem \in Memory /\ table' = table /\ conns' = conns /\ pc = "recover"
  BY DEF TypeOK, RecoverUnchanged, RecoverHistory, RecoverUnverified, RecoverFails, kernelVars
<1>1. TableInv'
  BY <1>0 DEF Retirement, TableInv
<1>2. ASSUME Goto("admit"), Covered', MemInv' PROVE Retirement'
  <2>1. IdleInv' /\ AdmitInv' /\ CallInv' /\ PrepareInv' /\ VerifyInv' /\ CheckInv' /\ RevokeInv'
    BY <1>2 DEF Goto, IdleInv, AdmitInv, CallInv, InCall, PrepareInv, VerifyInv, CheckInv, RevokeInv
  <2> QED BY <1>0, <1>1, <1>2, <2>1, Moving DEF Retirement
<1>3. CASE RecoverUnchanged
  <2>1. Goto("admit") /\ mem' = mem /\ mem.init /\ mem.recovered /\ table = mem.applied
    BY <1>3 DEF RecoverUnchanged, Unchanged
  <2>2. Accounted(conns, Known) /\ table.act = mem.act
    BY <1>0, <2>1 DEF Retirement, IdleInv, MemInv
  <2>3. Recorded(table.act, Known)
    BY <2>2, Recording DEF Known
  <2>4. Covered' /\ MemInv'
    BY <1>0, <2>1, <2>2, <2>3 DEF Covered, Known, Retirement, MemInv
  <2> QED BY <1>2, <2>1, <2>4
<1>4. ASSUME NEW unknown, NEW init \in {FALSE, Adopted(Recovered)}, Adopt(Recovered, unknown, init)
      PROVE  Known' = All(Recovered) /\ Recorded(table'.act, Known') /\ MemInv'
             /\ mem'.tool = mem.tool
  <2>1. /\ mem'.act = Recovered.act /\ mem'.pen = Recovered.pen /\ mem'.sus = Recovered.sus
        /\ mem'.init = init /\ mem'.tool = mem.tool
        /\ init => mem'.applied = table
    BY <1>0, <1>4 DEF Adopt, Memory
  <2>2. Known' = All(Recovered)
    BY <2>1 DEF Known, All
  <2>3. table.act \subseteq Recovered.act
    BY Merging DEF Recovered
  <2>4. table.act \subseteq Known'
    BY <2>1, <2>3 DEF Known
  <2>5. MemInv'
    <3>1. Adopted(Recovered) => table # Empty /\ table = Recovered
      BY DEF Adopted
    <3> QED BY <1>4, <2>1, <3>1 DEF MemInv
  <2> QED BY <1>0, <2>1, <2>2, <2>4, <2>5, Recording
<1>5. CASE RecoverHistory
  <2>1. Goto("admit") /\ Adopt(Recovered, FALSE, Adopted(Recovered))
    BY <1>5 DEF RecoverHistory
  <2>2. Accounted(conns, All(Recovered))
    BY <1>5 DEF RecoverHistory, Accounted
  <2> QED BY <1>0, <1>2, <1>4, <2>1, <2>2 DEF Covered
<1>6. CASE RecoverUnverified
  <2>1. Goto("admit") /\ Adopt(Recovered, TRUE, FALSE) /\ ~mem.tool
    BY <1>6 DEF RecoverUnverified
  <2>2. MemInv' /\ Recorded(table'.act, Known') /\ ~mem'.tool
    BY <1>4, <2>1
  <2>3. Accounted(conns', Known')
    BY <2>1, <2>2 DEF HistoryTrue, Goto
  <2> QED BY <1>2, <2>1, <2>2, <2>3 DEF Covered
<1>7. CASE RecoverFails
  <2>1. Return("err") /\ ~mem'.init /\ mem'.unknown
    BY <1>0, <1>7 DEF RecoverFails, Memory
  <2>2. MemInv' /\ IdleInv' /\ Reported'
    BY <2>1 DEF MemInv, IdleInv, Reported, ReportedUnknown
  <2> QED BY <1>1, <2>1, <2>2, Returning DEF Retirement
<1> QED BY <1>3, <1>5, <1>6, <1>7

\* The two ways out of the admission gate without a target.
LEMMA RefuseRetirement ==
  ASSUME TypeOK, Retirement, AdmitNothing \/ AdmitUnreadable
  PROVE  Retirement'
<1>0. /\ mem \in Memory /\ table' = table /\ conns' = conns /\ pc = "admit" /\ Covered
      /\ Return("err") \/ Return("unread")
  BY DEF TypeOK, AdmitNothing, AdmitUnreadable, kernelVars, Retirement, AdmitInv
<1>1. TableInv'
  BY <1>0 DEF Retirement, TableInv
<1>2. /\ mem'.init => mem.init /\ mem'.applied = mem.applied
      /\ mem'.act = mem.act /\ mem'.pen = mem.pen /\ mem'.sus = mem.sus
  BY <1>0 DEF AdmitNothing, AdmitUnreadable, Memory
<1>3. MemInv' /\ IdleInv'
  BY <1>0, <1>2 DEF Retirement, MemInv, IdleInv, Covered, Known
<1>4. CASE AdmitNothing
  <2>1. Pending = {} /\ History = {}
    BY <1>4 DEF AdmitNothing, NothingToRetain
  <2>2. Known = {}
    BY <2>1, PendingRecords DEF Recorded, Known
  <2>3. conns = {} /\ table.act = {}
    BY <1>0, <2>2 DEF Covered, Accounted, Recorded
  <2>4. Reported'
    BY <1>0, <2>3 DEF Reported, Accounted, Recorded
  <2> QED BY <1>0, <1>1, <1>3, <2>4, Returning DEF Retirement
<1>5. CASE AdmitUnreadable
  <2>1. Reported'
    BY <1>5 DEF AdmitUnreadable, Return, Reported
  <2> QED BY <1>0, <1>1, <1>3, <2>1, Returning DEF Retirement
<1> QED BY <1>4, <1>5

\* The admission gate computes a target that crosses nothing: what it admits
\* is asked for, and everything else the kernel has is retired and kept apart.
LEMMA AdmitRetirement ==
  ASSUME TypeOK, Retirement, HistoryKept', Admit
  PROVE  Retirement'
<1>0. /\ mem \in Memory /\ table' = table /\ conns' = conns /\ pc = "admit" /\ Goto("prepare")
      /\ Covered
  BY DEF TypeOK, Admit, kernelVars, Retirement, AdmitInv
<1>1. /\ mem'.act = mem.act /\ mem'.sus = mem.sus /\ mem'.pen = Pending
      /\ mem'.applied = mem.applied /\ (mem'.init => mem.init)
  BY <1>0 DEF Admit, Memory
<1>2. TableInv' /\ MemInv'
  BY <1>0, <1>1 DEF Retirement, TableInv, MemInv
<1>3. /\ call'.next = Admissible /\ call'.pend = Pending /\ call'.sus = Suspended
      /\ ~call'.perr /\ call'.tgt.pen = Pending /\ call'.tgt.sus = Suspended
      /\ call'.round = IF Pending # {} THEN "stage" ELSE "final"
      /\ call'.tgt.act = IF Pending # {} THEN Gate(Admissible, Pending) ELSE Admissible
  BY DEF Admit, NoCall, StageTarget, FinalTarget
<1>4. Apart(call'.tgt.act, Pending) /\ call'.tgt.act \subseteq Admissible
  <2>1. CASE Pending = {}
    BY <1>3, <2>1 DEF Apart
  <2>2. CASE Pending # {}
    BY <1>3, <2>2, ComputedSpecs, GateApart
  <2> QED BY <2>1, <2>2
<1>5. Desired' = Desired /\ PlanInv' /\ DoneInv' /\ OutcomeInv' /\ Reported'
  BY <1>0, Moving
<1>6. CallInv'
  BY <1>3, <1>4, <1>5, AdmissibleAsked, SuspendedWanted DEF CallInv
<1>7. Recorded(Known, Owned')
  <2>1. Owned' = (mem.act \cup mem.sus) \cup Pending
    BY <1>1, <1>3 DEF Owned
  <2>2. Recorded(mem.act \cup mem.sus, Owned') /\ Recorded(Pending, Owned')
    BY <2>1, Recording
  <2>3. Recorded(mem.pen, Owned')
    BY <2>2, PendingRecords, Recording
  <2>4. Known = (mem.act \cup mem.sus) \cup mem.pen
    BY DEF Known
  <2> QED BY <2>2, <2>3, <2>4 DEF Recorded
<1>8. Accounted(conns, Owned') /\ Recorded(table.act, Owned')
  BY <1>0, <1>7, Accounting, Recording DEF Covered
<1>9. Recorded(Owned', All(call'.tgt))
  <2>1. Recorded(mem.act \cup mem.sus, All(call'.tgt))
    BY <1>0, <1>1 DEF HistoryKept, Goto, All
  <2>2. Recorded(Pending, All(call'.tgt))
    BY <1>3, Recording DEF All
  <2>3. Owned' = (mem.act \cup mem.sus) \cup Pending
    BY <1>1, <1>3 DEF Owned
  <2> QED BY <2>1, <2>2, <2>3 DEF Recorded
<1>10. Agree(call'.tgt.act, All(call'.tgt))
  <2>1. Agree(Desired, Desired) /\ Wanted(Suspended, Desired) /\ call'.tgt.act \subseteq Desired
    BY <1>4, DesiredAgrees, SuspendedWanted, AdmissibleAsked DEF Retirement
  <2> QED BY <1>3, <1>4, <2>1, TargetAgrees DEF All
<1>11. Agree(call'.tgt.act, table.act) /\ Uncrossed(conns, call'.tgt.act)
  BY <1>8, <1>9, <1>10, Agreement
<1>12. PrepareInv'
  <2>1. call'.tgt.pen \subseteq Known'
    BY <1>1, <1>3 DEF Known
  <2> QED BY <1>0, <1>1, <1>3, <1>5, <1>8, <1>11, <2>1, PendingRecords DEF PrepareInv
<1>13. IdleInv' /\ AdmitInv' /\ VerifyInv' /\ CheckInv' /\ RevokeInv'
  BY <1>0 DEF Goto, IdleInv, AdmitInv, VerifyInv, CheckInv, RevokeInv
<1> QED BY <1>2, <1>5, <1>6, <1>12, <1>13 DEF Retirement

\* Before the transaction, an error leaves a history that covers the kernel.
LEMMA PreparedCovers ==
  ASSUME Retirement, pc \in {"prepare", "apply"}
  PROVE  /\ Accounted(conns, Known) /\ Recorded(table.act, Known)
         /\ Recorded(mem.act, Desired \cup mem.pen)
<1>1. Owned \subseteq Known
  BY DEF Retirement, PrepareInv, Owned, Known
<1> QED BY <1>1, Accounting, Recording DEF Retirement, PrepareInv

\* An error return that leaves kernel and memory as they are.
LEMMA QuietFailure ==
  ASSUME Retirement, Return("err"), UNCHANGED <<table, conns, mem>>,
         Accounted(conns, Known), Recorded(table.act, Desired \cup Known),
         Recorded(mem.act, Desired \cup mem.pen)
  PROVE  Retirement'
<1>1. TableInv' /\ MemInv' /\ Known' = Known
  BY DEF Retirement, TableInv, MemInv, Known
<1>2. Desired' = Desired
  BY Returning
<1>3. Accounted(conns, Desired \cup Known)
  BY DEF Accounted
<1> QED BY <1>1, <1>2, <1>3, Failing

\* The readback before the transaction, and the write of the intent.
LEMMA PrepareRetirement ==
  ASSUME TypeOK, Retirement, ObserveFails \/ Prepare \/ PrepareFails
  PROVE  Retirement'
<1>0. /\ call \in Calls /\ pc = "prepare" /\ UNCHANGED <<table, conns, mem>>
  BY DEF TypeOK, ControlType, ObserveFails, Prepare, PrepareFails, kernelVars
<1>1. CASE Return("err")
  <2>1. Recorded(table.act, Desired \cup Known)
    BY <1>0, PreparedCovers DEF Recorded
  <2> QED BY <1>0, <1>1, <2>1, PreparedCovers, QuietFailure
<1>2. ASSUME Goto("apply"), CallInv', PrepareInv' PROVE Retirement'
  <2>1. TableInv' /\ MemInv'
    BY <1>0 DEF Retirement, TableInv, MemInv
  <2>2. IdleInv' /\ AdmitInv' /\ VerifyInv' /\ CheckInv' /\ RevokeInv'
    BY <1>2 DEF Goto, IdleInv, AdmitInv, VerifyInv, CheckInv, RevokeInv
  <2> QED BY <1>0, <1>2, <2>1, <2>2, Moving DEF Retirement
<1>3. ASSUME Goto("apply") PROVE Desired' = Desired
  BY <1>3 DEF Goto, Desired
<1>4. CASE Prepare
  <2>1. /\ Goto("apply") /\ ~call'.perr /\ call'.next = call.next /\ call'.pend = call.pend
        /\ call'.sus = call.sus /\ call'.tgt = call.tgt /\ call'.round = call.round
    BY <1>0, <1>4 DEF Prepare, Calls
  <2>2. CallInv' /\ PrepareInv'
    BY <1>0, <1>3, <2>1 DEF Retirement, CallInv, InCall, PrepareInv, Owned, Known
  <2> QED BY <1>2, <2>1, <2>2
<1>5. CASE PrepareFails /\ Goto("apply")
  <2>1. /\ Goto("apply") /\ call'.perr /\ call'.next = call.next /\ call'.pend = call.pend
        /\ call'.sus = call.sus /\ call'.tgt = Withdrawal /\ call'.round = call.round
    BY <1>0, <1>5 DEF PrepareFails, Calls, Return, Goto
  <2>2. /\ Withdrawal.act \subseteq call.tgt.act /\ Withdrawal.sus \subseteq call.tgt.sus
        /\ Withdrawal.pen = Merge(Merge(mem.pen, call.tgt.pen), Retired(mem.act, Withdrawal.act))
    BY DEF Withdrawal, PreviouslyAdmitted, Gate
  <2>3. CallInv'
    <3>1. /\ Withdrawal.act \subseteq Desired /\ Wanted(Withdrawal.sus, Desired)
          /\ call.round = "stage" => Apart(Withdrawal.act, call.pend)
      BY <1>0, <2>2 DEF Retirement, CallInv, InCall, Wanted, Apart
    <3> QED BY <1>0, <1>3, <2>1, <3>1 DEF Retirement, CallInv, InCall, Goto
  <2>4. Withdrawal.pen \subseteq Known
    <3>1. Merge(mem.pen, call.tgt.pen) \subseteq Known
      BY <1>0, Merging DEF Retirement, PrepareInv, Known
    <3>2. Retired(mem.act, Withdrawal.act) \subseteq Known
      BY DEF Retired, Known
    <3> QED BY <2>2, <3>1, <3>2, Merging
  <2>5. Recorded(Owned, Owned')
    <3>1. Recorded(call.tgt.pen, Withdrawal.pen)
      BY <2>2, Merging, Recording
    <3>2. Owned = mem.act \cup mem.sus \cup call.tgt.pen
      BY DEF Owned
    <3>3. Owned' = mem.act \cup mem.sus \cup Withdrawal.pen
      BY <1>0, <2>1 DEF Owned
    <3> QED BY <3>1, <3>2, <3>3 DEF Recorded, SameTuple
  <2>6. PrepareInv'
    <3>1. Accounted(conns, Owned') /\ Recorded(table.act, Owned')
      BY <1>0, <2>5, Accounting, Recording DEF Retirement, PrepareInv
    <3>2. Agree(Withdrawal.act, table.act) /\ Uncrossed(conns, Withdrawal.act)
      BY <1>0, <2>2 DEF Retirement, PrepareInv, Agree, Uncrossed
    <3>3. Known' = Known
      BY <1>0 DEF Known
    <3> QED BY <1>0, <1>3, <2>1, <2>4, <3>1, <3>2, <3>3 DEF Retirement, PrepareInv
  <2> QED BY <1>2, <2>1, <2>3, <2>6
<1> QED BY <1>1, <1>4, <1>5 DEF ObserveFails, PrepareFails

\* Installing the target is safe, and keeps every entry accounted for.
LEMMA Installing ==
  ASSUME Retirement, HistoryKept, pc = "apply", table' = call.tgt, conns' = conns
  PROVE  TableInv' /\ Accounted(conns, All(call.tgt))
<1>1. Agree(call.tgt.act, call.tgt.act)
  <2>1. Agree(Desired, Desired) /\ call.tgt.act \subseteq Desired
    BY DesiredAgrees DEF Retirement, CallInv, InCall
  <2> QED BY <2>1 DEF Agree
<1>2. TableInv'
  BY <1>1 DEF Retirement, PrepareInv, TableInv
<1>3. Recorded(Owned, All(call.tgt))
  <2>1. Recorded(mem.act \cup mem.sus, All(call.tgt)) /\ call.tgt.pen \subseteq All(call.tgt)
    BY DEF HistoryKept, All
  <2> QED BY <2>1 DEF Owned, Recorded, SameTuple
<1> QED BY <1>2, <1>3, Accounting DEF Retirement, PrepareInv

\* kernel.Apply, refused, committed or of unknown outcome.
LEMMA ApplyRetirement ==
  ASSUME TypeOK, Retirement, HistoryKept, Apply \/ ApplyFails
  PROVE  Retirement'
<1>0. pc = "apply" /\ conns' = conns /\ mem' = mem /\ table' \in {table, call.tgt}
  BY DEF Apply, ApplyFails
<1>1. MemInv' /\ Known' = Known
  BY <1>0 DEF Retirement, MemInv, Known
<1>2. CASE Apply
  <2>1. Goto("verify") /\ call' = call /\ table' = call.tgt
    BY <1>2 DEF Apply
  <2>2. TableInv' /\ Accounted(conns, All(call.tgt))
    BY <1>0, <2>1, Installing
  <2>3. PlanInv' /\ DoneInv' /\ OutcomeInv' /\ Reported' /\ Desired' = Desired
    BY <1>0, <2>1, Moving
  <2>4. Accounted(conns, Known \cup call.tgt.act)
    BY <1>0, PreparedCovers DEF Accounted
  <2>5. VerifyInv'
    BY <1>0, <1>1, <2>1, <2>2, <2>4 DEF VerifyInv
  <2>6. CallInv'
    BY <1>0, <2>1, <2>3 DEF Retirement, CallInv, InCall, Goto
  <2>7. IdleInv' /\ AdmitInv' /\ PrepareInv' /\ CheckInv' /\ RevokeInv'
    BY <2>1 DEF Goto, IdleInv, AdmitInv, PrepareInv, CheckInv, RevokeInv
  <2> QED BY <1>1, <2>2, <2>3, <2>5, <2>6, <2>7 DEF Retirement
<1>3. CASE ApplyFails
  <2>1. Return("err")
    BY <1>3 DEF ApplyFails
  <2>2. Desired' = Desired
    BY <2>1, Returning
  <2>3. TableInv'
    <3>1. CASE table' = table
      BY <1>0, <3>1 DEF Retirement, TableInv
    <3>2. CASE table' = call.tgt
      BY <1>0, <3>2, Installing
    <3> QED BY <1>0, <3>1, <3>2
  <2>4. Recorded(table'.act, Desired \cup Known)
    <3>1. Recorded(table.act, Known) /\ call.tgt.act \subseteq Desired
      BY <1>0, PreparedCovers DEF Retirement, CallInv, InCall
    <3> QED BY <1>0, <3>1 DEF Recorded, SameTuple
  <2>5. Accounted(conns, Desired \cup Known)
    BY <1>0, PreparedCovers DEF Accounted
  <2> QED BY <1>0, <1>1, <2>1, <2>2, <2>3, <2>4, <2>5, PreparedCovers, Failing
<1> QED BY <1>2, <1>3

\* What memory holds after a readback is the target that was read back.
LEMMA ConfirmedFields ==
  ASSUME TypeOK
  PROVE  /\ Confirmed.act = call.tgt.act /\ Confirmed.pen = call.tgt.pen
         /\ Confirmed.sus = call.tgt.sus /\ Confirmed.applied = call.tgt
         /\ Confirmed.init => call.tgt # Empty
         /\ mem.tool => Confirmed.tool
<1>0. mem \in Memory
  BY DEF TypeOK
<1>1. CASE call.tgt = Empty
  <2>1. Confirmed = [mem EXCEPT !.init = FALSE, !.act = {}, !.pen = {}, !.sus = {}, !.applied = Empty]
    BY <1>1 DEF Confirmed, Cleared
  <2>2. mem.tool => Confirmed.tool
    BY <1>0, <2>1 DEF Memory
  <2>3. /\ Confirmed.act = {} /\ Confirmed.pen = {} /\ Confirmed.sus = {} /\ ~Confirmed.init
        /\ Confirmed.applied = Empty
    BY <1>0, <2>1 DEF Memory
  <2> QED BY <1>1, <2>2, <2>3 DEF Empty
<1>2. CASE call.tgt # Empty
  BY <1>0, <1>2 DEF Confirmed, Memory
<1> QED BY <1>1, <1>2

\* observe and validateNFTState: memory follows what was read back.
LEMMA VerifyRetirement ==
  ASSUME TypeOK, Retirement, Verify \/ VerifyFails
  PROVE  Retirement'
<1>0. /\ mem \in Memory /\ call \in Calls /\ pc = "verify" /\ table' = table /\ conns' = conns
      /\ call.tgt.act \subseteq Desired
      /\ Accounted(conns, All(call.tgt)) /\ Accounted(conns, Known \cup call.tgt.act)
      /\ table.act \subseteq call.tgt.act
  BY DEF TypeOK, ControlType, Verify, VerifyFails, kernelVars, Retirement, CallInv, InCall, VerifyInv
<1>1. TableInv'
  BY <1>0 DEF Retirement, TableInv
<1>2. CASE Verify
  <2>1. /\ table = call.tgt /\ mem' = Confirmed
        /\ mem'.act = call.tgt.act /\ mem'.pen = call.tgt.pen /\ mem'.sus = call.tgt.sus
        /\ mem'.applied = call.tgt /\ (mem'.init => call.tgt # Empty)
    BY <1>2, ConfirmedFields DEF Verify
  <2>2. MemInv' /\ Known' = All(call.tgt)
    BY <2>1 DEF MemInv, Known, All
  <2>3. CASE call.perr
    <3>1. Return("err") /\ Desired' = Desired
      BY <1>2, <2>3, Returning DEF Verify
    <3>2. Recorded(table.act, Desired \cup Known') /\ Recorded(mem'.act, Desired \cup mem'.pen)
      BY <1>0, <2>1 DEF Recorded, SameTuple
    <3>3. Accounted(conns, Desired \cup Known')
      BY <1>0, <2>2 DEF Accounted
    <3> QED BY <1>0, <1>1, <2>2, <3>1, <3>2, <3>3, Failing
  <2>4. CASE ~call.perr
    <3>1. Goto("checkpoint") /\ call' = call
      BY <1>2, <2>4 DEF Verify
    <3>2. PlanInv' /\ DoneInv' /\ OutcomeInv' /\ Reported' /\ Desired' = Desired
      BY <1>0, <3>1, Moving
    <3>3. CallInv'
      BY <1>0, <2>4, <3>1, <3>2 DEF Retirement, CallInv, InCall, Goto
    <3>4. CheckInv'
      BY <1>0, <2>1, <2>2, <3>1 DEF CheckInv
    <3>5. IdleInv' /\ AdmitInv' /\ PrepareInv' /\ VerifyInv' /\ RevokeInv'
      BY <3>1 DEF Goto, IdleInv, AdmitInv, PrepareInv, VerifyInv, RevokeInv
    <3> QED BY <1>1, <2>2, <3>2, <3>3, <3>4, <3>5 DEF Retirement
  <2> QED BY <2>3, <2>4
<1>3. CASE VerifyFails
  <2>1. /\ Return("err") /\ ~mem'.init
        /\ mem'.act = mem.act /\ mem'.pen = mem.pen /\ mem'.sus = mem.sus
    BY <1>0, <1>3 DEF VerifyFails, Memory
  <2>2. MemInv' /\ Known' = Known /\ Desired' = Desired
    BY <2>1, Returning DEF MemInv, Known
  <2>3. Recorded(table.act, Desired \cup Known) /\ Accounted(conns, Desired \cup Known)
    BY <1>0 DEF Recorded, Accounted, SameTuple
  <2> QED BY <1>0, <1>1, <2>1, <2>2, <2>3, Failing
<1> QED BY <1>2, <1>3

\* A confirmed staging target is followed by revocation.
LEMMA StageDone ==
  ASSUME TypeOK, Retirement, pc \in {"prepare", "checkpoint"}, UNCHANGED <<table, conns>>,
         call.round = "stage", table.act \subseteq mem.act, mem.act = call.tgt.act,
         mem.pen = call.pend, Accounted(conns, Known),
         mem' = [mem EXCEPT !.pol = call.adm], call' = [call EXCEPT !.todo = call.pend],
         Goto("revoke")
  PROVE  Retirement'
<1>0. mem \in Memory /\ call \in Calls
  BY DEF TypeOK, ControlType
<1>1. /\ mem'.act = mem.act /\ mem'.pen = mem.pen /\ mem'.sus = mem.sus
      /\ mem'.init = mem.init /\ mem'.applied = mem.applied
      /\ call'.next = call.next /\ call'.pend = call.pend /\ call'.sus = call.sus
      /\ call'.tgt = call.tgt /\ call'.perr = call.perr /\ call'.round = call.round
      /\ call'.todo = call.pend
  BY <1>0 DEF Memory, Calls
<1>2. PlanInv' /\ DoneInv' /\ OutcomeInv' /\ Reported' /\ Desired' = Desired
  BY Moving
<1>3. TableInv' /\ MemInv' /\ Known' = Known
  BY <1>1 DEF Retirement, TableInv, MemInv, Known
<1>4. CallInv'
  BY <1>1, <1>2 DEF Retirement, CallInv, InCall, Goto
<1>5. RevokeInv'
  <2>1. Unmatched(conns', call'.pend \ call'.todo)
    BY <1>1 DEF Unmatched
  <2> QED BY <1>1, <1>3, <2>1 DEF RevokeInv
<1>6. IdleInv' /\ AdmitInv' /\ PrepareInv' /\ VerifyInv' /\ CheckInv'
  BY DEF Goto, IdleInv, AdmitInv, PrepareInv, VerifyInv, CheckInv
<1> QED BY <1>2, <1>3, <1>4, <1>5, <1>6 DEF Retirement

\* A confirmed final target ends Replace: every entry belongs to the request.
LEMMA FinalDone ==
  ASSUME TypeOK, Retirement, pc \in {"prepare", "checkpoint"}, UNCHANGED <<table, conns>>,
         table.act \subseteq call.tgt.act,
         Accounted(conns, mem.act \cup mem.sus), Accounted(conns, call.tgt.act \cup call.tgt.sus),
         mem' = [mem EXCEPT !.pol = call.adm, !.pen = {}, !.unknown = call.dep],
         NEW result \in {"ok", "dep", "suspended"}, Return(result)
  PROVE  Retirement'
<1>0. /\ mem \in Memory /\ call.tgt.act \subseteq Desired /\ Wanted(call.tgt.sus, Desired)
  BY DEF TypeOK, Retirement, CallInv, InCall
<1>1. /\ mem'.act = mem.act /\ mem'.sus = mem.sus
      /\ mem'.init = mem.init /\ mem'.applied = mem.applied
  BY <1>0 DEF Memory
<1>2. TableInv' /\ MemInv'
  BY <1>1 DEF Retirement, TableInv, MemInv
<1>3. Accounted(conns', Known')
  BY <1>1, Accounting DEF Known
<1>4. Accounted(conns', Desired)
  BY <1>0, WantedAccounts
<1>5. Recorded(table'.act, Desired)
  BY <1>0, Recording
<1>6. IdleInv' /\ Reported'
  BY <1>3 DEF IdleInv, Reported, Return
<1> QED BY <1>2, <1>4, <1>5, <1>6, Returning DEF Retirement

\* The rest of replaceObjects: nothing to change, or the checkpoint written.
LEMMA ObjectsRetirement ==
  ASSUME TypeOK, Retirement, HistoryKept, SkipApplied \/ Checkpoint
  PROVE  Retirement'
<1>0. /\ pc \in {"prepare", "checkpoint"} /\ UNCHANGED <<table, conns>> /\ AfterObjects(mem)
      /\ ~call.perr /\ call.tgt.pen = IF call.round = "stage" THEN call.pend ELSE {}
  BY DEF SkipApplied, Checkpoint, kernelVars, Retirement, CallInv, InCall
<1>1. /\ table.act \subseteq mem.act /\ mem.act = call.tgt.act
      /\ Accounted(conns, Known) /\ Accounted(conns, All(call.tgt))
      /\ Accounted(conns, mem.act \cup mem.sus \cup call.tgt.pen)
      /\ call.round = "stage" => mem.pen = call.pend
  <2>1. CASE SkipApplied
    <3>1. pc = "prepare" /\ mem.init /\ table = mem.applied /\ call.tgt = mem.applied
      BY <2>1 DEF SkipApplied, AlreadyApplied
    <3>2. table.act = mem.act /\ mem.act = call.tgt.act /\ mem.pen = call.pend
      BY <3>1 DEF Retirement, MemInv, PrepareInv
    <3>3. Accounted(conns, Known) /\ Accounted(conns, Owned)
      BY <3>1, PreparedCovers DEF Retirement, PrepareInv
    <3>4. Accounted(conns, All(call.tgt))
      <4>1. Recorded(mem.act \cup mem.sus, All(call.tgt)) /\ call.tgt.pen \subseteq All(call.tgt)
        BY <3>1 DEF HistoryKept, All
      <4>2. Recorded(Owned, All(call.tgt))
        BY <4>1 DEF Owned, Recorded, SameTuple
      <4> QED BY <3>3, <4>2, Accounting
    <3> QED BY <3>2, <3>3, <3>4 DEF Owned
  <2>2. CASE Checkpoint
    <3>1. /\ Accounted(conns, Known) /\ table.act \subseteq mem.act
          /\ mem.act = call.tgt.act /\ mem.pen = call.tgt.pen /\ mem.sus = call.tgt.sus
      BY <2>2 DEF Checkpoint, Retirement, CheckInv
    <3>2. Known = All(call.tgt) /\ Known = mem.act \cup mem.sus \cup call.tgt.pen
      BY <3>1 DEF Known, All
    <3> QED BY <1>0, <3>1, <3>2
  <2> QED BY <2>1, <2>2
<1>2. CASE call.round = "stage"
  <2>1. /\ mem' = [mem EXCEPT !.pol = call.adm] /\ call' = [call EXCEPT !.todo = call.pend]
        /\ Goto("revoke")
    BY <1>0, <1>2 DEF AfterObjects
  <2> QED BY <1>0, <1>1, <1>2, <2>1, StageDone
<1>3. CASE call.round # "stage"
  <2>1. /\ mem' = [mem EXCEPT !.pol = call.adm, !.pen = {}, !.unknown = call.dep]
        /\ Return("ok") \/ Return("dep") \/ Return("suspended")
    BY <1>0, <1>3 DEF AfterObjects
  <2>2. /\ mem.act \cup mem.sus \cup call.tgt.pen = mem.act \cup mem.sus
        /\ All(call.tgt) = call.tgt.act \cup call.tgt.sus
    BY <1>0, <1>3 DEF All
  <2> QED BY <1>0, <1>1, <2>1, <2>2, FinalDone
<1> QED BY <1>2, <1>3

\* A checkpoint that cannot be written leaves memory unconfirmed.
LEMMA CheckpointFailsRetirement ==
  ASSUME TypeOK, Retirement, CheckpointFails
  PROVE  Retirement'
<1>0. /\ mem \in Memory /\ pc = "checkpoint" /\ table' = table /\ conns' = conns
      /\ Return("err") /\ ~mem'.init
      /\ mem'.act = mem.act /\ mem'.pen = mem.pen /\ mem'.sus = mem.sus
  BY DEF TypeOK, CheckpointFails, kernelVars, Memory
<1>1. TableInv' /\ MemInv' /\ Known' = Known /\ Desired' = Desired
  BY <1>0, Returning DEF Retirement, TableInv, MemInv, Known
<1>2. Recorded(table.act, Desired \cup Known) /\ Accounted(conns, Desired \cup Known)
  BY <1>0 DEF Retirement, CheckInv, Known, Recorded, Accounted, SameTuple
<1> QED BY <1>0, <1>1, <1>2, Failing

\* revokeNFTConnections: a spec leaves the list only when it has no entry.
LEMMA RevokeRetirement ==
  ASSUME TypeOK, Retirement, RevokeNone \/ RevokeDelete \/ RevokeRelist \/ RevokeFails
  PROVE  Retirement'
<1>0. /\ call \in Calls /\ mem' = mem /\ table' = table /\ conns' \subseteq conns
      /\ pc \in {"revoke", "relist"} /\ InCall
  BY DEF TypeOK, ControlType, RevokeNone, RevokeDelete, RevokeRelist, RevokeFails, kernelVars,
    Entries, InCall
<1>1. /\ Accounted(conns, Known) /\ table.act \subseteq mem.act /\ mem.act = call.tgt.act
      /\ mem.pen = call.pend /\ call.round = "stage" /\ Unmatched(conns, call.pend \ call.todo)
      /\ call.tgt.act \subseteq Desired
  BY <1>0 DEF Retirement, RevokeInv, CallInv
<1>2. ASSUME NEW label \in {"revoke", "relist"}, Goto(label), Unmatched(conns', call'.pend \ call'.todo),
             \E todo : call' = [call EXCEPT !.todo = todo]
      PROVE  Retirement'
  <2>1. /\ call'.next = call.next /\ call'.pend = call.pend /\ call'.sus = call.sus
        /\ call'.tgt = call.tgt /\ call'.perr = call.perr /\ call'.round = call.round
    BY <1>0, <1>2 DEF Calls
  <2>2. PlanInv' /\ DoneInv' /\ OutcomeInv' /\ Reported' /\ Desired' = Desired
    BY <1>0, <1>2, Moving
  <2>3. MemInv' /\ Known' = Known
    BY <1>0 DEF Retirement, MemInv, Known
  <2>4. TableInv'
    BY <1>0, Accounting DEF Retirement, TableInv
  <2>5. CallInv'
    BY <1>0, <1>2, <2>1, <2>2 DEF Retirement, CallInv, InCall, Goto
  <2>6. RevokeInv'
    BY <1>0, <1>1, <1>2, <2>1, <2>3, Accounting DEF RevokeInv
  <2>7. IdleInv' /\ AdmitInv' /\ PrepareInv' /\ VerifyInv' /\ CheckInv'
    BY <1>2 DEF Goto, IdleInv, AdmitInv, PrepareInv, VerifyInv, CheckInv
  <2> QED BY <2>2, <2>3, <2>4, <2>5, <2>6, <2>7 DEF Retirement
<1>3. CASE RevokeNone \/ RevokeRelist
  <2>1. /\ Entries(Current) = {} /\ call' = [call EXCEPT !.todo = call.todo \ {Current}]
        /\ Goto("revoke") /\ conns' = conns
    BY <1>3 DEF RevokeNone, RevokeRelist, kernelVars
  <2>2. call'.pend = call.pend /\ call'.todo = call.todo \ {Current}
    BY <1>0, <2>1 DEF Calls
  <2>3. Unmatched(conns', call'.pend \ call'.todo)
    BY <1>1, <2>1, <2>2 DEF Unmatched, Entries
  <2> QED BY <1>2, <2>1, <2>3
<1>4. CASE RevokeDelete
  <2>1. Goto("relist") /\ call' = call
    BY <1>4 DEF RevokeDelete
  <2>2. call' = [call EXCEPT !.todo = call.todo]
    BY <1>0, <2>1 DEF Calls
  <2>3. Unmatched(conns', call'.pend \ call'.todo)
    BY <1>0, <1>1, <2>1, Accounting
  <2> QED BY <1>2, <2>1, <2>2, <2>3
<1>5. CASE RevokeFails
  <2>1. Return("err") /\ UNCHANGED <<table, conns, mem>>
    BY <1>5 DEF RevokeFails, kernelVars
  <2>2. Recorded(table.act, Desired \cup Known) /\ Recorded(mem.act, Desired \cup mem.pen)
    BY <1>1 DEF Recorded, SameTuple
  <2> QED BY <1>1, <2>1, <2>2, QuietFailure
<1> QED BY <1>3, <1>4, <1>5

\* With every retired path verified absent, the final target crosses nothing.
LEMMA RevokeDoneRetirement ==
  ASSUME TypeOK, Retirement, HistoryKept', RevokeDone
  PROVE  Retirement'
<1>0. /\ call \in Calls /\ UNCHANGED <<mem, table, conns>> /\ pc = "revoke" /\ call.todo = {}
      /\ Goto("prepare")
  BY DEF TypeOK, ControlType, RevokeDone, kernelVars
<1>1. /\ call'.next = call.next /\ call'.pend = call.pend /\ call'.sus = call.sus
      /\ call'.perr = call.perr /\ call'.round = "final"
      /\ call'.tgt.act = call.next /\ call'.tgt.pen = {} /\ call'.tgt.sus = call.sus
  BY <1>0 DEF RevokeDone, FinalTarget, Calls
<1>2. /\ Accounted(conns, Known) /\ table.act \subseteq mem.act /\ mem.act = call.tgt.act
      /\ mem.pen = call.pend /\ Unmatched(conns, call.pend)
      /\ call.tgt.act \subseteq Desired /\ call.next \subseteq Desired /\ Wanted(call.sus, Desired)
      /\ ~call.perr
  <2>1. call.pend \ call.todo = call.pend
    BY <1>0
  <2> QED BY <1>0, <2>1 DEF Retirement, RevokeInv, CallInv, InCall
<1>3. PlanInv' /\ DoneInv' /\ OutcomeInv' /\ Reported' /\ Desired' = Desired
  BY <1>0, Moving
<1>4. TableInv' /\ MemInv' /\ Known' = Known
  BY <1>0 DEF Retirement, TableInv, MemInv, Known
<1>5. CallInv'
  BY <1>1, <1>2, <1>3 DEF CallInv
<1>6. Owned' = mem.act \cup mem.sus
  BY <1>0, <1>1 DEF Owned
<1>7. Accounted(conns, Owned')
  BY <1>2, <1>6 DEF Accounted, Unmatched, Known
<1>8. Recorded(table.act, Owned') /\ Recorded(mem.act, Desired \cup mem.pen)
  BY <1>2, <1>6 DEF Recorded, SameTuple
<1>9. Agree(call.next, Owned')
  <2>1. Recorded(mem.act \cup mem.sus, All(call'.tgt))
    BY <1>0 DEF HistoryKept, Goto
  <2>2. Apart(call.next, {})
    BY DEF Apart
  <2>3. Agree(call.next, call.next \cup {} \cup call.sus)
    BY <1>2, <2>2, DesiredAgrees, TargetAgrees DEF Retirement
  <2>4. All(call'.tgt) = call.next \cup {} \cup call.sus
    BY <1>1 DEF All
  <2> QED BY <1>6, <2>1, <2>3, <2>4, Agreement
<1>10. Agree(call.next, table.act) /\ Uncrossed(conns, call.next)
  BY <1>7, <1>8, <1>9, Agreement
<1>11. PrepareInv'
  BY <1>0, <1>1, <1>2, <1>3, <1>7, <1>8, <1>10 DEF PrepareInv
<1>12. IdleInv' /\ AdmitInv' /\ VerifyInv' /\ CheckInv' /\ RevokeInv'
  BY <1>0 DEF Goto, IdleInv, AdmitInv, VerifyInv, CheckInv, RevokeInv
<1> QED BY <1>3, <1>4, <1>5, <1>11, <1>12 DEF Retirement

\* Every step of the backend, its Manager and its environment.
LEMMA RetirementStep ==
  ASSUME TypeOK, Retirement, HistoryKept, HistoryKept', HistoryTrue', [Next]_vars
  PROVE  Retirement'
<1>1. CASE UNCHANGED vars
  <2>1. table' = table /\ conns' = conns /\ UNCHANGED <<mem, pc, call, plan, offload, done, outcome>>
    BY <1>1 DEF vars, kernelVars
  <2> QED BY <2>1, ShrinkStep
<1>2. CASE Environment
  BY <1>2, EnvironmentStep
<1>3. CASE \E P \in Plans : Reconcile(P)
  BY <1>3, ReconcileRetirement
<1>4. CASE ReconcileStep
  BY <1>4, HealthRetirement, RecoverRetirement, RefuseRetirement, AdmitRetirement,
    PrepareRetirement, ApplyRetirement, VerifyRetirement, ObjectsRetirement,
    CheckpointFailsRetirement, RevokeRetirement, RevokeDoneRetirement
  DEF ReconcileStep
<1> QED BY <1>1, <1>2, <1>3, <1>4 DEF Next

\* The invariant holds for as long as the history does.
LEMMA RetirementAlways == BackendSpec /\ [](HistoryKept /\ HistoryTrue) => []Retirement
BY InitRetirement, RetirementStep, TypeAlwaysCorrect, PTL DEF BackendSpec

\* As long as no transaction drops a record that memory holds and no unverified
\* history is untrue, Replace never lets a path admit connections where one to
\* an earlier target is still tracked, whatever crashes, reboots, flushes,
\* failed writes, timed-out transactions and policy changes occur.
THEOREM NeverMixed ==
  BackendSpec /\ [](HistoryKept /\ HistoryTrue) => []NoMixedAdmission
<1>1. Retirement => NoMixedAdmission
  BY DEF Retirement, TableInv, Uncrossed, NoMixedAdmission
<1> QED BY <1>1, RetirementAlways, PTL

\* Under the same hypotheses a Replace that reports success, or only a policy
\* suspension, has left no connection of a path the request does not contain,
\* and none appears afterwards.
THEOREM SuccessAlwaysRetires ==
  BackendSpec /\ [](HistoryKept /\ HistoryTrue) => []SuccessRetires
<1>1. Retirement => SuccessRetires
  BY DEF Retirement, OutcomeInv, Accounted, SuccessRetires
<1> QED BY <1>1, RetirementAlways, PTL

\* Under the same hypotheses an error return, but the one for an unreadable
\* hook inventory, reports every dropped path that is still admitted or tracked.
THEOREM UnretiredAlwaysReported ==
  BackendSpec /\ [](HistoryKept /\ HistoryTrue) => []UnretiredReported
<1>1. Retirement => UnretiredReported
  <2> SUFFICES ASSUME Retirement, outcome = "err", ~ReportedUnknown
               PROVE  /\ \A s \in Retired(table.act, Desired) : \E q \in Potential : SameTuple(q, s)
                      /\ \A c \in conns : \E q \in Desired \cup Potential : Matches(c, q)
    BY DEF UnretiredReported, UnretiredShown
  <2>1. Recorded(table.act, Desired \cup Potential) /\ Accounted(conns, Desired \cup Potential)
    BY DEF Retirement, Reported
  <2>2. ASSUME NEW s \in Retired(table.act, Desired)
        PROVE  \E q \in Potential : SameTuple(q, s)
    BY <2>1 DEF Recorded, Retired, SameTuple
  <2> QED BY <2>1, <2>2 DEF Accounted
<1> QED BY <1>1, RetirementAlways, PTL

-----------------------------------------------------------------------------
\* Where the hypotheses hold.  While no process dies in the middle of a call
\* and every readback, transaction and write of the recovery file succeeds,
\* memory, recovery file and table keep telling one story, and the history is
\* neither shortened nor adopted unverified: whatever else happens, the three
\* theorems above hold without a hypothesis on it.

Undisturbed == FaultKinds \cap {"observe", "disk", "apply", "crash"} = {}

\* Two paths of S that share an ingress are one path.
Distinct(S) == \A s \in S : \A t \in S : Touch(s, t) => SameTuple(s, t)

\* A path of S that touches a path of P is itself recorded in P.
Shielded(S, P) == \A s \in S : \A p \in P : Touch(s, p) => \E q \in P : SameTuple(q, s)

\* The recovery file holds what memory holds, and so does the table unless it
\* was flushed; or nothing was written on this boot and memory is empty.
Synced == disk.boot = "current" /\ disk.conf = MemSnapshot /\ table \in {Empty, MemSnapshot}
Virgin == disk.boot # "current" /\ MemSnapshot = Empty /\ (disk = NoRecord => table = Empty)

\* Without the tool nothing was ever admitted.
ToolInv == ~mem.tool => MemSnapshot = Empty /\ ~InCall /\ (pc = "admit" => conns = {})

\* Every path of this process carries its offload setting.
FlowInv == \A s \in mem.act \cup mem.sus \cup call.sus : s.flow = offload

CleanInv == Distinct(mem.act \cup mem.sus) /\ Shielded(mem.act \cup mem.sus, mem.pen)

TargetInv ==
  InCall => /\ ~call.perr /\ call.tgt.sus = call.sus /\ call.tgt.act \subseteq call.next
            /\ Shielded(call.sus, call.pend)

AppliedInv == mem.init => mem.applied.sus = mem.sus

SyncInv ==
  /\ pc \in {"idle", "health", "begin"} => Synced \/ Virgin
  /\ pc \in {"recover", "admit"} => Synced \/ (Virgin /\ disk = NoRecord)
  /\ pc = "prepare" /\ table # Empty => disk.boot = "current" /\ disk.conf = table
  /\ pc \in {"apply", "verify"} => disk.boot = "current" /\ disk.conf = MemSnapshot
  /\ pc \in {"verify", "checkpoint"} => disk.boot = "current" /\ table \in {Empty, call.tgt}
  /\ pc \in {"revoke", "relist"} => Synced /\ mem.sus = call.sus

Steady ==
  /\ HistoryKept /\ ToolInv /\ FlowInv /\ CleanInv /\ TargetInv /\ AppliedInv /\ SyncInv

\* A calm history is a true one: without the tool there is nothing to verify.
LEMMA CalmHistory == Steady => HistoryKept /\ HistoryTrue
BY DEF Steady, ToolInv, HistoryTrue, Accounted

\* Memory in which nothing is admitted is clean.
LEMMA EmptyClean ==
  ASSUME NEW S
  PROVE  Distinct({}) /\ Shielded({}, S) /\ Shielded(S, {})
BY DEF Distinct, Shielded

\* A fresh process on a clean host.
LEMMA InitCalm == Init => Steady
<1> SUFFICES ASSUME Init PROVE Steady
  OBVIOUS
<1>1. /\ MemSnapshot = Empty /\ mem.act = {} /\ mem.sus = {} /\ mem.pen = {} /\ call.sus = {}
      /\ ~mem.init /\ pc = "idle" /\ disk = NoRecord /\ disk.boot = "none" /\ table = Empty
  BY DEF Init, FreshMem, NoCall, NoRecord, MemSnapshot, Empty
<1>2. HistoryKept /\ ToolInv /\ FlowInv /\ TargetInv /\ AppliedInv
  BY <1>1 DEF HistoryKept, ToolInv, InCall, FlowInv, TargetInv, AppliedInv
<1>3. CleanInv
  BY <1>1, EmptyClean DEF CleanInv
<1>4. SyncInv
  BY <1>1 DEF SyncInv, Virgin
<1> QED BY <1>2, <1>3, <1>4 DEF Steady

\* A snapshot is its three sets.
LEMMA SnapshotFields ==
  ASSUME TypeOK
  PROVE  /\ \A s \in Snapshot : s = [act |-> s.act, pen |-> s.pen, sus |-> s.sus]
         /\ MemSnapshot \in Snapshot /\ call.tgt \in Snapshot /\ disk.conf \in Snapshot
         /\ table \in Snapshot
         /\ MemSnapshot = Empty <=> mem.act = {} /\ mem.pen = {} /\ mem.sus = {}
<1>1. \A s \in Snapshot : s = [act |-> s.act, pen |-> s.pen, sus |-> s.sus]
  BY DEF Snapshot
<1>2. /\ mem.act \in SUBSET Specs /\ mem.pen \in SUBSET Specs /\ mem.sus \in SUBSET Specs
      /\ call.tgt \in Snapshot /\ disk.conf \in Snapshot /\ table \in Snapshot
  BY DEF TypeOK, Memory, ControlType, Calls, StoreType, DiskRecords, KernelType
<1>3. MemSnapshot \in Snapshot
  BY <1>2 DEF MemSnapshot, Snapshot
<1>4. MemSnapshot = Empty <=> mem.act = {} /\ mem.pen = {} /\ mem.sus = {}
  BY DEF MemSnapshot, Empty
<1> QED BY <1>1, <1>2, <1>3, <1>4

\* Clients and administrator.
LEMMA EnvironmentCalm ==
  ASSUME TypeOK, Steady, table' \in {table, Empty},
         conns' \subseteq conns \/ table # Empty,
         UNCHANGED <<disk, mem, pc, call, offload>>
  PROVE  Steady'
<1>1. MemSnapshot' = MemSnapshot /\ InCall' = InCall /\ All(call.tgt)' = All(call.tgt)
  BY DEF MemSnapshot, InCall, All
<1>2. HistoryKept' /\ FlowInv' /\ CleanInv' /\ TargetInv' /\ AppliedInv'
  BY <1>1 DEF Steady, HistoryKept, FlowInv, CleanInv, TargetInv, AppliedInv
<1>3. SyncInv'
  BY <1>1 DEF Steady, SyncInv, Synced, Virgin
<1>4. ToolInv'
  <2>1. ASSUME ~mem.tool, pc = "admit" PROVE table = Empty /\ conns = {}
    BY <2>1 DEF Steady, ToolInv, SyncInv, Synced, Virgin
  <2> QED BY <1>1, <2>1 DEF Steady, ToolInv
<1> QED BY <1>2, <1>3, <1>4 DEF Steady

\* A reboot: a record of this boot becomes one of an earlier boot.
LEMMA RebootCalm ==
  ASSUME TypeOK, Steady, Reboot
  PROVE  Steady'
<1>0. disk \in DiskRecords /\ (disk.boot = "none") = (disk = NoRecord)
  BY DEF TypeOK, StoreType
<1>1. /\ mem' = FreshMem /\ call' = NoCall /\ pc' = "idle" /\ table' \in {table, Empty}
      /\ disk' = [disk EXCEPT !.boot = IF disk = NoRecord THEN "none" ELSE "previous"]
  BY DEF Reboot, Restart
<1>2. /\ MemSnapshot' = Empty /\ mem'.act = {} /\ mem'.sus = {} /\ mem'.pen = {} /\ call'.sus = {}
      /\ ~mem'.init
  BY <1>1 DEF FreshMem, NoCall, MemSnapshot, Empty
<1>3. HistoryKept' /\ ToolInv' /\ FlowInv' /\ TargetInv' /\ AppliedInv'
  BY <1>1, <1>2 DEF HistoryKept, ToolInv, InCall, FlowInv, TargetInv, AppliedInv
<1>4. CleanInv'
  BY <1>2, EmptyClean DEF CleanInv
<1>5. disk'.boot # "current" /\ (disk' = NoRecord => disk = NoRecord)
  BY <1>0, <1>1 DEF DiskRecords, NoRecord
<1>6. disk = NoRecord => table = Empty
  <2>1. disk = NoRecord => disk.boot # "current"
    BY DEF NoRecord
  <2>2. pc \in PCs
    BY DEF TypeOK, ControlType
  <2> QED BY <2>1, <2>2 DEF Steady, SyncInv, Synced, Virgin, PCs
<1>7. SyncInv'
  BY <1>1, <1>2, <1>5, <1>6 DEF SyncInv, Virgin
<1> QED BY <1>3, <1>4, <1>7 DEF Steady

\* Before the admission gate nothing but the stage of the call changes.
LEMMA EarlyCalm ==
  ASSUME TypeOK, Steady, pc \in {"idle", "health", "begin", "recover", "admit"},
         pc' \in {"idle", "health", "begin"}, call' = NoCall,
         UNCHANGED <<table, offload>>,
         disk' = disk \/ (disk' = NoRecord /\ OldBoot /\ table = Empty),
         mem'.act = mem.act, mem'.pen = mem.pen, mem'.sus = mem.sus,
         mem'.init => mem.init /\ mem'.applied = mem.applied, mem.tool => mem'.tool
  PROVE  Steady'
<1>1. MemSnapshot' = MemSnapshot /\ call'.sus = {} /\ ~InCall'
  BY DEF MemSnapshot, NoCall, InCall
<1>2. HistoryKept' /\ ToolInv' /\ FlowInv' /\ TargetInv' /\ AppliedInv'
  BY <1>1 DEF Steady, HistoryKept, ToolInv, FlowInv, TargetInv, AppliedInv
<1>3. CleanInv'
  BY DEF Steady, CleanInv
<1>4. Synced \/ Virgin
  BY DEF Steady, SyncInv
<1>5. OldBoot => Virgin
  <2>1. OldBoot => disk.boot # "current"
    BY DEF OldBoot, NoRecord
  <2> QED BY <1>4, <2>1 DEF Synced
<1>6. NoRecord.boot # "current"
  BY DEF NoRecord
<1>7. Synced' \/ Virgin'
  BY <1>1, <1>4, <1>5, <1>6 DEF Synced, Virgin
<1>8. SyncInv'
  BY <1>7 DEF SyncInv
<1> QED BY <1>2, <1>3, <1>8 DEF Steady

\* Healthy, the entry of Replace, and the errors before a target is computed.
LEMMA HealthCalm ==
  ASSUME TypeOK, Steady,
         \/ \E P \in Plans : Reconcile(P)
         \/ AlreadyHealthy \/ HealthFails \/ Replace \/ BeginFails \/ RecoverFails
         \/ AdmitNothing \/ AdmitUnreadable
  PROVE  Steady'
<1>0. mem \in Memory
  BY DEF TypeOK
<1>1. /\ pc \in {"idle", "health", "begin", "recover", "admit"} /\ pc' \in {"idle", "health", "begin"}
      /\ UNCHANGED <<table, offload>>
  BY DEF Reconcile, AlreadyHealthy, HealthFails, Replace, BeginFails, RecoverFails, AdmitNothing,
    AdmitUnreadable, kernelVars, Return, Goto
<1>2. call' = NoCall
  <2>1. call = NoCall
    BY <1>1 DEF TypeOK, ControlType
  <2> QED BY <2>1 DEF Reconcile, AlreadyHealthy, HealthFails, Replace, BeginFails, RecoverFails,
        AdmitNothing, AdmitUnreadable, Return
<1>3. disk' = disk \/ (disk' = NoRecord /\ OldBoot /\ table = Empty)
  BY DEF Reconcile, AlreadyHealthy, HealthFails, Replace, BeginFails, RecoverFails, AdmitNothing,
    AdmitUnreadable, diskVars, NewBootScopeClean
<1>4. /\ mem'.act = mem.act /\ mem'.pen = mem.pen /\ mem'.sus = mem.sus
      /\ mem'.init => mem.init /\ mem'.applied = mem.applied
      /\ mem.tool => mem'.tool
  BY <1>0 DEF Reconcile, AlreadyHealthy, HealthFails, Replace, BeginFails, RecoverFails, AdmitNothing,
    AdmitUnreadable, Memory
<1> QED BY <1>1, <1>2, <1>3, <1>4, EarlyCalm

\* In a calm state recovery finds what memory already holds.
LEMMA RecoveredCalm ==
  ASSUME TypeOK, Steady, pc = "recover"
  PROVE  Recovered = MemSnapshot
<1>1. \A A : Merge(A, A) = A /\ Merge(A, {}) = A
  BY DEF Merge, SameTuple
<1>2. CASE Synced
  BY <1>1, <1>2 DEF Synced, Recovered, MemSnapshot, Empty
<1>3. CASE Virgin /\ disk = NoRecord
  BY <1>1, <1>3 DEF Virgin, Recovered, MemSnapshot, Empty, NoRecord
<1> QED BY <1>2, <1>3 DEF Steady, SyncInv

\* The disk session, and recovery.
LEMMA RecoverCalm ==
  ASSUME TypeOK, Steady,
         \/ BeginCurrentBoot \/ BeginRollover
         \/ RecoverUnchanged \/ RecoverHistory \/ RecoverUnverified
  PROVE  Steady'
<1>0. /\ mem \in Memory /\ disk \in DiskRecords /\ (disk.boot = "none") = (disk = NoRecord)
      /\ call = NoCall /\ call' = NoCall /\ UNCHANGED <<table, conns, offload>>
  BY DEF TypeOK, ControlType, StoreType, BeginCurrentBoot, BeginRollover, RecoverUnchanged,
    RecoverHistory, RecoverUnverified, kernelVars, Goto
<1>1. ASSUME pc' \in {"recover", "admit"}, FlowInv', CleanInv', AppliedInv', ToolInv',
             Synced' \/ (Virgin' /\ disk' = NoRecord)
      PROVE  Steady'
  BY <1>1 DEF Steady, HistoryKept, TargetInv, InCall, SyncInv
<1>2. CASE BeginCurrentBoot
  <2>1. pc = "begin" /\ pc' = "recover" /\ UNCHANGED <<mem, disk>> /\ ~OldBoot
    BY <1>2 DEF BeginCurrentBoot, Goto, diskVars
  <2>2. FlowInv' /\ CleanInv' /\ AppliedInv' /\ MemSnapshot' = MemSnapshot
    BY <1>0, <2>1 DEF Steady, FlowInv, CleanInv, AppliedInv, MemSnapshot
  <2>3. ToolInv'
    BY <2>1, <2>2 DEF Steady, ToolInv, InCall
  <2>4. Synced \/ (Virgin /\ disk = NoRecord)
    <3>1. disk.boot # "previous"
      BY <2>1 DEF OldBoot
    <3>2. disk.boot \in {"none", "current", "previous"}
      BY <1>0 DEF DiskRecords
    <3> QED BY <1>0, <2>1, <3>1, <3>2 DEF Steady, SyncInv, Virgin
  <2>5. Synced' \/ (Virgin' /\ disk' = NoRecord)
    BY <1>0, <2>1, <2>2, <2>4 DEF Synced, Virgin
  <2> QED BY <1>1, <2>1, <2>2, <2>3, <2>5
<1>3. CASE BeginRollover
  <2>1. /\ pc' = "recover" /\ disk' = NoRecord /\ table' = Empty /\ ~mem'.init
        /\ mem'.act = {} /\ mem'.pen = {} /\ mem'.sus = {}
    BY <1>0, <1>3 DEF BeginRollover, Goto, NewBootScopeClean, Cleared, Memory
  <2>2. MemSnapshot' = Empty /\ NoCall.sus = {}
    BY <2>1 DEF MemSnapshot, Empty, NoCall
  <2>3. FlowInv' /\ AppliedInv' /\ ToolInv'
    BY <1>0, <2>1, <2>2 DEF FlowInv, AppliedInv, ToolInv, InCall
  <2>4. CleanInv'
    BY <2>1, EmptyClean DEF CleanInv
  <2>5. Virgin'
    BY <2>1, <2>2 DEF Virgin, NoRecord
  <2> QED BY <1>1, <2>1, <2>3, <2>4, <2>5
<1>4. CASE RecoverUnchanged \/ RecoverHistory \/ RecoverUnverified
  <2>1. pc = "recover" /\ pc' = "admit" /\ disk' = disk
    BY <1>4 DEF RecoverUnchanged, RecoverHistory, RecoverUnverified, Goto, diskVars
  <2>2. Recovered = MemSnapshot
    BY <2>1, RecoveredCalm
  <2>3. ~mem.tool => MemSnapshot = Empty /\ table = Empty
    BY <2>1 DEF Steady, ToolInv, SyncInv, Synced, Virgin
  <2>4. ~RecoverUnverified
    BY <2>2, <2>3 DEF RecoverUnverified
  <2>5. /\ mem'.act = mem.act /\ mem'.pen = mem.pen /\ mem'.sus = mem.sus /\ mem'.tool = mem.tool
        /\ ~mem.tool => conns = {}
        /\ mem'.init => mem'.applied.sus = mem'.sus
    <3>1. CASE RecoverUnchanged
      BY <2>3, <3>1 DEF RecoverUnchanged, Unchanged, Steady, AppliedInv
    <3>2. CASE RecoverHistory
      <4>1. Adopt(Recovered, FALSE, Adopted(Recovered)) /\ (~mem.tool => conns = {})
        BY <3>2 DEF RecoverHistory
      <4>2. Adopted(Recovered) => table = MemSnapshot
        BY <2>2 DEF Adopted
      <4>3. /\ mem'.act = Recovered.act /\ mem'.pen = Recovered.pen /\ mem'.sus = Recovered.sus
            /\ mem'.tool = mem.tool /\ mem'.init = Adopted(Recovered)
            /\ Adopted(Recovered) => mem'.applied = table
        BY <1>0, <4>1 DEF Adopt, Memory
      <4> QED BY <2>2, <4>1, <4>2, <4>3 DEF MemSnapshot
    <3> QED BY <1>4, <2>4, <3>1, <3>2
  <2>6. MemSnapshot' = MemSnapshot /\ FlowInv' /\ CleanInv' /\ AppliedInv'
    BY <1>0, <2>5 DEF MemSnapshot, Steady, FlowInv, CleanInv, AppliedInv
  <2>7. ToolInv'
    BY <1>0, <2>1, <2>3, <2>5, <2>6 DEF ToolInv, InCall
  <2>8. Synced' \/ (Virgin' /\ disk' = NoRecord)
    BY <1>0, <2>1, <2>6 DEF Steady, SyncInv, Synced, Virgin
  <2> QED BY <1>1, <2>1, <2>6, <2>7, <2>8
<1> QED BY <1>2, <1>3, <1>4

\* The retirement difference shields what memory holds, and the first target
\* of a call keeps a record of all of it.
LEMMA AdmitCalm ==
  ASSUME TypeOK, Retirement, Steady, Admit
  PROVE  Steady'
<1>0. /\ mem \in Memory /\ pc = "admit" /\ pc' = "prepare"
      /\ UNCHANGED <<table, conns, disk, plan, offload>>
  BY DEF TypeOK, Admit, kernelVars, diskVars, Goto
<1> DEFINE Held == mem.act \cup mem.sus
<1>1. /\ mem'.act = mem.act /\ mem'.sus = mem.sus /\ mem'.pen = Pending /\ mem'.tool = mem.tool
      /\ mem'.applied = mem.applied /\ (mem'.init => mem.init)
  BY <1>0 DEF Admit, Memory
<1>2. /\ call'.next = Admissible /\ call'.pend = Pending /\ call'.sus = Suspended
      /\ ~call'.perr /\ call'.tgt.pen = Pending /\ call'.tgt.sus = Suspended
      /\ call'.tgt.act = IF Pending # {} THEN Gate(Admissible, Pending) ELSE Admissible
  BY DEF Admit, NoCall, StageTarget, FinalTarget
<1>3. mem.tool
  <2> SUFFICES ASSUME ~mem.tool PROVE FALSE
    OBVIOUS
  <2>1. mem.act = {} /\ mem.pen = {} /\ mem.sus = {}
    BY SnapshotFields DEF Steady, ToolInv
  <2>2. History = {}
    BY <2>1 DEF History, Merge
  <2>3. Pending = {}
    BY <2>1, <2>2 DEF Pending, Merge, Retired
  <2> QED BY <2>2, <2>3 DEF Admit, NothingToRetain
<1>4. /\ History \subseteq Held /\ Suspended \subseteq Held
      /\ Retired(History, Desired) \subseteq Held
      /\ Retired(History, Desired) \subseteq Pending
      /\ Pending \subseteq mem.pen \cup Retired(History, Desired)
      /\ Recorded(Held, History) /\ Recorded(mem.pen, Pending)
  BY Merging, PendingRecords DEF History, Suspended, Gate, Retired, Pending
<1>5. Distinct(Held) /\ Shielded(Held, mem.pen) /\ \A s \in Held : s.flow = offload
  BY DEF Steady, CleanInv, FlowInv
<1>6. Shielded(Held, Pending)
  <2> SUFFICES ASSUME NEW s \in Held, NEW p \in Pending, Touch(s, p)
               PROVE  \E q \in Pending : SameTuple(q, s)
    BY DEF Shielded
  <2>1. CASE p \in mem.pen
    <3>1. PICK q \in mem.pen : SameTuple(q, s)
      BY <1>5, <2>1 DEF Shielded
    <3>2. PICK r \in Pending : SameTuple(r, q)
      BY <1>4 DEF Recorded
    <3> QED BY <3>1, <3>2 DEF SameTuple
  <2>2. CASE p \in Retired(History, Desired)
    <3>1. SameTuple(s, p)
      BY <1>4, <1>5, <2>2 DEF Distinct
    <3> QED BY <3>1 DEF SameTuple
  <2> QED BY <1>4, <2>1, <2>2
<1>7. Recorded(Held, All(call'.tgt))
  <2> SUFFICES ASSUME NEW s \in Held
               PROVE  \E q \in All(call'.tgt) : SameTuple(q, s)
    BY DEF Recorded
  <2>1. PICK h \in History : SameTuple(h, s)
    BY <1>4 DEF Recorded
  <2>2. CASE \E p \in Pending : Touch(s, p) \/ SameTuple(s, p)
    <3>1. \E q \in Pending : SameTuple(q, s)
      BY <1>6, <2>2 DEF Shielded, SameTuple
    <3> QED BY <1>2, <3>1 DEF All
  <2>3. CASE \A p \in Pending : ~Touch(s, p) /\ ~SameTuple(s, p)
    <3>1. h \notin Retired(History, Desired)
      BY <1>4, <2>1, <2>3 DEF SameTuple
    <3>2. PICK d \in Desired : SameTuple(h, d)
      BY <3>1 DEF Retired
    <3>3. \A p \in Pending : ~Touch(d, p) /\ ~Touch(h, p)
      BY <2>1, <2>3, <3>2 DEF Touch, SameTuple
    <3>4. d.flow = offload /\ h.flow = offload /\ d.fam = h.fam
      BY <1>4, <1>5, <3>2 DEF Desired, Spec, SameTuple
    <3>5. CASE Affects(Rejection, d)
      <4>1. Affects(Rejection, h)
        BY <3>4, <3>5 DEF Affects
      <4>2. h \in Gate(History, Retired(History, Desired))
        BY <1>4, <3>3 DEF Gate, Overlap, Touch
      <4>3. h \in Suspended
        BY <4>1, <4>2 DEF Suspended
      <4> QED BY <1>2, <2>1, <4>3 DEF All
    <3>6. CASE ~Affects(Rejection, d)
      <4>1. d \in Admissible
        BY <1>3, <3>6 DEF Admissible
      <4>2. d \in Gate(Admissible, Pending)
        BY <3>3, <4>1 DEF Gate, Overlap, Touch
      <4>3. d \in call'.tgt.act
        BY <1>2, <4>1, <4>2
      <4>4. SameTuple(d, s)
        BY <2>1, <3>2 DEF SameTuple
      <4> QED BY <4>3, <4>4 DEF All
    <3> QED BY <3>5, <3>6
  <2> QED BY <2>2, <2>3
<1>8. HistoryKept'
  BY <1>1, <1>7 DEF HistoryKept, All
<1>9. ToolInv' /\ AppliedInv'
  BY <1>1, <1>3 DEF ToolInv, Steady, AppliedInv
<1>10. FlowInv'
  BY <1>0, <1>1, <1>2, <1>4, <1>5 DEF FlowInv
<1>11. CleanInv'
  BY <1>1, <1>5, <1>6 DEF CleanInv
<1>12. TargetInv'
  <2>1. Shielded(Suspended, Pending)
    BY <1>4, <1>6 DEF Shielded
  <2>2. call'.tgt.act \subseteq call'.next
    BY <1>2 DEF Gate
  <2> QED BY <1>2, <2>1, <2>2 DEF TargetInv
<1>13. SyncInv'
  <2>1. Synced \/ (Virgin /\ disk = NoRecord)
    BY <1>0 DEF Steady, SyncInv
  <2>2. table # Empty => disk.boot = "current" /\ disk.conf = table
    BY <2>1 DEF Synced, Virgin
  <2> QED BY <1>0, <2>2 DEF SyncInv
<1> QED BY <1>8, <1>9, <1>10, <1>11, <1>12, <1>13 DEF Steady

\* A confirmed target is clean: it admits and suspends paths of one plan, and
\* retires none that it touches without recording it.
LEMMA TargetClean ==
  ASSUME Retirement, Steady, InCall
  PROVE  /\ Distinct(call.tgt.act \cup call.tgt.sus)
         /\ Shielded(call.tgt.act \cup call.tgt.sus, call.tgt.pen)
         /\ \A s \in call.tgt.act \cup call.tgt.sus : s.flow = offload
<1>0. /\ call.tgt.act \subseteq Desired /\ Wanted(call.tgt.sus, Desired)
      /\ ~call.perr /\ call.tgt.pen = IF call.round = "stage" THEN call.pend ELSE {}
      /\ call.round = "stage" => Apart(call.tgt.act, call.pend)
      /\ call.tgt.sus = call.sus /\ Shielded(call.sus, call.pend)
  BY DEF Retirement, CallInv, Steady, TargetInv
<1>1. Distinct(call.tgt.act \cup call.tgt.sus)
  <2> SUFFICES ASSUME NEW s \in call.tgt.act \cup call.tgt.sus,
                      NEW t \in call.tgt.act \cup call.tgt.sus, Touch(s, t)
               PROVE  SameTuple(s, t)
    BY DEF Distinct
  <2>1. Covers[s.in] # {} /\ Covers[t.in] # {}
    BY DEF Touch
  <2>2. PICK d \in Desired : SameTuple(d, s)
    BY <1>0, <2>1 DEF Wanted, SameTuple
  <2>3. PICK e \in Desired : SameTuple(e, t)
    BY <1>0, <2>1 DEF Wanted, SameTuple
  <2>4. PICK p \in plan, q \in plan : d = Spec(p, offload) /\ e = Spec(q, offload)
    BY DEF Desired
  <2>5. p = q
    BY <2>2, <2>3, <2>4 DEF Touch, SameTuple, Spec, Retirement, PlanInv
  <2> QED BY <2>2, <2>3, <2>4, <2>5 DEF SameTuple
<1>2. Shielded(call.tgt.act \cup call.tgt.sus, call.tgt.pen)
  <2>1. CASE call.round = "stage"
    BY <1>0, <2>1 DEF Shielded, Apart
  <2>2. CASE call.round # "stage"
    BY <1>0, <2>2 DEF Shielded
  <2> QED BY <2>1, <2>2
<1>3. \A s \in call.tgt.act \cup call.tgt.sus : s.flow = offload
  BY <1>0 DEF Desired, Spec, Steady, FlowInv
<1> QED BY <1>1, <1>2, <1>3

\* A return from inside a call leaves memory, file and table in step.
LEMMA ReturnCalm ==
  ASSUME Steady, InCall, NEW result, Return(result), Synced', CleanInv', AppliedInv',
         \A s \in mem'.act \cup mem'.sus : s.flow = offload,
         mem.tool => mem'.tool
  PROVE  Steady'
<1>1. pc' = "idle" /\ call'.sus = {} /\ offload' = offload /\ mem.tool
  BY DEF Return, NoCall, Steady, ToolInv
<1>2. HistoryKept' /\ ToolInv' /\ FlowInv' /\ TargetInv' /\ SyncInv'
  BY <1>1 DEF HistoryKept, ToolInv, FlowInv, TargetInv, InCall, SyncInv
<1> QED BY <1>2 DEF Steady

\* Intent, transaction and readback.
LEMMA TransactionCalm ==
  ASSUME TypeOK, Retirement, Steady, Undisturbed,
         ObserveFails \/ Prepare \/ PrepareFails \/ Apply \/ ApplyFails \/ Verify \/ VerifyFails
  PROVE  Steady'
<1>0. /\ mem \in Memory /\ call \in Calls /\ InCall /\ mem.tool
      /\ FlowInv /\ CleanInv /\ AppliedInv /\ TargetInv
  BY DEF TypeOK, ControlType, ObserveFails, Prepare, PrepareFails, Apply, ApplyFails, Verify,
    VerifyFails, InCall, Steady, ToolInv
<1>1. ~ObserveFails /\ ~PrepareFails /\ ~Fault("apply") /\ ~Fault("observe")
  BY DEF Undisturbed, ObserveFails, PrepareFails, Fault
<1>2. CASE Prepare
  <2>1. /\ pc' = "apply" /\ ~call'.perr /\ call'.next = call.next /\ call'.pend = call.pend
        /\ call'.sus = call.sus /\ call'.tgt = call.tgt /\ pc = "prepare"
        /\ mem' = mem /\ offload' = offload /\ disk' = DiskRecord("prepare", MemSnapshot)
    BY <1>0, <1>2 DEF Prepare, Calls, Goto
  <2>2. HistoryKept' /\ ToolInv' /\ FlowInv' /\ CleanInv' /\ AppliedInv' /\ TargetInv'
    BY <1>0, <2>1 DEF Steady, HistoryKept, All, ToolInv, FlowInv, CleanInv, AppliedInv, TargetInv, InCall
  <2>3. SyncInv'
    BY <2>1 DEF SyncInv, DiskRecord, MemSnapshot
  <2> QED BY <2>2, <2>3 DEF Steady
<1>3. CASE Apply
  <2>1. /\ pc' = "verify" /\ call' = call /\ pc = "apply" /\ mem' = mem /\ offload' = offload
        /\ disk' = disk /\ table' = call.tgt
    BY <1>3 DEF Apply, Goto, diskVars
  <2>2. HistoryKept' /\ ToolInv' /\ FlowInv' /\ CleanInv' /\ AppliedInv' /\ TargetInv'
    BY <1>0, <2>1 DEF Steady, HistoryKept, ToolInv, FlowInv, CleanInv, AppliedInv, TargetInv, InCall
  <2>3. SyncInv'
    BY <2>1 DEF Steady, SyncInv, MemSnapshot
  <2> QED BY <2>2, <2>3 DEF Steady
<1>4. CASE ApplyFails
  <2>1. /\ pc = "apply" /\ mem' = mem /\ disk' = disk /\ table' = Empty /\ Return("err")
    BY <1>1, <1>4 DEF ApplyFails, diskVars
  <2>2. Synced' /\ CleanInv' /\ AppliedInv'
    BY <1>0, <2>1 DEF Steady, SyncInv, Synced, MemSnapshot, CleanInv, AppliedInv
  <2> QED BY <1>0, <2>1, <2>2, ReturnCalm DEF FlowInv
<1>5. CASE Verify
  <2>1. /\ mem'.act = call.tgt.act /\ mem'.pen = call.tgt.pen /\ mem'.sus = call.tgt.sus
        /\ mem'.applied = call.tgt /\ (mem.tool => mem'.tool)
    BY <1>5, ConfirmedFields DEF Verify
  <2>2. /\ pc' = "checkpoint" /\ call' = call /\ table = call.tgt /\ UNCHANGED <<table, disk, offload>>
        /\ pc = "verify"
    BY <1>0, <1>5 DEF Verify, TargetInv, Goto, kernelVars, diskVars
  <2>3. CleanInv' /\ AppliedInv' /\ FlowInv'
    BY <1>0, <2>1, <2>2, TargetClean DEF CleanInv, AppliedInv, FlowInv
  <2>4. HistoryKept' /\ ToolInv' /\ TargetInv'
    BY <1>0, <2>1, <2>2 DEF HistoryKept, ToolInv, TargetInv, InCall
  <2>5. SyncInv'
    BY <2>2 DEF Steady, SyncInv
  <2> QED BY <2>3, <2>4, <2>5 DEF Steady
<1>6. CASE VerifyFails
  <2>1. /\ pc = "verify" /\ table # call.tgt /\ Return("err") /\ UNCHANGED <<table, disk>>
        /\ ~mem'.init /\ mem'.act = mem.act /\ mem'.pen = mem.pen /\ mem'.sus = mem.sus
        /\ mem'.tool = mem.tool
    BY <1>0, <1>1, <1>6 DEF VerifyFails, kernelVars, diskVars, Memory
  <2>2. Synced' /\ CleanInv' /\ AppliedInv'
    BY <1>0, <2>1 DEF Steady, SyncInv, Synced, MemSnapshot, CleanInv, AppliedInv
  <2> QED BY <1>0, <2>1, <2>2, ReturnCalm DEF FlowInv
<1> QED BY <1>1, <1>2, <1>3, <1>4, <1>5, <1>6

\* A confirmed target is in the recovery file, and what follows it.
LEMMA ObjectsCalm ==
  ASSUME TypeOK, Retirement, Steady, SkipApplied \/ Checkpoint
  PROVE  Steady'
<1>0. /\ mem \in Memory /\ call \in Calls /\ InCall /\ mem.tool /\ AfterObjects(mem)
      /\ table' = table /\ FlowInv /\ CleanInv /\ AppliedInv /\ TargetInv
      /\ call.tgt.pen = IF call.round = "stage" THEN call.pend ELSE {}
  BY DEF TypeOK, ControlType, SkipApplied, Checkpoint, InCall, Steady, ToolInv, TargetInv, kernelVars,
    Retirement, CallInv
<1>1. /\ mem.act = call.tgt.act /\ mem.sus = call.tgt.sus
      /\ call.round = "stage" => mem.pen = call.tgt.pen
      /\ disk'.boot = "current" /\ disk'.conf = call.tgt /\ table \in {Empty, call.tgt}
  <2>1. CASE SkipApplied
    BY <1>0, <2>1 DEF SkipApplied, AlreadyApplied, diskVars, Steady, SyncInv, AppliedInv, Retirement,
      MemInv, PrepareInv
  <2>2. CASE Checkpoint
    BY <1>0, <2>2 DEF Checkpoint, DiskRecord, Steady, SyncInv, Retirement, CheckInv
  <2> QED BY <2>1, <2>2
<1>2. call.tgt = [act |-> call.tgt.act, pen |-> call.tgt.pen, sus |-> call.tgt.sus]
  BY SnapshotFields
<1>3. ASSUME mem'.act = mem.act, mem'.sus = mem.sus, mem'.pen = call.tgt.pen
      PROVE  Synced'
  BY <1>0, <1>1, <1>2, <1>3 DEF Synced, MemSnapshot
<1>4. CASE call.round = "stage"
  <2>1. /\ mem'.act = mem.act /\ mem'.pen = mem.pen /\ mem'.sus = mem.sus /\ mem'.tool = mem.tool
        /\ mem'.init = mem.init /\ mem'.applied = mem.applied
        /\ call'.next = call.next /\ call'.pend = call.pend /\ call'.sus = call.sus
        /\ call'.tgt = call.tgt /\ call'.perr = call.perr
        /\ pc' = "revoke" /\ offload' = offload
    <3>1. /\ mem' = [mem EXCEPT !.pol = call.adm] /\ call' = [call EXCEPT !.todo = call.pend]
          /\ pc' = "revoke" /\ offload' = offload
      BY <1>0, <1>4 DEF AfterObjects, Goto
    <3> QED BY <1>0, <3>1 DEF Memory, Calls
  <2>2. Synced' /\ mem'.sus = call'.sus
    BY <1>0, <1>1, <1>3, <1>4, <2>1 DEF TargetInv
  <2>3. HistoryKept' /\ ToolInv' /\ FlowInv' /\ CleanInv' /\ AppliedInv' /\ TargetInv'
    BY <1>0, <2>1 DEF HistoryKept, ToolInv, FlowInv, CleanInv, AppliedInv, TargetInv, InCall
  <2>4. SyncInv'
    BY <2>1, <2>2 DEF SyncInv
  <2> QED BY <2>3, <2>4 DEF Steady
<1>5. CASE call.round # "stage"
  <2>1. /\ mem'.act = mem.act /\ mem'.pen = {} /\ mem'.sus = mem.sus /\ mem'.tool = mem.tool
        /\ mem'.init = mem.init /\ mem'.applied = mem.applied
        /\ Return("ok") \/ Return("dep") \/ Return("suspended")
    BY <1>0, <1>5 DEF AfterObjects, Memory
  <2>2. Synced'
    BY <1>0, <1>3, <1>5, <2>1
  <2>3. CleanInv' /\ AppliedInv'
    BY <1>0, <2>1, EmptyClean DEF CleanInv, AppliedInv
  <2> QED BY <1>0, <2>1, <2>2, <2>3, ReturnCalm DEF FlowInv
<1> QED BY <1>4, <1>5

\* Revocation deletes entries and touches neither memory, file nor table.
LEMMA RevokeCalm ==
  ASSUME TypeOK, Retirement, Steady,
         RevokeNone \/ RevokeDelete \/ RevokeRelist \/ RevokeFails \/ RevokeDone
  PROVE  Steady'
<1>0. /\ call \in Calls /\ InCall /\ mem.tool /\ pc \in {"revoke", "relist"}
      /\ UNCHANGED <<mem, table, disk, offload>>
      /\ FlowInv /\ CleanInv /\ AppliedInv /\ TargetInv /\ Synced /\ mem.sus = call.sus
  BY DEF TypeOK, ControlType, RevokeNone, RevokeDelete, RevokeRelist, RevokeFails, RevokeDone, InCall,
    Steady, ToolInv, SyncInv, kernelVars, diskVars, Goto, Return
<1>1. Synced' /\ CleanInv' /\ AppliedInv'
  BY <1>0 DEF Synced, MemSnapshot, CleanInv, AppliedInv
<1>2. CASE RevokeNone \/ RevokeDelete \/ RevokeRelist
  <2>1. call' = call \/ call' = [call EXCEPT !.todo = call.todo \ {Current}]
    BY <1>2 DEF RevokeNone, RevokeDelete, RevokeRelist
  <2>2. /\ pc' \in {"revoke", "relist"} /\ call'.next = call.next /\ call'.pend = call.pend
        /\ call'.sus = call.sus /\ call'.tgt = call.tgt /\ call'.perr = call.perr
    BY <1>0, <1>2, <2>1 DEF RevokeNone, RevokeDelete, RevokeRelist, Goto, Calls
  <2>3. HistoryKept' /\ ToolInv' /\ FlowInv' /\ TargetInv'
    BY <1>0, <2>2 DEF HistoryKept, ToolInv, FlowInv, TargetInv, InCall
  <2>4. SyncInv'
    BY <1>0, <1>1, <2>2 DEF SyncInv
  <2> QED BY <1>1, <2>3, <2>4 DEF Steady
<1>3. CASE RevokeFails
  <2>1. Return("err")
    BY <1>3 DEF RevokeFails
  <2> QED BY <1>0, <1>1, <2>1, ReturnCalm DEF FlowInv
<1>4. CASE RevokeDone
  <2>1. /\ pc' = "prepare" /\ call'.next = call.next /\ call'.pend = call.pend
        /\ call'.sus = call.sus /\ call'.perr = call.perr
        /\ call'.tgt.act = call.next /\ call'.tgt.pen = {} /\ call'.tgt.sus = call.sus
    BY <1>0, <1>4 DEF RevokeDone, FinalTarget, Goto, Calls
  <2>2. ToolInv' /\ FlowInv' /\ TargetInv'
    BY <1>0, <2>1 DEF ToolInv, FlowInv, TargetInv, InCall
  <2>3. HistoryKept'
    <3>1. mem.act \subseteq call.next
      BY <1>0 DEF TargetInv, Retirement, RevokeInv
    <3>2. mem.act \cup mem.sus \subseteq All(call'.tgt)
      BY <1>0, <2>1, <3>1 DEF All
    <3>3. Recorded(mem.act \cup mem.sus, All(call'.tgt))
      BY <3>2, Recording
    <3> QED BY <1>0, <3>3 DEF HistoryKept, All
  <2>4. SyncInv'
    BY <1>0, <2>1 DEF SyncInv, Synced
  <2> QED BY <1>1, <2>2, <2>3, <2>4 DEF Steady
<1> QED BY <1>2, <1>3, <1>4

\* Every step without a disturbance keeps a calm history calm.
LEMMA CalmStep ==
  ASSUME TypeOK, Retirement, Steady, Undisturbed, [Next]_vars
  PROVE  Steady'
<1>1. CASE UNCHANGED vars
  <2>1. UNCHANGED <<table, conns, disk, mem, pc, call, offload>>
    BY <1>1 DEF vars, kernelVars, diskVars
  <2> QED BY <2>1, EnvironmentCalm
<1>2. CASE OpenConn \/ CloseConn \/ InstallTool \/ PolicyChange \/ FlushRuleset
  <2>1. /\ table' \in {table, Empty} /\ UNCHANGED <<disk, mem, pc, call, offload>>
    BY <1>2 DEF OpenConn, CloseConn, InstallTool, PolicyChange, FlushRuleset, kernelVars, diskVars
  <2>2. conns' \subseteq conns \/ table # Empty
    BY <1>2 DEF OpenConn, CloseConn, InstallTool, PolicyChange, FlushRuleset, kernelVars, Empty
  <2> QED BY <2>1, <2>2, EnvironmentCalm
<1>3. CASE Reboot
  BY <1>3, RebootCalm
<1>4. ~Crash /\ ~CheckpointFails
  BY DEF Undisturbed, Crash, CheckpointFails, Fault
<1>5. CASE \E P \in Plans : Reconcile(P)
  BY <1>5, HealthCalm
<1>6. CASE ReconcileStep
  BY <1>4, <1>6, HealthCalm, RecoverCalm, AdmitCalm, TransactionCalm, ObjectsCalm, RevokeCalm
  DEF ReconcileStep
<1> QED BY <1>1, <1>2, <1>3, <1>4, <1>5, <1>6 DEF Next, Environment

\* While no process dies during a call and no readback, transaction or write of
\* the recovery file fails, the ownership history is kept and true, although
\* the ruleset is flushed, the host reboots, the firewall policy changes,
\* conntrack commands fail and sessions cannot be opened.
THEOREM HistoryAlwaysKept ==
  ASSUME Undisturbed
  PROVE  BackendSpec => [](HistoryKept /\ HistoryTrue)
<1>1. Init => Retirement /\ Steady
  BY InitRetirement, InitCalm
<1>2. TypeOK /\ Retirement /\ Steady /\ [Next]_vars => (Retirement /\ Steady)'
  <2> SUFFICES ASSUME TypeOK, Retirement, Steady, [Next]_vars PROVE Retirement' /\ Steady'
    OBVIOUS
  <2>1. Steady'
    BY CalmStep
  <2>2. HistoryKept /\ HistoryKept' /\ HistoryTrue'
    BY <2>1, CalmHistory DEF Steady, ToolInv, HistoryTrue, Accounted
  <2> QED BY <2>1, <2>2, RetirementStep
<1> QED BY <1>1, <1>2, CalmHistory, TypeAlwaysCorrect, PTL DEF BackendSpec

\* Without those disturbances no ingress ever admits connections to a new
\* target beside tracked ones to an earlier target, and a reported success
\* leaves no connection of a dropped path.
THEOREM UndisturbedNeverMixed ==
  ASSUME Undisturbed
  PROVE  BackendSpec => [](NoMixedAdmission /\ SuccessRetires)
BY HistoryAlwaysKept, NeverMixed, SuccessAlwaysRetires, PTL

-----------------------------------------------------------------------------
\* The Manager.  Its own state, and the cleanup that ends a unit.

\* The types of the Manager's own state.
MgrType ==
  /\ svc \in {"up", "stopping", "stopped", "exited", "cleaning", "down"}
  /\ phase \in {"free", "apply", "stop"}
  /\ cfg \in Configs /\ zone \in [Hosts -> Answers \cup {Failed}]
  /\ cache \in [IDs -> [host : Hosts \cup {"none"}, ans : Answers \cup {Failed}]]

\* Between two processes nothing is held, reported or remembered.
GoneInv ==
  svc \in {"exited", "down"} =>
    phase = "free" /\ outcome = "none" /\ ~mem.recovered /\ runners = {}

DownInv == svc = "down" => table = Empty /\ conns = {}

\* The call of --cleanup-nft with a conntrack tool: until its transaction the
\* retired paths account for the kernel, then nothing new is admitted, and
\* what revocation has not visited yet accounts for every entry.
StageInv ==
  /\ call.tgt.act = {} /\ Accounted(conns, call.pend)
  /\ pc \in {"prepare", "apply"} => Recorded(table.act, call.pend)
  /\ pc \notin {"prepare", "apply"} => table.act = {}
  /\ pc \in {"revoke", "relist"} => Accounted(conns, call.todo)

FinalInv ==
  /\ conns = {} /\ table.act = {} /\ call.tgt.act = {} /\ (~call.perr => call.tgt = Empty)
  /\ pc \in {"verify", "checkpoint"} /\ ~call.perr => table = Empty

CleanupCall ==
  /\ call.next = {} /\ call.sus = {} /\ (pc \notin {"apply", "verify"} => ~call.perr)
  /\ pc \in {"revoke", "relist"} => call.round = "stage"
  /\ call.round = "stage" => StageInv
  /\ call.round = "final" => FinalInv

CleaningInv ==
  svc = "cleaning" =>
    /\ phase = "stop" /\ runners = {} /\ plan = {} /\ pc # "health"
    /\ pc \in {"begin", "recover"} => ~mem.recovered
    /\ pc = "admit" /\ mem.tool => Accounted(conns, Known) /\ Recorded(All(table), Known)
    /\ InCall /\ ~call.dep => CleanupCall
    /\ pc = "idle" /\ outcome = "ok" => table = Empty /\ conns = {}

StopInv == GoneInv /\ DownInv /\ CleaningInv

\* The plan of a running Apply: its two planes never meet, and its kernel paths
\* belong to configured rules.
PlanesInv ==
  phase = "apply" =>
    /\ \A g \in goPlan : /\ g.in \in DOMAIN GoPoints
                         /\ \A p \in plan : GoPoints[g.in] \cap Covers[p.in] = {}
    /\ \A p \in plan : \E r \in cfg : r.id = p.rule
    /\ pc = "idle" => outcome # "none"

\* A running listener meets no path that is asked for.
RunnersInv == \A h \in runners : \A p \in plan : GoPoints[h.in] \cap Covers[p.in] = {}

\* A success has every path of the request in memory, and a missing tool is
\* reported as an unknown state.
AnswerInv ==
  /\ outcome = "ok" => Recorded(Desired, mem.act)
  /\ outcome = "dep" => mem.unknown
  /\ InCall /\ call.adm = {} /\ ~call.dep =>
       /\ call.next = Desired
       /\ call.round = "final" /\ ~call.perr => call.tgt.act = call.next

\* Every marked entry was made by a path that can be asked for.
MarkedInv == \A c \in conns : \E p \in Paths : Matches(c, p)

ServeInv == PlanesInv /\ RunnersInv /\ NoDoublePath /\ AnswerInv /\ MarkedInv /\ NothingHidden

\* One step of the backend keeps its types, inside the Manager too.
LEMMA BackendTypeStep == TypeOK /\ [Next]_vars => TypeOK'
BY KernelStep, StoreStep, MemoryStep, ControlStep, BoundsStep DEF TypeOK

-----------------------------------------------------------------------------
\* What a step of the Manager does to the backend: a step of its own, nothing
\* but a fault counted, a new process, or a new request.

\* The backend rests; StopEnd forgets what was applied.
Resting ==
  /\ UNCHANGED <<kernelVars, installed, diskVars, mem, pc, call, plan, offload, outcome, edits>>
  /\ done' \in {done, {}}
  /\ faults' = faults \/ (faults < MaxFaults /\ faults' = faults + 1)

\* The process ended and another may begin.
Ending ==
  /\ NewProcess /\ UNCHANGED <<kernelVars, diskVars, installed>>
  /\ faults' = faults \/ (faults < MaxFaults /\ faults' = faults + 1)

\* Apply, Refresh or Delete hands a request to the idle backend.
Asking ==
  /\ pc = "idle" /\ pc' \in {"health", "begin"} /\ outcome' = "none"
  /\ mem' = [mem EXCEPT !.tool = mem.tool \/ installed]
  /\ edits' = edits \/ (edits < MaxEdits /\ edits' = edits + 1)
  /\ UNCHANGED <<kernelVars, installed, diskVars, call, offload, done, faults>>

\* Every step is one of these.
LEMMA Classified ==
  ASSUME [ManagerNext]_allVars
  PROVE  \/ [Next]_vars
         \/ Resting
         \/ Ending
         \/ Asking /\ plan' = {}
         \/ Asking /\ \E C \in Configs, cached \in BOOLEAN : ApplyBegin(C, cached)
<1>1. CASE UNCHANGED allVars
  BY <1>1 DEF allVars
<1>2. ASSUME NEW C \in Configs, NEW cached \in BOOLEAN, ApplyBegin(C, cached) PROVE Asking
  BY <1>2 DEF ApplyBegin, Asking
<1>3. CASE BackendStep \/ HostReboot
  BY <1>3 DEF BackendStep, HostReboot, Next, Environment
<1>4. CASE ApplyEnd
  BY <1>4 DEF ApplyEnd, Resting, Fault, NoFault
<1>5. CASE SetDNSServers \/ Signal \/ Start
  BY <1>5 DEF SetDNSServers, Signal, Start
<1>6. CASE StopBegin \/ CleanupBegin
  BY <1>6 DEF StopBegin, CleanupBegin, Delete, Asking
<1>7. CASE StopEnd
  BY <1>7 DEF StopEnd, Resting
<1>8. CASE Exit \/ Killed \/ CleanupEnd
  BY <1>8 DEF Exit, Killed, CleanupEnd, Ending, Fault
<1>9. CASE Surroundings
  <2>1. CASE OpenConn \/ CloseConn \/ InstallTool \/ PolicyChange \/ FlushRuleset
    BY <2>1 DEF Next, Environment
  <2>2. CASE ZoneChange
    BY <2>2 DEF ZoneChange, Resting, Fault
  <2>3. CASE \E id \in IDs : Expire(id)
    BY <2>3 DEF Expire
  <2> QED BY <1>9, <2>1, <2>2, <2>3 DEF Surroundings
<1> QED BY <1>1, <1>2, <1>3, <1>4, <1>5, <1>6, <1>7, <1>8, <1>9 DEF ManagerNext

-----------------------------------------------------------------------------
\* Types.

\* resolveHost yields an answer, the address itself, or nothing.
LEMMA ResolvedTyped ==
  ASSUME MgrType, NEW C \in Configs, NEW r \in C, NEW cached \in BOOLEAN
  PROVE  Resolved(r, cached) \in Answers \cup {Literals[h] : h \in DOMAIN Literals} \cup {Failed}
<1>1. r.host \in DOMAIN Literals \cup Hosts
  BY ScopesOK
<1>2. r.id \in IDs
  BY ManagerConstants DEF RuleIDs
<1>3. cache[r.id].ans \in Answers \cup {Failed}
  BY <1>2 DEF MgrType
<1>4. r.host \in Hosts => zone[r.host] \in Answers \cup {Failed}
  BY DEF MgrType
<1> QED BY <1>1, <1>3, <1>4 DEF Resolved

\* buildPlan yields known kernel paths.
LEMMA PlanTyped ==
  ASSUME MgrType, NEW C \in Configs, NEW cached \in BOOLEAN
  PROVE  PlanNFT(C, cached) \subseteq Paths
<1> SUFFICES ASSUME NEW r \in Planned(C, cached)
             PROVE  NFTPaths(r, Resolved(r, cached)) \subseteq Paths
  BY DEF PlanNFT
<1>1. r \in C /\ Resolved(r, cached) # Failed
  BY DEF Planned
<1>2. Resolved(r, cached) \in Answers \cup {Literals[h] : h \in DOMAIN Literals}
  BY <1>1, ResolvedTyped
<1> QED BY <1>1, <1>2, ScopesOK

\* The types of the backend.
LEMMA ManagerKeepsBackendType ==
  ASSUME TypeOK, MgrType, [ManagerNext]_allVars
  PROVE  TypeOK'
<1>0. edits \in 0..MaxEdits /\ faults \in 0..MaxFaults /\ MaxEdits \in Nat /\ MaxFaults \in Nat
  BY ConstantsOK DEF TypeOK
<1>1. CASE [Next]_vars
  BY <1>1, BackendTypeStep
<1>2. CASE Resting
  <2>1. KernelType' /\ StoreType' /\ mem' \in Memory /\ ControlType'
    BY <1>2 DEF Resting, TypeOK, KernelType, StoreType, ControlType, kernelVars, diskVars
  <2>2. edits' \in 0..MaxEdits /\ faults' \in 0..MaxFaults
    BY <1>0, <1>2 DEF Resting
  <2> QED BY <2>1, <2>2 DEF TypeOK
<1>3. CASE Ending
  <2>1. KernelType' /\ StoreType' /\ mem' \in Memory /\ ControlType'
    BY <1>3, EmptyTyped DEF Ending, NewProcess, TypeOK, KernelType, StoreType, ControlType, PCs,
      kernelVars, diskVars
  <2>2. edits' \in 0..MaxEdits /\ faults' \in 0..MaxFaults
    BY <1>0, <1>3 DEF Ending, NewProcess
  <2> QED BY <2>1, <2>2 DEF TypeOK
<1>4. ASSUME Asking, plan' \in SUBSET Paths PROVE TypeOK'
  <2>1. KernelType' /\ StoreType' /\ ControlType'
    BY <1>4 DEF Asking, TypeOK, KernelType, StoreType, ControlType, PCs, kernelVars, diskVars
  <2>2. mem' \in Memory
    BY <1>4 DEF Asking, TypeOK, Memory, StoreType
  <2>3. edits' \in 0..MaxEdits /\ faults' \in 0..MaxFaults
    BY <1>0, <1>4 DEF Asking
  <2> QED BY <2>1, <2>2, <2>3 DEF TypeOK
<1>5. ASSUME NEW C \in Configs, NEW cached \in BOOLEAN, ApplyBegin(C, cached)
      PROVE  plan' \in SUBSET Paths
  BY <1>5, PlanTyped DEF ApplyBegin
<1> QED BY <1>1, <1>2, <1>3, <1>4, <1>5, Classified

\* Nothing resolved is well typed.
LEMMA NoCacheTyped == NoCache \in [host : Hosts \cup {"none"}, ans : Answers \cup {Failed}]
BY DEF NoCache

\* An Apply caches only answers of the names of its rules.
LEMMA ApplyCaches ==
  ASSUME MgrType, NEW C \in Configs, NEW cached \in BOOLEAN, ApplyBegin(C, cached)
  PROVE  cache' \in [IDs -> [host : Hosts \cup {"none"}, ans : Answers \cup {Failed}]]
<1> DEFINE fresh(id) == \E r \in C : r.id = id /\ r.on /\ r.host \in Hosts /\ zone[r.host] # Failed
           one(id) == CHOOSE q \in C : q.id = id
<1>1. cache' = [id \in IDs |-> IF fresh(id) THEN [host |-> one(id).host, ans |-> zone[one(id).host]]
                               ELSE cache[id]]
  BY DEF ApplyBegin
<1>2. ASSUME NEW id \in IDs, fresh(id) PROVE one(id).host \in Hosts
  <2>1. PICK r \in C : r.id = id /\ r.host \in Hosts
    BY <1>2
  <2>2. one(id) \in C /\ one(id).id = id
    BY <2>1
  <2>3. one(id) = r
    BY <2>1, <2>2, ManagerConstants DEF ValidConfig
  <2> QED BY <2>1, <2>3
<1> HIDE DEF fresh, one
<1> QED BY <1>1, <1>2 DEF MgrType

\* The types of the Manager.
LEMMA ManagerTypeStep ==
  ASSUME MgrType, [ManagerNext]_allVars
  PROVE  MgrType'
<1> DEFINE Cached == [host : Hosts \cup {"none"}, ans : Answers \cup {Failed}]
<1>0. NoCache \in Cached /\ cache \in [IDs -> Cached]
  BY NoCacheTyped DEF MgrType
<1>1. CASE UNCHANGED allVars
  BY <1>1 DEF allVars, mgrVars, MgrType
<1>2. ASSUME NEW C \in Configs, NEW cached \in BOOLEAN, ApplyBegin(C, cached) PROVE MgrType'
  <2>1. cache' \in [IDs -> Cached]
    BY <1>2, ApplyCaches
  <2> QED BY <1>2, <2>1 DEF ApplyBegin, MgrType
<1>3. CASE BackendStep \/ Signal \/ StopBegin \/ StopEnd \/ CleanupBegin \/ Start
  BY <1>3 DEF BackendStep, Signal, StopBegin, StopEnd, CleanupBegin, Start, MgrType
<1>4. CASE ApplyEnd
  <2>1. cache' \in [IDs -> Cached]
    BY <1>0, <1>4 DEF ApplyEnd
  <2> QED BY <1>4, <2>1 DEF ApplyEnd, MgrType
<1>5. CASE SetDNSServers \/ Exit \/ Killed \/ CleanupEnd \/ HostReboot
  <2>1. cache' \in [IDs -> Cached]
    BY <1>0, <1>5 DEF SetDNSServers, Exit, Killed, CleanupEnd, HostReboot, NewProcess
  <2> QED BY <1>5, <2>1 DEF SetDNSServers, Exit, Killed, CleanupEnd, HostReboot, NewProcess, MgrType
<1>6. CASE Surroundings
  <2>1. CASE UNCHANGED mgrVars
    BY <2>1 DEF mgrVars, MgrType
  <2>2. CASE ZoneChange
    <3>1. PICK h \in Hosts, a \in Answers \cup {Failed} : zone' = [zone EXCEPT ![h] = a]
      BY <2>2 DEF ZoneChange
    <3> QED BY <2>2, <3>1 DEF ZoneChange, MgrType
  <2>3. ASSUME NEW id \in IDs, Expire(id) PROVE MgrType'
    <3>1. cache' \in [IDs -> Cached]
      BY <1>0, <2>3 DEF Expire
    <3> QED BY <2>3, <3>1 DEF Expire, MgrType
  <2> QED BY <1>6, <2>1, <2>2, <2>3 DEF Surroundings
<1> QED BY <1>1, <1>2, <1>3, <1>4, <1>5, <1>6 DEF ManagerNext

\* The Manager, the backend under it, its kernel and its recovery file keep
\* their types, whatever is configured, resolved, killed or cleaned up.
THEOREM ManagerAlwaysTyped == ManagerSpec => [](TypeOK /\ MgrType)
<1>1. InitManager => TypeOK /\ MgrType
  <2> SUFFICES ASSUME InitManager PROVE TypeOK /\ MgrType
    OBVIOUS
  <2>1. TypeOK
    BY InitTypeOK DEF InitManager
  <2>2. cache \in [IDs -> [host : Hosts \cup {"none"}, ans : Answers \cup {Failed}]]
    BY NoCacheTyped DEF InitManager
  <2> QED BY <2>1, <2>2 DEF InitManager, MgrType
<1>2. TypeOK /\ MgrType /\ [ManagerNext]_allVars => (TypeOK /\ MgrType)'
  BY ManagerKeepsBackendType, ManagerTypeStep
<1> QED BY <1>1, <1>2, PTL DEF ManagerSpec

-----------------------------------------------------------------------------
\* The cleanup.  Its process starts without memory and asks for nothing, so
\* that everything the kernel, the recovery file or conntrack shows is either
\* accounted for and retired or fails it.

\* With nothing asked for, every path in memory is retired, none suspended.
LEMMA NothingAsked ==
  ASSUME plan = {}
  PROVE  /\ Desired = {} /\ Rejection = {} /\ Admissible = {} /\ Suspended = {}
         /\ Recorded(Known, Pending)
<1>1. Desired = {}
  BY DEF Desired
<1>2. Rejection = {} /\ Admissible = {} /\ Suspended = {}
  BY <1>1, AdmissibleAsked DEF Rejection, Suspended, Affects
<1>3. Recorded(mem.pen, Pending) /\ Recorded(mem.act \cup mem.sus, History)
  BY PendingRecords
<1>4. Recorded(History, Pending)
  BY <1>1 DEF Recorded, Retired, SameTuple, Pending, Merge
<1> QED BY <1>1, <1>2, <1>3, <1>4 DEF Known, Recorded, SameTuple

\* Entries that end and a flushed table take nothing away from the cleanup.
LEMMA CleanupShrinks ==
  ASSUME CleaningInv, table' \in {table, Empty}, conns' \subseteq conns,
         UNCHANGED <<mem, pc, call, plan, outcome, svc, phase, runners>>
  PROVE  CleaningInv'
<1> SUFFICES ASSUME svc = "cleaning" PROVE CleaningInv'
  BY DEF CleaningInv
<1>1. table'.act \subseteq table.act /\ All(table') \subseteq All(table) /\ (table = Empty => table' = Empty)
  BY DEF Empty, All
<1>2. /\ \A T : Accounted(conns, T) => Accounted(conns', T)
      /\ \A T : Recorded(table.act, T) => Recorded(table'.act, T)
      /\ \A T : Recorded(All(table), T) => Recorded(All(table'), T)
  BY <1>1 DEF Accounted, Recorded
<1>3. InCall /\ ~call.dep /\ call.round = "stage" => StageInv'
  BY <1>1, <1>2 DEF CleaningInv, CleanupCall, StageInv
<1>4. InCall /\ ~call.dep /\ call.round = "final" => FinalInv'
  BY <1>1 DEF CleaningInv, CleanupCall, FinalInv
<1>5. InCall /\ ~call.dep => CleanupCall'
  BY <1>3, <1>4 DEF CleaningInv, CleanupCall
<1>6. Known' = Known /\ InCall' = InCall
  BY DEF Known, InCall
<1> QED BY <1>1, <1>2, <1>5, <1>6 DEF CleaningInv

\* A connection that opens during the cleanup belongs to a path that is yet to
\* be withdrawn.
LEMMA CleanupOpens ==
  ASSUME CleaningInv, OpenConn, UNCHANGED <<svc, phase, runners>>
  PROVE  CleaningInv'
<1> SUFFICES ASSUME svc = "cleaning" PROVE CleaningInv'
  BY DEF CleaningInv
<1>0. PICK s \in table.act : \E p \in Covers[s.in] : conns' = conns \cup {[point |-> p, to |-> s.to]}
  BY DEF OpenConn
<1>1. PICK p \in Covers[s.in] : conns' = conns \cup {[point |-> p, to |-> s.to]}
  BY <1>0
<1>2. UNCHANGED <<table, mem, pc, call, plan, outcome>>
  BY DEF OpenConn
<1>3. ASSUME NEW T, Accounted(conns, T), Recorded(table.act, T)
      PROVE  Accounted(conns', T)
  BY <1>1, <1>3 DEF Accounted, Recorded, Matches, SameTuple
<1>4. table.act # {} /\ table # Empty
  BY DEF Empty
<1>5. Known' = Known /\ InCall' = InCall
  BY <1>2 DEF Known, InCall
<1>6. Recorded(All(table), Known) => Recorded(table.act, Known)
  BY DEF Recorded, All
<1>7. InCall /\ ~call.dep => CleanupCall'
  <2>1. call.round = "stage" /\ InCall /\ ~call.dep => StageInv'
    BY <1>2, <1>3, <1>4 DEF CleaningInv, CleanupCall, StageInv
  <2>2. call.round = "final" /\ InCall /\ ~call.dep => FALSE
    BY <1>4 DEF CleaningInv, CleanupCall, FinalInv
  <2> QED BY <1>2, <2>1, <2>2 DEF CleaningInv, CleanupCall
<1> QED BY <1>2, <1>3, <1>4, <1>5, <1>6, <1>7 DEF CleaningInv

\* A return that is no success ends the cleanup's call.
LEMMA CleanupFails ==
  ASSUME CleaningInv, NEW result, result # "ok", Return(result), UNCHANGED <<svc, phase, runners>>
  PROVE  CleaningInv'
BY DEF CleaningInv, Return, InCall

\* The session and the recovery: with the tool, a history that covers the
\* table and every entry, or an error.
LEMMA CleanupRecovers ==
  ASSUME TypeOK, CleaningInv, svc = "cleaning", UNCHANGED <<svc, phase, runners>>,
         \/ AlreadyHealthy \/ HealthFails \/ Replace
         \/ BeginCurrentBoot \/ BeginRollover \/ BeginFails
         \/ RecoverUnchanged \/ RecoverHistory \/ RecoverUnverified \/ RecoverFails
  PROVE  CleaningInv'
<1>0. mem \in Memory
  BY DEF TypeOK
<1>1. CASE AlreadyHealthy \/ HealthFails \/ Replace
  BY <1>1 DEF CleaningInv, AlreadyHealthy, HealthFails, Replace
<1>2. CASE BeginFails \/ RecoverFails
  BY <1>2, CleanupFails DEF BeginFails, RecoverFails
<1>3. CASE BeginCurrentBoot \/ BeginRollover
  <2>1. Goto("recover") /\ ~mem'.recovered
    BY <1>0, <1>3 DEF CleaningInv, BeginCurrentBoot, BeginRollover, Cleared, Memory
  <2> QED BY <2>1 DEF CleaningInv, Goto, InCall
<1>4. CASE RecoverUnchanged
  BY <1>4 DEF CleaningInv, RecoverUnchanged, Unchanged
<1>5. CASE RecoverUnverified
  <2>1. Goto("admit") /\ ~mem'.tool
    BY <1>0, <1>5 DEF RecoverUnverified, Adopt, Memory
  <2> QED BY <2>1 DEF CleaningInv, Goto, InCall
<1>6. CASE RecoverHistory
  <2>1. /\ Goto("admit") /\ table' = table /\ conns' = conns /\ mem'.tool = mem.tool
        /\ mem'.act = Recovered.act /\ mem'.pen = Recovered.pen /\ mem'.sus = Recovered.sus
        /\ mem.tool => Accounted(conns, All(Recovered))
    BY <1>0, <1>6 DEF RecoverHistory, Adopt, Memory, kernelVars, Accounted
  <2>2. Known' = All(Recovered)
    BY <2>1 DEF Known, All
  <2>3. All(table) \subseteq All(Recovered)
    BY Merging DEF All, Recovered
  <2>4. Recorded(All(table), All(Recovered))
    BY <2>3, Recording
  <2> QED BY <2>1, <2>2, <2>4 DEF CleaningInv, Goto, InCall
<1> QED BY <1>1, <1>2, <1>3, <1>4, <1>5, <1>6

\* The admission gate retires all there is, at once if there is nothing.
LEMMA CleanupAdmits ==
  ASSUME TypeOK, CleaningInv, svc = "cleaning", UNCHANGED <<svc, phase, runners>>,
         Admit \/ AdmitNothing \/ AdmitUnreadable
  PROVE  CleaningInv'
<1>1. CASE AdmitNothing \/ AdmitUnreadable
  BY <1>1, CleanupFails DEF AdmitNothing, AdmitUnreadable
<1>2. CASE Admit
  <2>0. /\ pc = "admit" /\ plan = {} /\ table \in Snapshot /\ UNCHANGED <<table, conns>>
        /\ Goto("prepare") /\ mem.tool \in BOOLEAN
    BY <1>2 DEF CleaningInv, Admit, kernelVars, TypeOK, KernelType, Memory
  <2>1. /\ Desired = {} /\ Rejection = {} /\ Admissible = {} /\ Suspended = {}
        /\ Recorded(Known, Pending)
    BY <2>0, NothingAsked
  <2>2. /\ call'.next = {} /\ call'.pend = Pending /\ call'.sus = {} /\ call'.dep = ~mem.tool
        /\ ~call'.perr
        /\ call'.round = IF Pending # {} THEN "stage" ELSE "final"
        /\ call'.tgt.act = {} /\ (Pending = {} => call'.tgt = Empty)
    BY <1>2, <2>1 DEF Admit, NoCall, StageTarget, FinalTarget, Gate, Empty
  <2>3. ASSUME mem.tool PROVE Accounted(conns, Pending) /\ Recorded(All(table), Pending)
    <3>1. Accounted(conns, Known) /\ Recorded(All(table), Known)
      BY <2>0, <2>3 DEF CleaningInv
    <3> QED BY <2>1, <3>1, Accounting, Recording
  <2>4. ASSUME ~call'.dep, call'.round = "stage" PROVE StageInv'
    <3>1. Recorded(table.act, Pending) /\ Accounted(conns, Pending)
      BY <2>0, <2>2, <2>3, <2>4 DEF Recorded, All
    <3> QED BY <2>0, <2>2, <3>1 DEF StageInv, Goto
  <2>5. ASSUME ~call'.dep, call'.round = "final" PROVE FinalInv'
    <3>1. Pending = {}
      BY <2>2, <2>5
    <3>2. conns = {} /\ All(table) = {}
      BY <2>0, <2>2, <2>3, <2>5, <3>1 DEF Accounted, Recorded
    <3>3. table.act = {}
      BY <3>2 DEF All
    <3> QED BY <2>0, <2>2, <3>1, <3>2, <3>3 DEF FinalInv, Goto
  <2>6. ~call'.dep => CleanupCall'
    BY <2>0, <2>2, <2>4, <2>5 DEF CleanupCall, Goto
  <2> QED BY <2>0, <2>6 DEF CleaningInv, Goto, InCall
<1> QED BY <1>1, <1>2

\* A step inside the call keeps the rest of the cleanup as it is.
LEMMA CleanupMoves ==
  ASSUME CleaningInv, svc = "cleaning", UNCHANGED <<svc, phase, runners>>,
         NEW label, label \in {"prepare", "apply", "verify", "checkpoint", "revoke", "relist"},
         Goto(label), ~call'.dep => CleanupCall'
  PROVE  CleaningInv'
BY DEF CleaningInv, Goto, InCall

\* What the call knows before a step of it.
LEMMA CleanupKnows ==
  ASSUME CleaningInv, svc = "cleaning", InCall, ~call.dep
  PROVE  CleanupCall
BY DEF CleaningInv

\* The intent: the target stays empty of admissions, written or not.
LEMMA CleanupPrepares ==
  ASSUME TypeOK, CleaningInv, svc = "cleaning", UNCHANGED <<svc, phase, runners>>,
         ObserveFails \/ Prepare \/ PrepareFails
  PROVE  CleaningInv'
<1>0. call \in Calls
  BY DEF TypeOK, ControlType
<1>1. CASE ObserveFails \/ (PrepareFails /\ MemSnapshot = Empty)
  BY <1>1, CleanupFails DEF ObserveFails, PrepareFails
<1>2. CASE Prepare \/ (PrepareFails /\ MemSnapshot # Empty)
  <2>1. /\ pc = "prepare" /\ InCall /\ Goto("apply") /\ UNCHANGED <<table, conns, mem>>
        /\ call'.next = call.next /\ call'.pend = call.pend /\ call'.sus = call.sus
        /\ call'.dep = call.dep /\ call'.round = call.round
        /\ \/ call'.tgt = call.tgt
           \/ call'.perr /\ call'.tgt = Withdrawal
    BY <1>0, <1>2 DEF Prepare, PrepareFails, Calls, kernelVars, InCall
  <2>2. call.tgt.act = {} => call'.tgt.act = {}
    BY <2>1 DEF Withdrawal, PreviouslyAdmitted
  <2>3. ASSUME ~call'.dep PROVE CleanupCall'
    <3>1. CleanupCall /\ ~call.perr
      BY <2>1, <2>3, CleanupKnows DEF CleanupCall
    <3>2. call.round = "stage" => StageInv'
      BY <2>1, <2>2, <3>1 DEF CleanupCall, StageInv, Goto
    <3>3. call.round = "final" => FinalInv'
      BY <2>1, <2>2, <3>1 DEF CleanupCall, FinalInv, Goto
    <3> QED BY <2>1, <3>1, <3>2, <3>3 DEF CleanupCall, Goto
  <2> QED BY <2>1, <2>3, CleanupMoves
<1> QED BY <1>1, <1>2

\* The transaction and its readback: admission is withdrawn.
LEMMA CleanupApplies ==
  ASSUME TypeOK, CleaningInv, svc = "cleaning", UNCHANGED <<svc, phase, runners>>,
         Apply \/ ApplyFails \/ Verify \/ VerifyFails \/ CheckpointFails
  PROVE  CleaningInv'
<1>1. CASE ApplyFails \/ VerifyFails \/ CheckpointFails \/ (Verify /\ call.perr)
  BY <1>1, CleanupFails DEF ApplyFails, VerifyFails, CheckpointFails, Verify
<1>2. CASE Apply
  <2>1. /\ pc = "apply" /\ InCall /\ Goto("verify") /\ UNCHANGED <<conns, call, mem>>
        /\ table' = call.tgt
    BY <1>2 DEF Apply, InCall
  <2>2. ASSUME ~call'.dep PROVE CleanupCall'
    <3>1. CleanupCall
      BY <2>1, <2>2, CleanupKnows
    <3>2. call.round = "stage" => StageInv'
      BY <2>1, <3>1 DEF CleanupCall, StageInv, Goto
    <3>3. call.round = "final" => FinalInv'
      BY <2>1, <3>1 DEF CleanupCall, FinalInv, Goto
    <3> QED BY <2>1, <3>1, <3>2, <3>3 DEF CleanupCall, Goto
  <2> QED BY <2>1, <2>2, CleanupMoves
<1>3. CASE Verify /\ ~call.perr
  <2>1. /\ pc = "verify" /\ InCall /\ Goto("checkpoint") /\ UNCHANGED <<table, conns, call>>
    BY <1>3 DEF Verify, InCall, kernelVars
  <2>2. ASSUME ~call'.dep PROVE CleanupCall'
    <3>1. CleanupCall
      BY <2>1, <2>2, CleanupKnows
    <3>2. call.round = "stage" => StageInv'
      BY <2>1, <3>1 DEF CleanupCall, StageInv, Goto
    <3>3. call.round = "final" => FinalInv'
      BY <2>1, <3>1 DEF CleanupCall, FinalInv, Goto
    <3> QED BY <1>3, <2>1, <3>1, <3>2, <3>3 DEF CleanupCall, Goto
  <2> QED BY <2>1, <2>2, CleanupMoves
<1> QED BY <1>1, <1>2, <1>3

\* After the objects: revocation of all there was, or the end.
LEMMA CleanupInstalls ==
  ASSUME TypeOK, CleaningInv, svc = "cleaning", UNCHANGED <<svc, phase, runners>>,
         SkipApplied \/ Checkpoint
  PROVE  CleaningInv'
<1>0. /\ call \in Calls /\ pc \in {"prepare", "checkpoint"} /\ InCall /\ AfterObjects(mem)
      /\ UNCHANGED <<table, conns>>
  BY DEF TypeOK, ControlType, SkipApplied, Checkpoint, InCall, kernelVars
<1>1. ASSUME ~call.dep
      PROVE  /\ CleanupCall /\ ~call.perr
             /\ call.round = "stage" => table.act = {}
             /\ call.round = "final" => table = Empty
  <2>1. CleanupCall /\ ~call.perr
    BY <1>0, <1>1, CleanupKnows DEF CleanupCall
  <2>2. CASE SkipApplied
    BY <2>1, <2>2 DEF SkipApplied, AlreadyApplied, CleanupCall, StageInv, FinalInv
  <2>3. CASE Checkpoint
    BY <2>1, <2>3 DEF Checkpoint, CleanupCall, StageInv, FinalInv
  <2> QED BY <2>1, <2>2, <2>3
<1>2. CASE /\ call.round = "stage" /\ call' = [call EXCEPT !.todo = call.pend] /\ Goto("revoke")
  <2>1. /\ call'.next = call.next /\ call'.pend = call.pend /\ call'.sus = call.sus
        /\ call'.dep = call.dep /\ call'.round = call.round /\ call'.tgt = call.tgt
        /\ call'.perr = call.perr /\ call'.todo = call.pend
    BY <1>0, <1>2 DEF Calls
  <2>2. ASSUME ~call'.dep PROVE CleanupCall'
    BY <1>0, <1>1, <1>2, <2>1, <2>2 DEF CleanupCall, StageInv, Goto
  <2> QED BY <1>2, <2>2, CleanupMoves
<1>3. CASE /\ call.round = "final"
           /\ Return(IF call.adm = {} /\ ~call.dep THEN "ok"
                     ELSE IF call.dep THEN "dep" ELSE "suspended")
  <2>1. CASE call.dep \/ call.adm # {}
    BY <1>3, <2>1, CleanupFails
  <2>2. CASE ~call.dep /\ call.adm = {}
    <3>1. Return("ok") /\ table' = Empty /\ conns' = {}
      BY <1>0, <1>1, <1>3, <2>2 DEF CleanupCall, FinalInv
    <3> QED BY <3>1 DEF CleaningInv, Return, InCall
  <2> QED BY <2>1, <2>2
<1> QED BY <1>0, <1>2, <1>3 DEF AfterObjects

\* Revocation: the end of the list means that no entry is left.
LEMMA CleanupRevokes ==
  ASSUME TypeOK, CleaningInv, svc = "cleaning", UNCHANGED <<svc, phase, runners>>,
         RevokeNone \/ RevokeDelete \/ RevokeRelist \/ RevokeFails \/ RevokeDone
  PROVE  CleaningInv'
<1>0. /\ call \in Calls /\ pc \in {"revoke", "relist"} /\ InCall /\ table' = table
      /\ conns' \subseteq conns
  BY DEF TypeOK, ControlType, RevokeNone, RevokeDelete, RevokeRelist, RevokeFails, RevokeDone,
    InCall, kernelVars, Entries
<1>1. CASE RevokeFails
  BY <1>1, CleanupFails DEF RevokeFails
<1>2. ASSUME ~call.dep
      PROVE  /\ CleanupCall /\ StageInv /\ call.round = "stage" /\ table.act = {} /\ ~call.perr
             /\ Accounted(conns, call.todo)
  BY <1>0, <1>2, CleanupKnows DEF CleanupCall, StageInv
<1>3. CASE RevokeNone \/ RevokeDelete \/ RevokeRelist
  <2>1. /\ call'.next = call.next /\ call'.pend = call.pend /\ call'.sus = call.sus
        /\ call'.dep = call.dep /\ call'.round = call.round /\ call'.tgt = call.tgt
        /\ call'.perr = call.perr
    BY <1>0, <1>3 DEF RevokeNone, RevokeDelete, RevokeRelist, Calls
  <2>2. Goto("revoke") \/ Goto("relist")
    BY <1>3 DEF RevokeNone, RevokeDelete, RevokeRelist
  <2>3. ASSUME ~call.dep PROVE Accounted(conns', call'.todo)
    <3>1. CASE RevokeDelete
      BY <1>0, <1>2, <2>3, <3>1, Accounting DEF RevokeDelete
    <3>2. CASE RevokeNone \/ RevokeRelist
      <4>1. conns' = conns /\ call'.todo = call.todo \ {Current} /\ Entries(Current) = {}
        BY <1>0, <3>2 DEF RevokeNone, RevokeRelist, kernelVars, Calls
      <4> QED BY <1>2, <2>3, <4>1 DEF Accounted, Entries
    <3> QED BY <1>3, <3>1, <3>2
  <2>4. ASSUME ~call'.dep PROVE CleanupCall'
    <3>0. Accounted(conns, call.pend)
      BY <1>2, <2>1, <2>4 DEF StageInv
    <3>1. Accounted(conns', call'.pend)
      BY <1>0, <2>1, <3>0 DEF Accounted
    <3>2. StageInv'
      BY <1>0, <1>2, <2>1, <2>2, <2>3, <2>4, <3>1 DEF StageInv, Goto
    <3> QED BY <1>2, <2>1, <2>2, <2>4, <3>2 DEF CleanupCall, Goto
  <2> QED BY <2>2, <2>4, CleanupMoves
<1>4. CASE RevokeDone
  <2>1. /\ call.todo = {} /\ Goto("prepare") /\ conns' = conns
        /\ call'.next = call.next /\ call'.sus = call.sus /\ call'.dep = call.dep
        /\ call'.perr = call.perr /\ call'.round = "final"
        /\ call'.tgt = [act |-> call.next, pen |-> {}, sus |-> call.sus]
    BY <1>0, <1>4 DEF RevokeDone, FinalTarget, Calls, kernelVars
  <2>2. ASSUME ~call'.dep PROVE CleanupCall'
    <3>1. conns = {} /\ table.act = {} /\ call.next = {} /\ call.sus = {} /\ ~call.perr
      BY <1>2, <2>1, <2>2 DEF Accounted, CleanupCall
    <3>2. FinalInv'
      BY <1>0, <2>1, <3>1 DEF FinalInv, Goto, Empty
    <3> QED BY <2>1, <3>1, <3>2 DEF CleanupCall, Goto
  <2> QED BY <2>1, <2>2, CleanupMoves
<1> QED BY <1>1, <1>3, <1>4

\* Every step of the backend inside the cleanup.
LEMMA CleanupStep ==
  ASSUME TypeOK, CleaningInv, ReconcileStep, UNCHANGED <<svc, phase, runners>>
  PROVE  CleaningInv'
<1>1. CASE svc = "cleaning"
  BY <1>1, CleanupRecovers, CleanupAdmits, CleanupPrepares, CleanupApplies, CleanupInstalls,
    CleanupRevokes DEF ReconcileStep
<1>2. CASE svc # "cleaning"
  BY <1>2 DEF CleaningInv
<1> QED BY <1>1, <1>2

\* Every step of the Manager.
LEMMA StopStep ==
  ASSUME TypeOK, StopInv, [ManagerNext]_allVars
  PROVE  StopInv'
<1>0. GoneInv /\ DownInv /\ CleaningInv /\ table \in Snapshot
  BY DEF StopInv, TypeOK, KernelType
<1>1. CASE UNCHANGED allVars
  BY <1>0, <1>1, CleanupShrinks DEF allVars, vars, kernelVars, mgrVars, StopInv, GoneInv, DownInv
<1>2. CASE BackendStep
  <2>1. /\ phase # "free" /\ ReconcileStep /\ UNCHANGED <<svc, phase, runners>>
    BY <1>2 DEF BackendStep
  <2>2. svc \notin {"exited", "down"}
    BY <1>0, <2>1 DEF GoneInv
  <2>3. CleaningInv'
    BY <1>0, <2>1, CleanupStep
  <2> QED BY <2>1, <2>2, <2>3 DEF StopInv, GoneInv, DownInv
<1>3. ASSUME svc' \notin {"exited", "down", "cleaning"} PROVE StopInv'
  BY <1>3 DEF StopInv, GoneInv, DownInv, CleaningInv
<1>4. CASE (\E C \in Configs, cached \in BOOLEAN : ApplyBegin(C, cached)) \/ Signal \/ StopBegin \/ StopEnd \/ Start
  BY <1>3, <1>4 DEF ApplyBegin, Signal, StopBegin, StopEnd, Start
<1>5. CASE ApplyEnd
  <2>1. svc' = svc /\ phase = "apply"
    BY <1>5 DEF ApplyEnd
  <2> QED BY <1>0, <1>3, <2>1 DEF GoneInv, CleaningInv
<1>6. CASE SetDNSServers
  BY <1>3, <1>6 DEF SetDNSServers
<1>7. CASE Exit \/ Killed \/ HostReboot
  <2>1. /\ svc' = "exited" /\ phase' = "free" /\ outcome' = "none" /\ mem' = FreshMem
        /\ runners' = {}
    BY <1>7 DEF Exit, Killed, HostReboot, NewProcess, Reboot, Restart
  <2> QED BY <2>1 DEF StopInv, GoneInv, DownInv, CleaningInv, FreshMem
<1>8. CASE CleanupBegin
  <2>1. /\ svc = "exited" /\ svc' = "cleaning" /\ phase' = "stop" /\ plan' = {} /\ pc' = "begin"
        /\ runners' = runners /\ mem' = [mem EXCEPT !.tool = mem.tool \/ installed]
    BY <1>8 DEF CleanupBegin, Delete
  <2>2. mem'.recovered = mem.recovered
    BY <2>1 DEF TypeOK, Memory
  <2> QED BY <1>0, <2>1, <2>2 DEF StopInv, GoneInv, DownInv, CleaningInv, InCall
<1>9. CASE CleanupEnd
  <2>1. /\ svc = "cleaning" /\ pc = "idle" /\ svc' = (IF outcome # "ok" THEN "exited" ELSE "down")
        /\ phase' = "free" /\ outcome' = "none" /\ mem' = FreshMem /\ runners' = {}
        /\ UNCHANGED <<table, conns>>
    BY <1>9 DEF CleanupEnd, NewProcess, NFTErr, kernelVars
  <2> QED BY <1>0, <2>1 DEF StopInv, GoneInv, DownInv, CleaningInv, FreshMem
<1>10. CASE Surroundings
  <2>1. UNCHANGED <<svc, phase, runners>> /\ UNCHANGED <<mem, outcome>>
    BY <1>10 DEF Surroundings, mgrVars, OpenConn, CloseConn, InstallTool, PolicyChange,
      FlushRuleset, ZoneChange, Expire, vars
  <2>2. CASE OpenConn
    <3>1. CleaningInv' /\ svc # "down"
      BY <1>0, <2>1, <2>2, CleanupOpens DEF DownInv, OpenConn, Empty
    <3> QED BY <1>0, <2>1, <3>1 DEF StopInv, GoneInv, DownInv
  <2>3. CASE ~OpenConn
    <3>1. /\ table' \in {table, Empty} /\ conns' \subseteq conns
          /\ UNCHANGED <<pc, call, plan>>
      BY <1>10, <2>3 DEF Surroundings, CloseConn, InstallTool, PolicyChange, FlushRuleset,
        ZoneChange, Expire, vars, kernelVars
    <3>2. CleaningInv'
      BY <1>0, <2>1, <3>1, CleanupShrinks
    <3> QED BY <1>0, <2>1, <3>1, <3>2 DEF StopInv, GoneInv, DownInv
  <2> QED BY <2>2, <2>3
<1> QED
  BY <1>1, <1>2, <1>4, <1>5, <1>6, <1>7, <1>8, <1>9, <1>10 DEF ManagerNext

\* The invariant of the end of a unit.
LEMMA StopAlways == ManagerSpec => []StopInv
<1>1. InitManager => StopInv
  BY DEF InitManager, StopInv, GoneInv, DownInv, CleaningInv
<1> QED BY <1>1, StopStep, ManagerAlwaysTyped, PTL DEF ManagerSpec

\* A unit that a successful --cleanup-nft left down forwards nothing and tracks
\* nothing, whatever an Apply after Stop, a kill, a reboot, a failed write or a
\* transaction of unknown outcome had left in the kernel.
THEOREM StoppedAlwaysClean == ManagerSpec => []StoppedClean
<1>1. StopInv => StoppedClean
  BY DEF StopInv, GoneInv, DownInv, StoppedClean
<1> QED BY <1>1, StopAlways, PTL

-----------------------------------------------------------------------------
\* Serving.  The retirement invariant of the backend carries over to its calls
\* by the Manager, and decides at the end of an Apply which listeners may run
\* and which rows may be shown as stopped.

\* Two kernel scopes of one configuration that meet are one path.
LEMMA PlanDisjoint ==
  ASSUME MgrType, NEW C \in Configs, NEW cached \in BOOLEAN,
         NEW p \in PlanNFT(C, cached), NEW q \in PlanNFT(C, cached),
         Covers[p.in] \cap Covers[q.in] # {}
  PROVE  p = q
<1>1. PICK r \in Planned(C, cached) : p \in NFTPaths(r, Resolved(r, cached))
  BY DEF PlanNFT
<1>2. PICK s \in Planned(C, cached) : q \in NFTPaths(s, Resolved(s, cached))
  BY DEF PlanNFT
<1>3. r \in C /\ s \in C /\ r.on /\ s.on
  BY DEF Planned
<1>4. p.in \in r.ins /\ q.in \in s.ins
  BY <1>1, <1>2 DEF NFTPaths
<1>5. p \in Paths /\ q \in Paths
  BY PlanTyped
<1>6. Clash(p.in, q.in)
  BY <1>5, ConstantsOK, ScopesOK
<1>7. r = s
  BY <1>3, <1>4, <1>6, ManagerConstants DEF ValidConfig
<1>8. p.in = q.in
  BY <1>3, <1>4, <1>6, <1>7, ScopesOK
<1> QED BY <1>1, <1>2, <1>7, <1>8 DEF NFTPaths

\* The loopback side of a wildcard meets a scope only if the wildcard does.
LEMMA LoopbackClash ==
  ASSUME NEW i \in DOMAIN GoPoints, Listen[i].host = "any", NEW j, Clash(Loopback[i], j)
  PROVE  Clash(i, j)
BY ScopesOK DEF Clash

\* buildPlan gives no point to both planes.
LEMMA PlanesApart ==
  ASSUME MgrType, NEW C \in Configs, NEW cached \in BOOLEAN,
         NEW g \in PlanGo(C, cached), NEW p \in PlanNFT(C, cached)
  PROVE  g.in \in DOMAIN GoPoints /\ GoPoints[g.in] \cap Covers[p.in] = {}
<1>1. PICK r \in Planned(C, cached) : g \in GoPaths(r, Resolved(r, cached))
  BY DEF PlanGo
<1>2. PICK s \in Planned(C, cached) : p \in NFTPaths(s, Resolved(s, cached))
  BY DEF PlanNFT
<1>3. r \in C /\ s \in C /\ r.on /\ s.on /\ r.ins \subseteq DOMAIN GoPoints
  BY ScopesOK DEF Planned
<1>4. p.in \in s.ins /\ InKernel(s, p.in, Resolved(s, cached))
  BY <1>2 DEF NFTPaths
<1>5. p.in \in DOMAIN Covers
  BY PlanTyped, ConstantsOK
<1>6. ASSUME NEW i \in r.ins, Clash(i, p.in) PROVE r = s /\ i = p.in
  <2>1. r = s
    BY <1>3, <1>4, <1>6, ManagerConstants DEF ValidConfig
  <2> QED BY <1>3, <1>4, <1>6, <2>1, ScopesOK
<1>7. CASE \E i \in r.ins : g.in = i /\ ~InKernel(r, i, Resolved(r, cached))
  <2>1. PICK i \in r.ins : g.in = i /\ ~InKernel(r, i, Resolved(r, cached))
    BY <1>7
  <2>2. ~Clash(i, p.in)
    BY <1>4, <1>6, <2>1
  <2> QED BY <1>3, <1>5, <2>1, <2>2, ScopesOK
<1>8. CASE \E i \in r.ins : g.in = Loopback[i] /\ Listen[i].host = "any"
  <2>1. PICK i \in r.ins : g.in = Loopback[i] /\ Listen[i].host = "any"
    BY <1>8
  <2>2. i \in DOMAIN GoPoints /\ g.in \in DOMAIN GoPoints
    BY <1>3, <2>1, ScopesOK
  <2>3. CASE i = p.in
    BY <1>5, <2>1, <2>2, <2>3, ScopesOK
  <2>4. CASE i # p.in
    <3>1. ~Clash(g.in, p.in)
      BY <1>6, <2>1, <2>2, <2>4, LoopbackClash
    <3> QED BY <1>5, <2>2, <3>1, ScopesOK
  <2> QED BY <2>3, <2>4
<1> QED BY <1>1, <1>7, <1>8 DEF GoPaths, GoPath

\* The scope of every listener of a plan is one at which it can listen.
LEMMA GoScopes ==
  ASSUME NEW C \in Configs, NEW cached \in BOOLEAN, NEW g \in PlanGo(C, cached)
  PROVE  g.in \in DOMAIN GoPoints
<1>1. PICK r \in Planned(C, cached) : g \in GoPaths(r, Resolved(r, cached))
  BY DEF PlanGo
<1>2. r.ins \subseteq DOMAIN GoPoints
  BY ScopesOK DEF Planned
<1> QED BY <1>1, <1>2, ScopesOK DEF GoPaths, GoPath

\* The kernel paths of a plan belong to rules of the configuration.
LEMMA PlanRules ==
  ASSUME NEW C \in Configs, NEW cached \in BOOLEAN, NEW p \in PlanNFT(C, cached)
  PROVE  \E r \in C : r.id = p.rule
BY DEF PlanNFT, Planned, NFTPaths

\* A new request of the Manager, or its Delete.
LEMMA AskingRetirement ==
  ASSUME TypeOK, Retirement, Asking, PlanInv'
  PROVE  Retirement'
<1>0. mem \in Memory
  BY DEF TypeOK
<1>1. /\ mem'.init = mem.init /\ mem'.recovered = mem.recovered /\ mem'.applied = mem.applied
      /\ mem'.act = mem.act /\ mem'.pen = mem.pen /\ mem'.sus = mem.sus
      /\ table' = table /\ conns' = conns /\ done' = done
      /\ pc = "idle" /\ pc' \in {"health", "begin"} /\ outcome' = "none"
  BY <1>0 DEF Asking, Memory, kernelVars
<1>2. TableInv' /\ MemInv' /\ IdleInv' /\ DoneInv'
  BY <1>1 DEF Retirement, TableInv, MemInv, IdleInv, Known, DoneInv
<1>3. /\ AdmitInv' /\ CallInv' /\ PrepareInv' /\ VerifyInv' /\ CheckInv' /\ RevokeInv'
      /\ OutcomeInv' /\ Reported'
  BY <1>1 DEF AdmitInv, CallInv, InCall, PrepareInv, VerifyInv, CheckInv, RevokeInv, OutcomeInv,
    Reported
<1> QED BY <1>2, <1>3 DEF Retirement

\* The retirement invariant under every step of the Manager.
LEMMA ManagerRetirement ==
  ASSUME TypeOK, MgrType, Retirement, HistoryKept, HistoryKept', HistoryTrue',
         [ManagerNext]_allVars
  PROVE  Retirement'
<1>1. CASE [Next]_vars
  BY <1>1, RetirementStep
<1>2. CASE Resting
  <2>1. /\ UNCHANGED <<table, conns, mem, pc, call, plan, offload, outcome>>
    BY <1>2 DEF Resting, kernelVars
  <2>2. CASE done' = done
    BY <2>1, <2>2, ShrinkStep
  <2>3. CASE done' = {}
    <3>1. /\ Desired' = Desired /\ Known' = Known /\ Owned' = Owned /\ Potential' = Potential
          /\ ReportedUnknown' = ReportedUnknown /\ All(call.tgt)' = All(call.tgt)
      BY <2>1 DEF Desired, Known, Owned, Potential, ReportedUnknown, All
    <3>2. /\ PlanInv' /\ TableInv' /\ MemInv' /\ IdleInv' /\ AdmitInv' /\ CallInv' /\ PrepareInv'
      BY <2>1, <3>1 DEF Retirement, PlanInv, TableInv, MemInv, IdleInv, AdmitInv, Covered,
        CallInv, InCall, PrepareInv
    <3>3. /\ VerifyInv' /\ CheckInv' /\ RevokeInv' /\ DoneInv' /\ OutcomeInv' /\ Reported'
      BY <2>1, <2>3, <3>1 DEF Retirement, VerifyInv, CheckInv, RevokeInv, DoneInv, OutcomeInv,
        Reported
    <3> QED BY <3>2, <3>3 DEF Retirement
  <2> QED BY <1>2, <2>2, <2>3 DEF Resting
<1>3. CASE Ending
  <2>1. Restart /\ table' = table /\ conns' = conns
    BY <1>3 DEF Ending, NewProcess, Restart, kernelVars, TypeOK, ControlType
  <2> QED BY <2>1, RestartStep
<1>4. CASE Asking /\ plan' = {}
  <2>1. PlanInv'
    BY <1>4 DEF PlanInv
  <2> QED BY <1>4, <2>1, AskingRetirement
<1>5. ASSUME Asking, NEW C \in Configs, NEW cached \in BOOLEAN, ApplyBegin(C, cached)
      PROVE  Retirement'
  <2>1. plan' = PlanNFT(C, cached)
    BY <1>5 DEF ApplyBegin
  <2>2. PlanInv'
    BY <2>1, PlanDisjoint DEF PlanInv
  <2> QED BY <1>5, <2>2, AskingRetirement
<1> QED BY <1>1, <1>2, <1>3, <1>4, <1>5, Classified

\* Steps outside Replace leave its answer alone.
LEMMA AnswerRests ==
  ASSUME AnswerInv, UNCHANGED <<mem, pc, call, plan, offload, outcome>>
  PROVE  AnswerInv'
<1>1. Desired' = Desired
  BY DEF Desired
<1> QED BY <1>1 DEF AnswerInv, InCall

\* So does a step that gives no answer and is not inside the call.
LEMMA AnswerPending ==
  ASSUME outcome' \notin {"ok", "dep"}, ~InCall'
  PROVE  AnswerInv'
BY DEF AnswerInv

\* A step inside the call that keeps what it will answer.
LEMMA AnswerMoves ==
  ASSUME Retirement, AnswerInv, InCall, NEW label, Goto(label), label # "idle",
         call'.adm = call.adm, call'.dep = call.dep, call'.next = call.next,
         \/ call'.round = call.round /\ call'.tgt = call.tgt /\ (call.perr => call'.perr)
         \/ call'.perr
         \/ call'.tgt.act = call'.next
         \/ call'.round # "final"
  PROVE  AnswerInv'
<1>1. outcome' = "none" /\ Desired' = Desired
  BY DEF Retirement, OutcomeInv, Goto, InCall, Desired
<1> QED BY <1>1 DEF AnswerInv

\* What Replace answers, step by step.
LEMMA AnswerStep ==
  ASSUME TypeOK, Retirement, AnswerInv, [Next]_vars
  PROVE  AnswerInv'
<1>0. mem \in Memory /\ call \in Calls
  BY DEF TypeOK, ControlType
<1>1. CASE UNCHANGED vars \/ OpenConn \/ CloseConn \/ InstallTool \/ PolicyChange \/ FlushRuleset
  BY <1>1, AnswerRests DEF vars, OpenConn, CloseConn, InstallTool, PolicyChange, FlushRuleset
<1>2. CASE Crash \/ Reboot \/ \E P \in Plans : Reconcile(P)
  BY <1>2, AnswerPending DEF Crash, Reboot, Restart, Reconcile, InCall
<1>3. CASE AlreadyHealthy
  <2>1. /\ Return("ok") /\ mem' = mem /\ Healthy
    BY <1>3 DEF AlreadyHealthy, UpToDate
  <2>2. Desired = {} \/ mem.act = Desired
    BY <2>1 DEF Healthy, Retirement, MemInv
  <2>3. Recorded(Desired, mem.act) /\ Desired' = Desired
    BY <2>1, <2>2 DEF Recorded, SameTuple, Return, Desired
  <2> QED BY <2>1, <2>3 DEF AnswerInv, Return, InCall
<1>4. CASE \/ HealthFails \/ BeginFails \/ RecoverFails \/ AdmitNothing \/ AdmitUnreadable
           \/ ObserveFails \/ ApplyFails \/ VerifyFails \/ CheckpointFails \/ RevokeFails
  BY <1>4, AnswerPending DEF HealthFails, BeginFails, RecoverFails, AdmitNothing, AdmitUnreadable,
    ObserveFails, ApplyFails, VerifyFails, CheckpointFails, RevokeFails, Return, InCall
<1>5. CASE \/ Replace \/ BeginCurrentBoot \/ BeginRollover
           \/ RecoverUnchanged \/ RecoverHistory \/ RecoverUnverified
  <2>1. pc # "idle" /\ (Goto("begin") \/ Goto("recover") \/ Goto("admit"))
    BY <1>5 DEF Replace, BeginCurrentBoot, BeginRollover, RecoverUnchanged, RecoverHistory,
      RecoverUnverified
  <2>2. outcome' = "none" /\ ~InCall'
    BY <2>1 DEF Retirement, OutcomeInv, Goto, InCall
  <2> QED BY <2>2, AnswerPending
<1>6. CASE Admit
  <2>1. /\ call'.next = Admissible /\ call'.adm = Rejection /\ call'.dep = ~mem.tool
        /\ call'.round = "final" => call'.tgt.act = Admissible
    BY <1>6 DEF Admit, NoCall, FinalTarget
  <2>2. mem.tool /\ Rejection = {} => Admissible = Desired
    BY DEF Admissible, Affects
  <2>3. outcome' = "none" /\ Desired' = Desired
    BY <1>6 DEF Admit, Retirement, OutcomeInv, Goto, Desired
  <2> QED BY <2>1, <2>2, <2>3 DEF AnswerInv
<1>7. CASE Prepare \/ (PrepareFails /\ MemSnapshot # Empty)
  <2>1. /\ InCall /\ Goto("apply") /\ call'.adm = call.adm /\ call'.dep = call.dep
        /\ call'.next = call.next /\ call'.round = call.round
        /\ call'.perr \/ call'.tgt = call.tgt
    BY <1>0, <1>7 DEF Prepare, PrepareFails, InCall, Calls
  <2>2. ~call.perr
    BY <1>7 DEF Prepare, PrepareFails, Retirement, CallInv, InCall
  <2> QED BY <2>1, <2>2, AnswerMoves
<1>8. CASE (PrepareFails /\ MemSnapshot = Empty) \/ (Verify /\ call.perr)
  BY <1>8, AnswerPending DEF PrepareFails, Verify, Return, InCall
<1>9. CASE Apply \/ (Verify /\ ~call.perr)
  <2>1. InCall /\ (Goto("verify") \/ Goto("checkpoint")) /\ call' = call
    BY <1>9 DEF Apply, Verify, InCall
  <2> QED BY <2>1, AnswerMoves
<1>10. CASE RevokeNone \/ RevokeDelete \/ RevokeRelist
  <2>1. /\ InCall /\ (Goto("revoke") \/ Goto("relist")) /\ call'.adm = call.adm
        /\ call'.dep = call.dep /\ call'.next = call.next /\ call'.round = call.round
        /\ call'.tgt = call.tgt /\ call'.perr = call.perr
    BY <1>0, <1>10 DEF RevokeNone, RevokeDelete, RevokeRelist, InCall, Calls
  <2> QED BY <2>1, AnswerMoves
<1>11. CASE RevokeDone
  <2>1. /\ InCall /\ Goto("prepare") /\ call'.adm = call.adm /\ call'.dep = call.dep
        /\ call'.next = call.next /\ call'.tgt.act = call'.next
    BY <1>0, <1>11 DEF RevokeDone, InCall, Calls, FinalTarget
  <2> QED BY <2>1, AnswerMoves
<1>12. CASE SkipApplied \/ Checkpoint
  <2>0. /\ pc \in {"prepare", "checkpoint"} /\ InCall /\ AfterObjects(mem) /\ ~call.perr
    BY <1>12 DEF SkipApplied, Checkpoint, InCall, Retirement, CallInv
  <2>1. mem.act = call.tgt.act
    BY <1>12 DEF SkipApplied, AlreadyApplied, Checkpoint, Retirement, MemInv, CheckInv
  <2>2. CASE call.round = "stage" /\ call' = [call EXCEPT !.todo = call.pend] /\ Goto("revoke")
    <3>1. /\ call'.adm = call.adm /\ call'.dep = call.dep /\ call'.next = call.next
          /\ call'.round = "stage"
      BY <1>0, <2>2 DEF Calls
    <3> QED BY <2>0, <2>2, <3>1, AnswerMoves
  <2>3. CASE /\ call.round = "final"
             /\ mem' = [mem EXCEPT !.pol = call.adm, !.pen = {}, !.unknown = call.dep]
             /\ Return(IF call.adm = {} /\ ~call.dep THEN "ok"
                       ELSE IF call.dep THEN "dep" ELSE "suspended")
    <3>1. mem'.act = mem.act /\ mem'.unknown = call.dep
      BY <1>0, <2>3 DEF Memory
    <3>2. Desired' = Desired /\ ~InCall'
      BY <2>3 DEF Return, Desired, InCall
    <3>3. CASE call.adm = {} /\ ~call.dep
      <4>1. mem'.act = Desired'
        BY <2>0, <2>1, <2>3, <3>1, <3>2, <3>3 DEF AnswerInv
      <4>2. Recorded(Desired', mem'.act) /\ outcome' = "ok"
        BY <2>3, <3>3, <4>1, Recording DEF Return
      <4> QED BY <3>2, <4>2 DEF AnswerInv
    <3>4. CASE ~(call.adm = {} /\ ~call.dep)
      <4>1. outcome' # "ok" /\ (outcome' = "dep" => mem'.unknown)
        BY <2>3, <3>1, <3>4 DEF Return
      <4> QED BY <3>2, <4>1 DEF AnswerInv
    <3> QED BY <3>3, <3>4
  <2> QED BY <2>0, <2>2, <2>3 DEF AfterObjects
<1>13. CASE PrepareFails \/ Prepare
  BY <1>13, <1>7, <1>8
<1>14. CASE Verify \/ Apply
  BY <1>14, <1>8, <1>9
<1>15. CASE ReconcileStep
  BY <1>15, <1>3, <1>4, <1>5, <1>6, <1>10, <1>11, <1>12, <1>13, <1>14 DEF ReconcileStep
<1> QED
  BY <1>1, <1>2, <1>15 DEF Next, Environment

\* The answer under every step of the Manager.
LEMMA ManagerAnswers ==
  ASSUME TypeOK, Retirement, AnswerInv, [ManagerNext]_allVars
  PROVE  AnswerInv'
<1>1. CASE [Next]_vars
  BY <1>1, AnswerStep
<1>2. CASE Resting
  BY <1>2, AnswerRests DEF Resting
<1>3. CASE Ending
  BY <1>3, AnswerPending DEF Ending, NewProcess, InCall
<1>4. CASE Asking
  BY <1>4, AnswerPending DEF Asking, InCall
<1> QED BY <1>1, <1>2, <1>3, <1>4, Classified

\* What a step of the backend leaves to the Manager.
LEMMA BackendEffect ==
  ASSUME TypeOK, Retirement, ReconcileStep
  PROVE  /\ UNCHANGED <<plan, offload>> /\ Desired' = Desired
         /\ pc' = "idle" => outcome' # "none"
         /\ conns' \subseteq conns
         /\ table'.act \subseteq table.act \cup Desired
<1>1. /\ UNCHANGED <<plan, offload>>
      /\ pc' = "idle" => outcome' # "none"
  BY DEF ReconcileStep, AlreadyHealthy, HealthFails, Replace, BeginCurrentBoot, BeginRollover,
    BeginFails, RecoverUnchanged, RecoverHistory, RecoverUnverified, RecoverFails, Admit,
    AdmitNothing, AdmitUnreadable, ObserveFails, SkipApplied, Prepare, PrepareFails, Apply,
    ApplyFails, Verify, VerifyFails, Checkpoint, CheckpointFails, RevokeNone, RevokeDelete,
    RevokeRelist, RevokeFails, RevokeDone, AfterObjects, Return, Goto
<1>2. conns' \subseteq conns
  <2>1. CASE RevokeDelete
    BY <2>1 DEF RevokeDelete, Entries
  <2>2. CASE ~RevokeDelete
    BY <2>2 DEF ReconcileStep, AlreadyHealthy, HealthFails, Replace, BeginCurrentBoot, BeginRollover,
      BeginFails, RecoverUnchanged, RecoverHistory, RecoverUnverified, RecoverFails, Admit,
      AdmitNothing, AdmitUnreadable, ObserveFails, SkipApplied, Prepare, PrepareFails, Apply,
      ApplyFails, Verify, VerifyFails, Checkpoint, CheckpointFails, RevokeNone,
      RevokeRelist, RevokeFails, RevokeDone, kernelVars
  <2> QED BY <2>1, <2>2
<1>3. table' = table \/ (pc = "apply" /\ table' = call.tgt)
  BY DEF ReconcileStep, AlreadyHealthy, HealthFails, Replace, BeginCurrentBoot, BeginRollover,
    BeginFails, RecoverUnchanged, RecoverHistory, RecoverUnverified, RecoverFails, Admit,
    AdmitNothing, AdmitUnreadable, ObserveFails, SkipApplied, Prepare, PrepareFails, Apply,
    ApplyFails, Verify, VerifyFails, Checkpoint, CheckpointFails, RevokeNone, RevokeDelete,
    RevokeRelist, RevokeFails, RevokeDone, kernelVars
<1>4. pc = "apply" => call.tgt.act \subseteq Desired
  BY DEF Retirement, CallInv, InCall
<1>5. Desired' = Desired
  BY <1>1 DEF Desired
<1> QED BY <1>1, <1>2, <1>3, <1>4, <1>5

-----------------------------------------------------------------------------
\* The end of an Apply.

\* The scope of a spec is a listen scope, and its path one that can be asked for.
LEMMA SpecScope ==
  ASSUME NEW s \in Specs
  PROVE  /\ s.in \in DOMAIN Covers
         /\ \E p \in Paths : p.rule = s.rule /\ p.in = s.in /\ p.to = s.to
BY ConstantsOK DEF Specs, Spec

\* What retirementState reports is what the Manager treats as live.
LEMMA LiveReported ==
  ASSUME mem \in Memory
  PROVE  Potential \subseteq MaybeLive /\ MaybeLive \subseteq Known /\ Known \subseteq Specs
BY DEF Potential, MaybeLive, Verified, Known, Memory

\* nftRuleState calls no rule absent of which memory knows a path.
LEMMA KnownState ==
  ASSUME NEW s \in Known
  PROVE  KernelState(s.rule) # "inactive-verified"
<1>1. CASE \E q \in mem.pen : q.rule = s.rule
  BY <1>1 DEF KernelState
<1>2. CASE (\A q \in mem.pen : q.rule # s.rule) /\ \E q \in mem.sus : q.rule = s.rule
  BY <1>2 DEF KernelState
<1>3. CASE (\A q \in mem.pen : q.rule # s.rule) /\ (\A q \in mem.sus : q.rule # s.rule)
  <2>1. s \in mem.act
    BY <1>3 DEF Known
  <2> QED BY <1>3, <2>1 DEF KernelState
<1> QED BY <1>1, <1>2, <1>3

\* The reconciliation has answered when the Manager goes on.
LEMMA Answered ==
  ASSUME TypeOK, PlanesInv, AnswerInv, HooksRead, phase = "apply", pc = "idle"
  PROVE  \/ outcome \in {"ok", "suspended"}
         \/ NFTErr /\ ReportedUnknown
         \/ outcome = "err" /\ ~ReportedUnknown
<1>1. outcome \in {"ok", "suspended", "dep", "err"}
  BY DEF TypeOK, ControlType, PlanesInv, HooksRead
<1> QED BY <1>1 DEF AnswerInv, NFTErr, ReportedUnknown

\* goPathBlockedByNFT lets a listener run only where the kernel neither
\* forwards nor tracks anything.
LEMMA Unblocked ==
  ASSUME TypeOK, Retirement, PlanesInv, AnswerInv, HooksRead,
         phase = "apply", pc = "idle", NEW g \in goPlan, ~GoPathBlocked(g)
  PROVE  /\ \A p \in plan : GoPoints[g.in] \cap Covers[p.in] = {}
         /\ \A s \in table.act : GoPoints[g.in] \cap Covers[s.in] = {}
         /\ \A c \in conns : c.point \notin GoPoints[g.in]
<1>1. g.in \in DOMAIN GoPoints /\ \A p \in plan : GoPoints[g.in] \cap Covers[p.in] = {}
  BY DEF PlanesInv
<1>2. \A q \in Desired : GoPoints[g.in] \cap Covers[q.in] = {}
  BY <1>1 DEF Desired, Spec
<1>3. SUFFICES \E T : /\ Recorded(table.act, T) /\ Accounted(conns, T)
                      /\ \A q \in T : GoPoints[g.in] \cap Covers[q.in] = {}
  BY <1>1 DEF Recorded, Accounted, SameTuple, Matches
<1>4. CASE outcome \in {"ok", "suspended"}
  BY <1>2, <1>4 DEF Retirement, OutcomeInv
<1>5. CASE NFTErr /\ ReportedUnknown
  BY <1>5 DEF GoPathBlocked
<1>6. CASE outcome = "err" /\ ~ReportedUnknown
  <2>1. Recorded(table.act, Desired \cup Potential) /\ Accounted(conns, Desired \cup Potential)
    BY <1>6 DEF Retirement, Reported
  <2>2. ASSUME NEW q \in Potential PROVE GoPoints[g.in] \cap Covers[q.in] = {}
    <3>1. q \in MaybeLive /\ q \in Specs
      BY LiveReported DEF TypeOK
    <3>2. ~Clash(g.in, q.in)
      BY <1>6, <3>1 DEF GoPathBlocked, NFTErr
    <3> QED BY <1>1, <3>1, <3>2, SpecScope, ScopesOK
  <2> QED BY <1>2, <2>1, <2>2
<1> QED BY <1>4, <1>5, <1>6, Answered

\* Every listener that runs after an Apply has a path of the plan that is not
\* blocked.
LEMMA RunnersAfterApply ==
  ASSUME ApplyEnd, NEW h \in runners'
  PROVE  \E g \in goPlan : g.in = h.in /\ ~GoPathBlocked(g)
<1>1. CASE h \in runners /\ \A g \in InPlan(h) : ~GoPathBlocked(g)
  <2>1. PICK g \in InPlan(h) : TRUE
    BY DEF ApplyEnd
  <2> QED BY <1>1, <2>1 DEF InPlan, PathKey
<1>2. CASE h \in goPlan /\ ~GoPathBlocked(h)
  BY <1>2
<1> QED BY <1>1, <1>2 DEF ApplyEnd

\* The rows after an Apply.
LEMMA RowsAfterApply ==
  ASSUME ApplyEnd
  PROVE  /\ DOMAIN rows' = {Row(id) : id \in RuleIDs(cfg)} \cup BlockedRows
         /\ \A k \in BlockedRows : (\A r \in cfg : Row(r.id) # k) => rows'[k].run
<1>1. rows' = Rows(runners', BlockedRows)
  BY DEF ApplyEnd
<1> QED BY <1>1 DEF Rows

\* Rules, tombstones and the row of an unverified kernel are told apart.
LEMMA RowKinds ==
  ASSUME NEW a, NEW b
  PROVE  Row(a) # Tombstone(b) /\ Row(a) # Unverified
<1>1. Row(a)[1] = "rule" /\ Tombstone(b)[1] = "kernel-pending" /\ Unverified[1] = "kernel-recovery"
  BY DEF Row, Tombstone, Unverified
<1> QED BY <1>1

\* nftRetirementStatus: a path that may be live is shown.
LEMMA LiveShown ==
  ASSUME ApplyEnd, TypeOK, NFTErr, NEW s \in MaybeLive
  PROVE  \E k \in DOMAIN rows' : Shows(k, s.rule)'
<1>0. mem' = mem
  BY DEF ApplyEnd
<1>1. CASE Row(s.rule) \in BlockedRows
  <2>1. KernelState(s.rule)' = KernelState(s.rule)
    BY <1>0 DEF KernelState, ReportedUnknown
  <2>2. Shows(Row(s.rule), s.rule)'
    BY <2>1, LiveReported, KnownState DEF Shows, TypeOK
  <2> QED BY <1>1, <2>2, RowsAfterApply
<1>2. CASE Tombstone(s.rule) \in BlockedRows
  <2>1. rows'[Tombstone(s.rule)].run
    BY <1>2, RowsAfterApply, RowKinds
  <2>2. Shows(Tombstone(s.rule), s.rule)'
    BY <2>1 DEF Shows
  <2> QED BY <1>2, <2>2, RowsAfterApply
<1> QED BY <1>1, <1>2 DEF BlockedRows

\* A path that is asked for is shown: it is in memory, or its rule has an error.
LEMMA DesiredShown ==
  ASSUME ApplyEnd, TypeOK, PlanesInv, AnswerInv, NEW s \in Desired
  PROVE  \E k \in DOMAIN rows' : Shows(k, s.rule)'
<1>0. UNCHANGED <<mem, plan, outcome>>
  BY DEF ApplyEnd
<1>1. PICK p \in plan : s.rule = p.rule
  BY DEF Desired, Spec
<1>2. Row(s.rule) \in DOMAIN rows'
  BY <1>1, RowsAfterApply DEF PlanesInv, ApplyEnd, RuleIDs
<1>3. CASE NFTErr
  BY <1>0, <1>1, <1>2, <1>3 DEF Shows, NFTErr, PlanUsesNFT
<1>4. CASE ~NFTErr
  <2>1. PICK q \in mem.act : q.rule = s.rule
    BY <1>4 DEF NFTErr, AnswerInv, Recorded, SameTuple
  <2>2. KernelState(s.rule)' = KernelState(s.rule)
    BY <1>0 DEF KernelState, ReportedUnknown
  <2>3. KernelState(s.rule)' # "inactive-verified"
    BY <2>1, <2>2, KnownState DEF Known
  <2> QED BY <1>2, <2>3 DEF Shows
<1> QED BY <1>3, <1>4

\* An unknown state of the kernel is shown in a row of its own, for any rule.
LEMMA UnknownShown ==
  ASSUME ApplyEnd, NFTErr, ReportedUnknown, NEW id
  PROVE  \E k \in DOMAIN rows' : Shows(k, id)'
<1>1. Unverified \in BlockedRows
  BY DEF BlockedRows
<1>2. rows'[Unverified].run /\ Unverified \in DOMAIN rows'
  BY <1>1, RowsAfterApply, RowKinds
<1> QED BY <1>2 DEF Shows

\* updateRuleStates and retireRemovedRules hide nothing.
LEMMA ShownAfterApply ==
  ASSUME TypeOK, Retirement, PlanesInv, AnswerInv, MarkedInv, HooksRead, ApplyEnd
  PROVE  NothingHidden'
<1>0. phase = "apply" /\ pc = "idle" /\ UNCHANGED <<table, conns>>
  BY DEF ApplyEnd, kernelVars
<1>1. CASE NFTErr /\ ReportedUnknown
  BY <1>0, <1>1, UnknownShown DEF NothingHidden, MarkedInv
<1>2. CASE \/ outcome \in {"ok", "suspended"}
           \/ outcome = "err" /\ ~ReportedUnknown
  <2>1. PICK T \in SUBSET Specs :
          /\ Recorded(table.act, T) /\ Accounted(conns, T)
          /\ \A q \in T : q \in Desired \/ (NFTErr /\ q \in MaybeLive)
    <3>1. Desired \subseteq Specs /\ Potential \subseteq MaybeLive /\ MaybeLive \subseteq Specs
      BY LiveReported DEF TypeOK, ControlType, Desired, Specs
    <3>2. CASE outcome \in {"ok", "suspended"}
      BY <3>1, <3>2 DEF Retirement, OutcomeInv
    <3>3. CASE outcome = "err" /\ ~ReportedUnknown
      BY <3>1, <3>3 DEF Retirement, Reported, NFTErr
    <3> QED BY <1>2, <3>2, <3>3
  <2>2. \A q \in T : \E k \in DOMAIN rows' : Shows(k, q.rule)'
    BY <2>1, LiveShown, DesiredShown
  <2>3. \A s \in table.act : \E k \in DOMAIN rows' : Shows(k, s.rule)'
    BY <2>1, <2>2 DEF Recorded, SameTuple
  <2>4. ASSUME NEW c \in conns
        PROVE  \E k \in DOMAIN rows', p \in Paths : Matches(c, p) /\ Shows(k, p.rule)'
    <3>1. PICK q \in T : Matches(c, q)
      BY <2>1 DEF Accounted
    <3>2. PICK p \in Paths : p.rule = q.rule /\ p.in = q.in /\ p.to = q.to
      BY SpecScope
    <3>3. Matches(c, p)
      BY <3>1, <3>2 DEF Matches
    <3> QED BY <2>2, <3>2, <3>3
  <2> QED BY <1>0, <2>3, <2>4 DEF NothingHidden
<1> QED BY <1>0, <1>1, <1>2, Answered

-----------------------------------------------------------------------------
\* The serving invariant, part by part.

\* Nothing the kernel's rows depend on changes, and nothing new is forwarded.
LEMMA HiddenRests ==
  ASSUME NothingHidden, UNCHANGED <<svc, phase, rows, mem, outcome, plan>>,
         table'.act \subseteq table.act, conns' \subseteq conns
  PROVE  NothingHidden'
<1>1. \A k, id : Shows(k, id)' = Shows(k, id)
  BY DEF Shows, KernelState, ReportedUnknown, NFTErr, PlanUsesNFT
<1> QED BY <1>1 DEF NothingHidden

\* A client that connects meets no listener, and a row that is shown.
LEMMA OpenConnServes ==
  ASSUME TypeOK, NoDoublePath, MarkedInv, NothingHidden, OpenConn, UNCHANGED mgrVars
  PROVE  NoDoublePath' /\ MarkedInv' /\ NothingHidden'
<1>1. PICK s \in table.act : \E p \in Covers[s.in] : conns' = conns \cup {[point |-> p, to |-> s.to]}
  BY DEF OpenConn
<1>2. PICK x \in Covers[s.in] : conns' = conns \cup {[point |-> x, to |-> s.to]}
  BY <1>1
<1>3. s \in Specs
  BY DEF TypeOK, KernelType, Snapshot
<1>4. PICK q \in Paths : q.rule = s.rule /\ q.in = s.in /\ q.to = s.to
  BY <1>3, SpecScope
<1>5. Matches([point |-> x, to |-> s.to], q)
  BY <1>4 DEF Matches
<1>6. table' = table /\ runners' = runners
  BY DEF OpenConn, mgrVars
<1>7. NoDoublePath'
  BY <1>2, <1>6 DEF NoDoublePath
<1>8. MarkedInv'
  BY <1>2, <1>5 DEF MarkedInv
<1>9. \A k, id : Shows(k, id)' = Shows(k, id)
  BY DEF Shows, KernelState, ReportedUnknown, NFTErr, PlanUsesNFT, OpenConn, mgrVars
<1>10. svc' = svc /\ phase' = phase /\ outcome' = outcome /\ rows' = rows
  BY DEF OpenConn, mgrVars
<1>11. NothingHidden'
  <2> SUFFICES ASSUME svc = "up", phase = "free", outcome # "none"
               PROVE  NothingHidden'
    BY <1>10 DEF NothingHidden
  <2>1. PICK k \in DOMAIN rows : Shows(k, s.rule)
    BY DEF NothingHidden
  <2>2. \E l \in DOMAIN rows, p \in Paths : Matches([point |-> x, to |-> s.to], p) /\ Shows(l, p.rule)
    BY <1>4, <1>5, <2>1
  <2> QED BY <1>2, <1>6, <1>9, <1>10, <2>2 DEF NothingHidden
<1> QED BY <1>7, <1>8, <1>11

\* An Apply or a Refresh begins: changed listeners are stopped before the
\* backend is asked for anything.
LEMMA ApplyBeginServes ==
  ASSUME MgrType, ServeInv, NEW C \in Configs, NEW cached \in BOOLEAN, ApplyBegin(C, cached)
  PROVE  PlanesInv' /\ RunnersInv' /\ NoDoublePath' /\ MarkedInv' /\ NothingHidden'
<1>1. /\ plan' = PlanNFT(C, cached) /\ goPlan' = PlanGo(C, cached) /\ cfg' = C
      /\ pc' = "health" /\ phase' = "apply" /\ table' = table /\ conns' = conns
      /\ runners' = StopChangedRunners(runners, goPlan')
  BY DEF ApplyBegin, kernelVars
<1>2. PlanesInv'
  BY <1>1, PlanesApart, GoScopes, PlanRules DEF PlanesInv
<1>3. ASSUME NEW h \in runners' PROVE h \in runners /\ \E g \in goPlan' : g.in = h.in
  BY <1>1, <1>3 DEF StopChangedRunners, SameSlot
<1>4. RunnersInv'
  BY <1>1, <1>2, <1>3 DEF RunnersInv, PlanesInv
<1>5. NoDoublePath' /\ MarkedInv'
  BY <1>1, <1>3 DEF ServeInv, NoDoublePath, MarkedInv
<1> QED BY <1>1, <1>2, <1>4, <1>5 DEF NothingHidden

\* A step of the backend installs only what the plan asks for.
LEMMA BackendServes ==
  ASSUME TypeOK, Retirement, ServeInv, BackendStep
  PROVE  PlanesInv' /\ RunnersInv' /\ NoDoublePath' /\ MarkedInv' /\ NothingHidden'
<1>1. /\ ReconcileStep /\ phase # "free"
      /\ UNCHANGED <<svc, phase, cfg, zone, cache, goPlan, broken, runners, rows>>
  BY DEF BackendStep
<1>2. /\ plan' = plan /\ (pc' = "idle" => outcome' # "none")
      /\ conns' \subseteq conns /\ table'.act \subseteq table.act \cup Desired
  BY <1>1, BackendEffect
<1>3. PlanesInv' /\ RunnersInv'
  BY <1>1, <1>2 DEF ServeInv, PlanesInv, RunnersInv
<1>4. \A h \in runners : \A s \in Desired : GoPoints[h.in] \cap Covers[s.in] = {}
  BY DEF ServeInv, RunnersInv, Desired, Spec
<1>5. NoDoublePath' /\ MarkedInv'
  BY <1>1, <1>2, <1>4 DEF ServeInv, NoDoublePath, MarkedInv
<1> QED BY <1>1, <1>3, <1>5 DEF NothingHidden

\* An Apply ends.
LEMMA ApplyEndServes ==
  ASSUME TypeOK, Retirement, ServeInv, HooksRead, ApplyEnd
  PROVE  PlanesInv' /\ RunnersInv' /\ NoDoublePath' /\ MarkedInv' /\ NothingHidden'
<1>1. phase = "apply" /\ pc = "idle" /\ phase' = "free" /\ UNCHANGED <<table, conns, plan>>
  BY DEF ApplyEnd, kernelVars
<1>2. ASSUME NEW h \in runners'
      PROVE  /\ \A p \in plan : GoPoints[h.in] \cap Covers[p.in] = {}
             /\ \A s \in table.act : GoPoints[h.in] \cap Covers[s.in] = {}
             /\ \A c \in conns : c.point \notin GoPoints[h.in]
  <2>1. PICK g \in goPlan : g.in = h.in /\ ~GoPathBlocked(g)
    BY <1>2, RunnersAfterApply
  <2> QED BY <1>1, <2>1, Unblocked DEF ServeInv
<1>3. PlanesInv' /\ RunnersInv' /\ NoDoublePath' /\ MarkedInv'
  BY <1>1, <1>2 DEF ServeInv, PlanesInv, RunnersInv, NoDoublePath, MarkedInv
<1> QED BY <1>3, ShownAfterApply DEF ServeInv

\* A listener that is gone serves nothing, and a process that is not up shows
\* nothing.
LEMMA GoneServes ==
  ASSUME MarkedInv, runners' = {}, phase' # "apply", svc' # "up" \/ phase' # "free",
         conns' \subseteq conns
  PROVE  PlanesInv' /\ RunnersInv' /\ NoDoublePath' /\ MarkedInv' /\ NothingHidden'
BY DEF MarkedInv, PlanesInv, RunnersInv, NoDoublePath, NothingHidden

\* A step that touches neither the plan nor the listeners.
LEMMA RestServes ==
  ASSUME ServeInv, UNCHANGED <<svc, phase, rows, mem, outcome, plan, goPlan, cfg, pc, runners>>,
         table'.act \subseteq table.act, conns' \subseteq conns
  PROVE  PlanesInv' /\ RunnersInv' /\ NoDoublePath' /\ MarkedInv' /\ NothingHidden'
<1>1. PlanesInv' /\ RunnersInv' /\ NoDoublePath' /\ MarkedInv'
  BY DEF ServeInv, PlanesInv, RunnersInv, NoDoublePath, MarkedInv
<1> QED BY <1>1, HiddenRests DEF ServeInv

\* The serving invariant under every step of the Manager.
LEMMA ServeStep ==
  ASSUME TypeOK, MgrType, GoneInv, Retirement, ServeInv, HooksRead,
         [ManagerNext]_allVars
  PROVE  ServeInv'
<1> DEFINE Kept == PlanesInv' /\ RunnersInv' /\ NoDoublePath' /\ MarkedInv' /\ NothingHidden'
<1>1. SUFFICES Kept
  BY ManagerAnswers DEF ServeInv
<1>2. CASE UNCHANGED allVars \/ SetDNSServers \/ ZoneChange \/ \E id \in IDs : Expire(id)
  BY <1>2, RestServes DEF allVars, mgrVars, vars, kernelVars, SetDNSServers, ZoneChange, Expire
<1>3. ASSUME NEW C \in Configs, NEW cached \in BOOLEAN, ApplyBegin(C, cached) PROVE Kept
  BY <1>3, ApplyBeginServes
<1>4. CASE BackendStep
  BY <1>4, BackendServes
<1>5. CASE ApplyEnd
  BY <1>5, ApplyEndServes
<1>6. CASE Signal \/ StopEnd \/ Start
  <2>1. UNCHANGED <<table, conns, runners, plan, goPlan, cfg, pc, outcome>>
    BY <1>6 DEF Signal, StopEnd, Start, vars, kernelVars
  <2>2. phase' = "apply" => phase = "apply"
    BY <1>6 DEF Signal, StopEnd, Start
  <2>3. PlanesInv' /\ RunnersInv' /\ NoDoublePath' /\ MarkedInv'
    BY <2>1, <2>2 DEF ServeInv, PlanesInv, RunnersInv, NoDoublePath, MarkedInv
  <2>4. svc' # "up" \/ outcome' = "none"
    BY <1>6, <2>1 DEF Signal, StopEnd, Start, GoneInv
  <2> QED BY <2>3, <2>4 DEF NothingHidden
<1>7. CASE StopBegin \/ Exit \/ Killed \/ HostReboot
  <2>1. /\ runners' = {} /\ phase' # "apply" /\ (svc' # "up" \/ phase' # "free")
        /\ conns' \subseteq conns
    BY <1>7 DEF StopBegin, Exit, Killed, HostReboot, NewProcess, Reboot, Delete, kernelVars
  <2> QED BY <2>1, GoneServes DEF ServeInv
<1>8. CASE CleanupBegin \/ CleanupEnd
  <2>1. /\ runners' = {} /\ phase' # "apply" /\ (svc' # "up" \/ phase' # "free")
        /\ conns' \subseteq conns
    BY <1>8 DEF CleanupBegin, CleanupEnd, NewProcess, Delete, kernelVars, GoneInv
  <2> QED BY <2>1, GoneServes DEF ServeInv
<1>9. CASE OpenConn /\ UNCHANGED mgrVars
  <2>1. NoDoublePath' /\ MarkedInv' /\ NothingHidden'
    BY <1>9, OpenConnServes DEF ServeInv
  <2>2. PlanesInv' /\ RunnersInv'
    BY <1>9 DEF ServeInv, PlanesInv, RunnersInv, OpenConn, mgrVars
  <2> QED BY <2>1, <2>2
<1>10. CASE (CloseConn \/ InstallTool \/ PolicyChange \/ FlushRuleset) /\ UNCHANGED mgrVars
  <2>1. /\ UNCHANGED <<svc, phase, rows, mem, outcome, plan, goPlan, cfg, pc, runners>>
        /\ table'.act \subseteq table.act /\ conns' \subseteq conns
    BY <1>10 DEF CloseConn, InstallTool, PolicyChange, FlushRuleset, mgrVars, kernelVars, Empty
  <2> QED BY <2>1, RestServes
<1>11. CASE Surroundings
  BY <1>2, <1>9, <1>10, <1>11 DEF Surroundings
<1> QED BY <1>2, <1>3, <1>4, <1>5, <1>6, <1>7, <1>8, <1>11 DEF ManagerNext

\* A fresh process serves and shows nothing.
LEMMA InitServes == InitManager => Retirement /\ ServeInv
<1> SUFFICES ASSUME InitManager PROVE Retirement /\ ServeInv
  OBVIOUS
<1>1. Retirement
  BY InitRetirement DEF InitManager
<1>2. ServeInv
  BY DEF InitManager, Init, ServeInv, PlanesInv, RunnersInv, NoDoublePath, AnswerInv, InCall,
    MarkedInv, NothingHidden
<1> QED BY <1>1, <1>2

\* The retirement invariant and the serving invariant hold together, in every
\* run in which the backend loses no ownership history and can read the hooks.
LEMMA AlwaysServing ==
  ManagerSpec /\ [](HistoryKept /\ HistoryTrue) /\ []HooksRead => [](Retirement /\ ServeInv)
<1>1. InitManager => Retirement /\ ServeInv
  BY InitServes
<1>2. /\ Retirement /\ ServeInv /\ TypeOK /\ MgrType /\ GoneInv /\ HooksRead
      /\ HistoryKept /\ HistoryKept' /\ HistoryTrue' /\ [ManagerNext]_allVars
      => (Retirement /\ ServeInv)'
  BY ServeStep, ManagerRetirement
<1>3. ManagerSpec => [](TypeOK /\ MgrType)
  BY ManagerAlwaysTyped
<1>4. StopInv => GoneInv
  BY DEF StopInv
<1> QED BY <1>1, <1>2, <1>3, <1>4, StopAlways, PTL DEF ManagerSpec

\* Where a Go listener accepts, the kernel neither forwards nor tracks
\* anything, however the two planes are switched, as long as the backend loses
\* no ownership history and every Replace can read the hook inventory: any
\* other step of it may fail.  Without that hypothesis it does not hold (see
\* ManagerHooks.cfg).
THEOREM NeverDoubled ==
  ManagerSpec /\ [](HistoryKept /\ HistoryTrue) /\ []HooksRead => []NoDoublePath
<1>1. ServeInv => NoDoublePath
  BY DEF ServeInv
<1> QED BY <1>1, AlwaysServing, PTL

\* Under the same three hypotheses no path or connection of the kernel is
\* hidden: each belongs to a row that the status page does not show as stopped.
THEOREM NothingEverHidden ==
  ManagerSpec /\ [](HistoryKept /\ HistoryTrue) /\ []HooksRead => []NothingHidden
<1>1. ServeInv => NothingHidden
  BY DEF ServeInv
<1> QED BY <1>1, AlwaysServing, PTL

-----------------------------------------------------------------------------
\* Solitary paths.  Where no two paths ever listen at one point, and no policy
\* or removed package forbids what was allowed, nothing can shorten the
\* history, not even a process that is killed, a transaction of unknown outcome
\* or a half-done write: the results on the Manager hold without a hypothesis.

Solitary ==
  /\ FaultKinds \cap {"policy", "remove"} = {}
  /\ \A p, q \in Paths : Covers[p.in] \cap Covers[q.in] # {} => p = q

\* Nothing was ever admitted on this host.
Barren == table = Empty /\ conns = {} /\ disk.conf = Empty /\ MemSnapshot = Empty

\* Before the tool was installed nothing was admitted, and a call that began
\* without it does not get past the admission gate.
KeptTool ==
  /\ rejected = {} /\ (mem.tool => installed) /\ (~installed => Barren)
  /\ pc # "idle" /\ ~mem.tool => Barren /\ ~InCall

\* Nothing is ever suspended.
Unsuspended ==
  /\ mem.sus = {} /\ table.sus = {} /\ disk.conf.sus = {} /\ call.sus = {} /\ call.tgt.sus = {}

\* A target admits part of what the call will admit at last.
PartInv == InCall /\ ~call.perr => call.tgt.act \subseteq call.next

SoloInv == HistoryKept /\ KeptTool /\ Unsuspended /\ PartInv

\* Two specs that share an ingress are one path.
LEMMA SolitarySpecs ==
  ASSUME Solitary, NEW s \in Specs, NEW t \in Specs, Touch(s, t)
  PROVE  SameTuple(s, t)
<1>1. PICK p \in Paths, f \in BOOLEAN : s = Spec(p, f)
  BY DEF Specs
<1>2. PICK q \in Paths, g \in BOOLEAN : t = Spec(q, g)
  BY DEF Specs
<1>3. p = q
  BY <1>1, <1>2 DEF Solitary, Touch, Spec
<1> QED BY <1>1, <1>2, <1>3 DEF SameTuple, Spec

\* A barren state has nothing to recover, to retire or to retain.
LEMMA BarrenFields ==
  ASSUME Barren
  PROVE  /\ mem.act = {} /\ mem.pen = {} /\ mem.sus = {} /\ table.act = {}
         /\ Recovered = Empty /\ History = {} /\ Pending = {}
<1>1. mem.act = {} /\ mem.pen = {} /\ mem.sus = {} /\ table.act = {}
  BY DEF Barren, MemSnapshot, Empty
<1>2. Recovered = Empty /\ History = {}
  BY <1>1 DEF Barren, Recovered, History, Merge, Empty
<1>3. Pending = {}
  BY <1>1, <1>2 DEF Pending, Merge, Retired
<1> QED BY <1>1, <1>2, <1>3

\* Clients and administrator: without a policy nothing but the tool, the table
\* and the entries change.
LEMMA SurroundSolo ==
  ASSUME SoloInv, table' \in {table, Empty}, conns' \subseteq conns \/ table.act # {},
         UNCHANGED <<disk, mem, pc, call, rejected>>, installed' \in {installed, TRUE}
  PROVE  SoloInv'
<1>1. MemSnapshot' = MemSnapshot /\ InCall' = InCall /\ All(call.tgt)' = All(call.tgt)
  BY DEF MemSnapshot, InCall, All
<1>2. HistoryKept'
  BY <1>1 DEF SoloInv, HistoryKept
<1>3. Unsuspended'
  BY DEF SoloInv, Unsuspended, Empty
<1>4. PartInv'
  BY <1>1 DEF SoloInv, PartInv
<1>5. Barren => Barren'
  BY <1>1, BarrenFields DEF Barren
<1>6. KeptTool'
  BY <1>1, <1>5 DEF SoloInv, KeptTool
<1> QED BY <1>2, <1>6, <1>3, <1>4 DEF SoloInv

\* A new process, on the same or on a rebooted host.
LEMMA FreshSolo ==
  ASSUME SoloInv, mem' = FreshMem, call' = NoCall, pc' = "idle",
         table' \in {table, Empty}, conns' \subseteq conns, disk'.conf = disk.conf,
         rejected' \in {rejected, {}}, installed' = installed
  PROVE  SoloInv'
<1>1. MemSnapshot' = Empty /\ ~InCall' /\ ~mem'.init /\ ~mem'.tool
  BY DEF FreshMem, MemSnapshot, Empty, InCall
<1>2. HistoryKept' /\ Unsuspended' /\ PartInv'
  BY <1>1 DEF HistoryKept, SoloInv, Unsuspended, PartInv, InCall, FreshMem, NoCall, Empty
<1>3. Barren => Barren'
  BY <1>1 DEF Barren
<1>4. KeptTool'
  BY <1>1, <1>3 DEF SoloInv, KeptTool
<1> QED BY <1>2, <1>4 DEF SoloInv

\* A new request: a tool that is there now is used from now on.
LEMMA AskingSolo ==
  ASSUME TypeOK, SoloInv, pc = "idle", pc' \in {"health", "begin"},
         mem' = [mem EXCEPT !.tool = mem.tool \/ installed],
         UNCHANGED <<kernelVars, diskVars, installed, call>>
  PROVE  SoloInv'
<1>1. /\ mem'.tool = (mem.tool \/ installed) /\ mem'.init = mem.init /\ mem'.act = mem.act
      /\ mem'.pen = mem.pen /\ mem'.sus = mem.sus /\ mem'.applied = mem.applied
  BY DEF TypeOK, Memory
<1>2. UNCHANGED <<table, conns, rejected, disk>> /\ ~InCall'
  BY DEF kernelVars, diskVars, InCall
<1>3. MemSnapshot' = MemSnapshot
  BY <1>1 DEF MemSnapshot
<1>4. HistoryKept' /\ Unsuspended' /\ PartInv'
  BY <1>1, <1>2 DEF SoloInv, HistoryKept, Unsuspended, PartInv, InCall
<1>5. Barren => Barren'
  BY <1>2, <1>3 DEF Barren
<1>6. KeptTool'
  BY <1>1, <1>2, <1>5 DEF SoloInv, KeptTool
<1> QED BY <1>4, <1>6 DEF SoloInv

\* Without the tool a call finds nothing, and ends at the admission gate.
LEMMA BarrenStep ==
  ASSUME TypeOK, Barren, ~mem.tool, ~InCall, ReconcileStep
  PROVE  Barren' /\ ~InCall'
<1>0. mem \in Memory
  BY DEF TypeOK
<1>1. \/ AlreadyHealthy \/ HealthFails \/ Replace \/ BeginCurrentBoot \/ BeginRollover \/ BeginFails
      \/ RecoverUnchanged \/ RecoverHistory \/ RecoverFails \/ AdmitNothing \/ AdmitUnreadable
  <2>1. ~Admit /\ ~RecoverUnverified
    BY BarrenFields DEF Admit, NothingToRetain, RecoverUnverified
  <2> QED BY <2>1 DEF ReconcileStep, InCall, ObserveFails, SkipApplied, Prepare, PrepareFails, Apply,
        ApplyFails, Verify, VerifyFails, Checkpoint, CheckpointFails, RevokeNone, RevokeDelete,
        RevokeRelist, RevokeFails, RevokeDone
<1>2. UNCHANGED <<table, conns>> /\ ~InCall'
  BY <1>1 DEF AlreadyHealthy, HealthFails, Replace, BeginCurrentBoot, BeginRollover, BeginFails,
    RecoverUnchanged, RecoverHistory, RecoverFails, AdmitNothing, AdmitUnreadable, kernelVars, Goto,
    Return, InCall
<1>3. disk' = disk \/ disk' = NoRecord
  BY <1>1 DEF AlreadyHealthy, HealthFails, Replace, BeginCurrentBoot, BeginRollover, BeginFails,
    RecoverUnchanged, RecoverHistory, RecoverFails, AdmitNothing, AdmitUnreadable, diskVars
<1>4. mem'.act = {} /\ mem'.pen = {} /\ mem'.sus = {}
  <2>1. CASE RecoverHistory
    <3>1. /\ mem'.act = Recovered.act /\ mem'.pen = Recovered.pen /\ mem'.sus = Recovered.sus
      BY <1>0, <2>1 DEF RecoverHistory, Adopt, Memory
    <3> QED BY <3>1, BarrenFields DEF Empty
  <2>2. CASE BeginRollover
    BY <1>0, <2>2 DEF BeginRollover, Cleared, Memory
  <2>3. CASE ~RecoverHistory /\ ~BeginRollover
    <3>1. mem'.act = mem.act /\ mem'.pen = mem.pen /\ mem'.sus = mem.sus
      BY <1>0, <1>1, <2>3 DEF AlreadyHealthy, HealthFails, Replace, BeginCurrentBoot, BeginFails,
        RecoverUnchanged, RecoverFails, AdmitNothing, AdmitUnreadable, Memory
    <3> QED BY <3>1, BarrenFields
  <2> QED BY <2>1, <2>2, <2>3
<1>5. MemSnapshot' = Empty
  BY <1>4 DEF MemSnapshot, Empty
<1> QED BY <1>2, <1>3, <1>5 DEF Barren, NoRecord

\* The tool under every step of the backend.
LEMMA KeptToolStep ==
  ASSUME TypeOK, KeptTool, ReconcileStep
  PROVE  KeptTool'
<1>0. mem \in Memory /\ pc # "idle"
  BY DEF TypeOK, ReconcileStep, AlreadyHealthy, HealthFails, Replace, BeginCurrentBoot, BeginRollover,
    BeginFails, RecoverUnchanged, RecoverHistory, RecoverUnverified, RecoverFails, Admit,
    AdmitNothing, AdmitUnreadable, ObserveFails, SkipApplied, Prepare, PrepareFails, Apply,
    ApplyFails, Verify, VerifyFails, Checkpoint, CheckpointFails, RevokeNone, RevokeDelete,
    RevokeRelist, RevokeFails, RevokeDone
<1>1. UNCHANGED <<rejected, installed>>
  BY DEF ReconcileStep, AlreadyHealthy, HealthFails, Replace, BeginCurrentBoot, BeginRollover,
    BeginFails, RecoverUnchanged, RecoverHistory, RecoverUnverified, RecoverFails, Admit,
    AdmitNothing, AdmitUnreadable, ObserveFails, SkipApplied, Prepare, PrepareFails, Apply,
    ApplyFails, Verify, VerifyFails, Checkpoint, CheckpointFails, RevokeNone, RevokeDelete,
    RevokeRelist, RevokeFails, RevokeDone, kernelVars, envVars
<1>2. (mem.tool => mem'.tool) /\ (mem'.tool => mem.tool \/ installed)
  <2>1. CASE AlreadyHealthy \/ HealthFails \/ Replace \/ BeginCurrentBoot \/ BeginFails
    BY <1>0, <2>1 DEF AlreadyHealthy, HealthFails, Replace, BeginCurrentBoot, BeginFails, Memory
  <2>2. CASE BeginRollover \/ RecoverUnchanged \/ RecoverHistory \/ RecoverUnverified \/ RecoverFails
    BY <1>0, <2>2 DEF BeginRollover, Cleared, RecoverUnchanged, RecoverHistory, RecoverUnverified,
      RecoverFails, Adopt, Memory
  <2>3. CASE Admit \/ AdmitNothing \/ AdmitUnreadable \/ ObserveFails \/ Prepare \/ PrepareFails
    BY <1>0, <2>3 DEF Admit, AdmitNothing, AdmitUnreadable, ObserveFails, Prepare, PrepareFails, Memory
  <2>4. CASE Apply \/ ApplyFails \/ VerifyFails \/ CheckpointFails
    BY <1>0, <2>4 DEF Apply, ApplyFails, VerifyFails, CheckpointFails, Memory
  <2>5. CASE Verify
    BY <1>0, <2>5 DEF Verify, Confirmed, Cleared, Memory
  <2>6. CASE SkipApplied \/ Checkpoint
    BY <1>0, <2>6 DEF SkipApplied, Checkpoint, AfterObjects, Memory
  <2>7. CASE RevokeNone \/ RevokeDelete \/ RevokeRelist \/ RevokeFails \/ RevokeDone
    BY <2>7 DEF RevokeNone, RevokeDelete, RevokeRelist, RevokeFails, RevokeDone
  <2> QED BY <2>1, <2>2, <2>3, <2>4, <2>5, <2>6, <2>7 DEF ReconcileStep
<1>3. ~mem.tool => Barren' /\ ~InCall'
  BY <1>0, BarrenStep DEF KeptTool
<1> QED BY <1>1, <1>2, <1>3 DEF KeptTool


\* A call asks for nothing to be suspended, finds nothing that is and records
\* nothing that was.
LEMMA UnsuspendedStep ==
  ASSUME TypeOK, KeptTool, Unsuspended, ReconcileStep
  PROVE  Unsuspended'
<1>0. /\ mem \in Memory /\ call \in Calls /\ disk \in DiskRecords
      /\ mem.sus = {} /\ table.sus = {} /\ disk.conf.sus = {} /\ call.sus = {} /\ call.tgt.sus = {}
      /\ NoCall.sus = {} /\ NoCall.tgt.sus = {} /\ NoRecord.conf.sus = {} /\ Empty.sus = {}
  BY DEF TypeOK, ControlType, StoreType, Unsuspended, NoCall, NoRecord, Empty
<1>1. Suspended = {} /\ Withdrawal.sus = {} /\ Recovered.sus = {}
  <2>1. Rejection = {}
    BY DEF KeptTool, Rejection
  <2> QED BY <1>0, <2>1 DEF Suspended, Affects, Withdrawal, Gate, Recovered, Merge
<1>2. MemSnapshot.sus = {}
  BY <1>0 DEF MemSnapshot
<1>3. CASE AlreadyHealthy \/ HealthFails \/ Replace \/ BeginCurrentBoot \/ BeginRollover \/ BeginFails
  BY <1>0, <1>3 DEF AlreadyHealthy, HealthFails, Replace, BeginCurrentBoot, BeginRollover, Cleared,
    BeginFails, Memory, Unsuspended, kernelVars, diskVars, Return
<1>4. CASE RecoverUnchanged \/ RecoverFails \/ AdmitNothing \/ AdmitUnreadable \/ ObserveFails
  BY <1>0, <1>4 DEF RecoverUnchanged, RecoverFails, AdmitNothing, AdmitUnreadable, ObserveFails,
    Memory, Unsuspended, kernelVars, diskVars, Return
<1>5. CASE RecoverHistory \/ RecoverUnverified
  <2>1. mem'.sus = Recovered.sus /\ UNCHANGED <<table, disk, call>>
    BY <1>0, <1>5 DEF RecoverHistory, RecoverUnverified, Adopt, Memory, kernelVars, diskVars
  <2> QED BY <1>0, <1>1, <2>1 DEF Unsuspended
<1>6. CASE Admit
  <2>1. /\ mem'.sus = mem.sus /\ call'.sus = Suspended /\ call'.tgt.sus = Suspended
        /\ UNCHANGED <<table, disk>>
    BY <1>0, <1>6 DEF Admit, NoCall, StageTarget, FinalTarget, Memory, kernelVars, diskVars
  <2> QED BY <1>0, <1>1, <2>1 DEF Unsuspended
<1>7. CASE Prepare \/ PrepareFails
  <2>1. /\ UNCHANGED <<table, mem>> /\ disk' \in {disk, DiskRecord("prepare", MemSnapshot)}
    BY <1>7 DEF Prepare, PrepareFails, kernelVars
  <2>2. disk'.conf.sus = {}
    BY <1>0, <1>2, <2>1 DEF DiskRecord
  <2>3. call'.sus = {} /\ call'.tgt.sus = {}
    <3>1. CASE call' = NoCall
      BY <1>0, <3>1
    <3>2. CASE call' = [call EXCEPT !.perr = FALSE, !.seen = table # Empty]
      BY <1>0, <3>2 DEF Calls
    <3>3. CASE call' = [call EXCEPT !.perr = TRUE, !.seen = table # Empty, !.tgt = Withdrawal]
      BY <1>0, <1>1, <3>3 DEF Calls
    <3> QED BY <1>7, <3>1, <3>2, <3>3 DEF Prepare, PrepareFails, Return
  <2> QED BY <1>0, <2>1, <2>2, <2>3 DEF Unsuspended
<1>8. CASE Apply \/ ApplyFails
  BY <1>0, <1>8 DEF Apply, ApplyFails, Unsuspended, diskVars, Return
<1>9. CASE Verify \/ VerifyFails
  <2>1. UNCHANGED <<table, disk>> /\ call' \in {call, NoCall}
    BY <1>9 DEF Verify, VerifyFails, kernelVars, diskVars, Return
  <2>2. mem'.sus = {}
    BY <1>0, <1>9, ConfirmedFields DEF Verify, VerifyFails, Memory
  <2> QED BY <1>0, <2>1, <2>2 DEF Unsuspended
<1>10. CASE SkipApplied \/ Checkpoint \/ CheckpointFails
  <2>1. /\ table' = table /\ disk' \in {disk, DiskRecord("checkpoint", call.tgt)}
        /\ call' \in {NoCall, [call EXCEPT !.todo = call.pend]}
    BY <1>10 DEF SkipApplied, Checkpoint, CheckpointFails, AfterObjects, kernelVars, diskVars, Return
  <2>2. mem'.sus = {}
    BY <1>0, <1>10 DEF SkipApplied, Checkpoint, CheckpointFails, AfterObjects, Memory
  <2>3. disk'.conf.sus = {}
    BY <1>0, <2>1 DEF DiskRecord
  <2>4. call'.sus = {} /\ call'.tgt.sus = {}
    BY <1>0, <2>1 DEF Calls
  <2> QED BY <1>0, <2>1, <2>2, <2>3, <2>4 DEF Unsuspended
<1>11. CASE RevokeNone \/ RevokeDelete \/ RevokeRelist \/ RevokeFails
  <2>1. UNCHANGED <<table, disk, mem>>
    BY <1>11 DEF RevokeNone, RevokeDelete, RevokeRelist, RevokeFails, kernelVars, diskVars
  <2>2. call' \in {call, NoCall, [call EXCEPT !.todo = call.todo \ {Current}]}
    BY <1>11 DEF RevokeNone, RevokeDelete, RevokeRelist, RevokeFails, Return
  <2>3. call'.sus = {} /\ call'.tgt.sus = {}
    BY <1>0, <2>2 DEF Calls
  <2> QED BY <1>0, <2>1, <2>3 DEF Unsuspended
<1>12. CASE RevokeDone
  <2>1. UNCHANGED <<table, disk, mem>> /\ call'.sus = call.sus /\ call'.tgt.sus = call.sus
    BY <1>0, <1>12 DEF RevokeDone, FinalTarget, Calls, kernelVars, diskVars
  <2> QED BY <1>0, <2>1 DEF Unsuspended
<1> QED BY <1>3, <1>4, <1>5, <1>6, <1>7, <1>8, <1>9, <1>10, <1>11, <1>12 DEF ReconcileStep

\* The first target of a call keeps a record of all that memory admits or
\* suspends: a wanted path that is gated is itself awaiting retirement.
LEMMA AdmitSolo ==
  ASSUME TypeOK, Solitary, SoloInv, Admit
  PROVE  HistoryKept' /\ PartInv'
<1>0. /\ mem \in Memory /\ pc = "admit" /\ pc' = "prepare"
  BY DEF TypeOK, Admit, Goto
<1> DEFINE Held == mem.act \cup mem.sus
<1>1. mem'.act = mem.act /\ mem'.sus = mem.sus
  BY <1>0 DEF Admit, Memory
<1>2. /\ call'.next = Admissible /\ call'.pend = Pending /\ call'.sus = Suspended
      /\ call'.tgt.pen = Pending /\ call'.tgt.sus = Suspended
      /\ call'.tgt.act = IF Pending # {} THEN Gate(Admissible, Pending) ELSE Admissible
  BY DEF Admit, NoCall, StageTarget, FinalTarget
<1>3. mem.tool /\ Rejection = {}
  <2>1. Barren => NothingToRetain \/ mem.tool
    BY BarrenFields DEF NothingToRetain
  <2> QED BY <1>0, <2>1 DEF SoloInv, KeptTool, Rejection, Admit
<1>4. Admissible = Desired
  BY <1>3 DEF Admissible, Affects
<1>5. /\ Retired(History, Desired) \subseteq Pending /\ Recorded(Held, History)
      /\ History \subseteq Held
  BY Merging, PendingRecords DEF History, Pending, Retired
<1>6. Held \subseteq Specs /\ Pending \subseteq Specs
  <2>1. Held \subseteq Specs /\ mem.pen \subseteq Specs
    BY <1>0 DEF Memory
  <2> QED BY <1>5, <2>1 DEF Pending, Merge, Retired
<1>7. Recorded(Held, All(call'.tgt))
  <2> SUFFICES ASSUME NEW s \in Held
               PROVE  \E q \in All(call'.tgt) : SameTuple(q, s)
    BY DEF Recorded
  <2>1. PICK h \in History : SameTuple(h, s)
    BY <1>5 DEF Recorded
  <2>2. CASE \E p \in Pending : Touch(s, p) \/ SameTuple(p, s)
    <3>1. PICK p \in Pending : SameTuple(p, s)
      BY <1>6, <2>2, SolitarySpecs DEF SameTuple
    <3> QED BY <1>2, <3>1 DEF All
  <2>3. CASE \A p \in Pending : ~Touch(s, p) /\ ~SameTuple(p, s)
    <3>1. h \notin Retired(History, Desired)
      BY <1>5, <2>1, <2>3
    <3>2. PICK d \in Desired : SameTuple(h, d)
      BY <3>1 DEF Retired
    <3>3. \A p \in Pending : ~Touch(d, p)
      BY <2>1, <2>3, <3>2 DEF Touch, SameTuple
    <3>4. d \in Gate(Admissible, Pending) /\ d \in Admissible
      BY <1>4, <3>3 DEF Gate, Overlap, Touch
    <3>5. SameTuple(d, s)
      BY <2>1, <3>2 DEF SameTuple
    <3> QED BY <1>2, <3>4, <3>5 DEF All
  <2> QED BY <2>2, <2>3
<1>8. HistoryKept'
  BY <1>1, <1>7 DEF HistoryKept, All
<1>9. call'.tgt.act \subseteq call'.next
  BY <1>2 DEF Gate
<1> QED BY <1>0, <1>8, <1>9 DEF PartInv

\* Intent, transaction and readback; the withdrawal after a failed intent
\* records what it no longer admits.
LEMMA TransactionSolo ==
  ASSUME TypeOK, Retirement, Solitary, SoloInv, Prepare \/ PrepareFails \/ Apply \/ Verify
  PROVE  HistoryKept' /\ PartInv'
<1>0. call \in Calls /\ mem \in Memory /\ HistoryKept /\ PartInv
  BY DEF TypeOK, ControlType, SoloInv
<1>1. CASE Prepare
  <2>1. /\ pc = "prepare" /\ pc' = "apply" /\ mem' = mem /\ call'.tgt = call.tgt
        /\ call'.next = call.next /\ ~call.perr
    BY <1>0, <1>1 DEF Prepare, Goto, Calls, Retirement, CallInv, InCall
  <2> QED BY <1>0, <2>1 DEF HistoryKept, All, PartInv, InCall
<1>2. CASE PrepareFails /\ MemSnapshot = Empty
  BY <1>2 DEF PrepareFails, Return, HistoryKept, PartInv, InCall
<1>3. CASE PrepareFails /\ MemSnapshot # Empty
  <2>1. pc = "prepare" /\ pc' = "apply" /\ mem' = mem /\ call'.tgt = Withdrawal /\ call'.perr
    BY <1>0, <1>3 DEF PrepareFails, Goto, Calls
  <2>2. /\ Withdrawal.act = PreviouslyAdmitted(call.tgt.act, mem.act)
        /\ Withdrawal.pen = Merge(Merge(mem.pen, call.tgt.pen), Retired(mem.act, Withdrawal.act))
        /\ Withdrawal.sus = Gate(call.tgt.sus, Withdrawal.pen)
    BY DEF Withdrawal
  <2>3. Retired(mem.act, Withdrawal.act) \subseteq Withdrawal.pen
    BY <2>2 DEF Merge
  <2>4. Recorded(mem.act, Withdrawal.act \cup Withdrawal.pen)
    BY <2>3 DEF Recorded, Retired, SameTuple
  <2>5. Recorded(mem.sus, All(Withdrawal))
    BY DEF SoloInv, Unsuspended, Recorded
  <2>6. HistoryKept'
    BY <2>1, <2>4, <2>5 DEF HistoryKept, All, Recorded
  <2> QED BY <2>1, <2>6 DEF PartInv
<1>4. CASE Apply
  BY <1>0, <1>4 DEF Apply, Goto, HistoryKept, PartInv, InCall
<1>5. CASE Verify
  BY <1>0, <1>5 DEF Verify, Goto, Return, HistoryKept, PartInv, InCall
<1> QED BY <1>1, <1>2, <1>3, <1>4, <1>5

\* What follows a confirmed target, and revocation.
LEMMA RevokeSolo ==
  ASSUME TypeOK, Retirement, SoloInv,
         \/ SkipApplied \/ Checkpoint
         \/ RevokeNone \/ RevokeDelete \/ RevokeRelist \/ RevokeFails \/ RevokeDone
  PROVE  HistoryKept' /\ PartInv'
<1>0. call \in Calls /\ mem \in Memory /\ HistoryKept /\ PartInv /\ mem.sus = {}
  BY DEF TypeOK, ControlType, SoloInv, Unsuspended
<1>1. CASE pc' = "idle"
  BY <1>1 DEF HistoryKept, PartInv, InCall
<1>2. CASE /\ InCall /\ ~call.perr /\ pc' \in {"revoke", "relist"}
           /\ call'.next = call.next /\ call'.tgt = call.tgt
  BY <1>0, <1>2 DEF HistoryKept, PartInv
<1>3. CASE SkipApplied \/ Checkpoint
  <2>1. InCall /\ ~call.perr /\ AfterObjects(mem)
    BY <1>3 DEF SkipApplied, Checkpoint, Retirement, CallInv, InCall
  <2>2. CASE pc' # "idle"
    BY <1>0, <1>2, <2>1, <2>2 DEF AfterObjects, Goto, Return, Calls
  <2> QED BY <1>1, <2>2
<1>4. CASE RevokeNone \/ RevokeDelete \/ RevokeRelist
  <2>1. InCall /\ ~call.perr
    BY <1>4 DEF RevokeNone, RevokeDelete, RevokeRelist, Retirement, CallInv, InCall
  <2>2. /\ pc' \in {"revoke", "relist"}
        /\ call' = call \/ call' = [call EXCEPT !.todo = call.todo \ {Current}]
    BY <1>4 DEF RevokeNone, RevokeDelete, RevokeRelist, Goto
  <2>3. call'.next = call.next /\ call'.tgt = call.tgt
    BY <1>0, <2>2 DEF Calls
  <2> QED BY <1>2, <2>1, <2>2, <2>3
<1>5. CASE RevokeFails
  BY <1>1, <1>5 DEF RevokeFails, Return
<1>6. CASE RevokeDone
  <2>1. /\ pc = "revoke" /\ pc' = "prepare" /\ mem' = mem /\ ~call.perr
        /\ call'.next = call.next /\ call'.tgt.act = call.next
    BY <1>0, <1>6 DEF RevokeDone, FinalTarget, Goto, Calls, Retirement, CallInv, InCall
  <2>2. mem.act \subseteq call.next
    BY <1>0, <2>1 DEF PartInv, InCall, Retirement, RevokeInv
  <2>3. Recorded(mem.act \cup mem.sus, All(call'.tgt))
    BY <1>0, <2>1, <2>2 DEF All, Recorded, SameTuple
  <2>4. HistoryKept'
    BY <2>1, <2>3 DEF HistoryKept, All
  <2> QED BY <2>1, <2>4 DEF PartInv
<1> QED BY <1>3, <1>4, <1>5, <1>6

\* Every step of the backend.
LEMMA SoloStep ==
  ASSUME TypeOK, Retirement, Solitary, SoloInv, [Next]_vars
  PROVE  SoloInv'
<1>1. CASE UNCHANGED vars
  <2>1. UNCHANGED <<table, conns, disk, mem, pc, call, rejected, installed>>
    BY <1>1 DEF vars, kernelVars, diskVars
  <2> QED BY <2>1, SurroundSolo
<1>2. CASE OpenConn \/ CloseConn \/ InstallTool \/ FlushRuleset
  <2>1. /\ table' \in {table, Empty} /\ UNCHANGED <<disk, mem, pc, call, rejected>>
        /\ installed' \in {installed, TRUE}
    BY <1>2 DEF OpenConn, CloseConn, InstallTool, FlushRuleset, kernelVars, diskVars, envVars
  <2>2. conns' \subseteq conns \/ table.act # {}
    BY <1>2 DEF OpenConn, CloseConn, InstallTool, FlushRuleset, kernelVars
  <2> QED BY <2>1, <2>2, SurroundSolo
<1>3. ~PolicyChange
  BY DEF PolicyChange, Fault, Solitary
<1>4. CASE Crash \/ Reboot
  <2>1. /\ mem' = FreshMem /\ call' = NoCall /\ pc' = "idle" /\ installed' = installed
    BY <1>4 DEF Crash, Reboot, Restart, Solitary
  <2>2. /\ table' \in {table, Empty} /\ conns' \subseteq conns /\ rejected' \in {rejected, {}}
    BY <1>4 DEF Crash, Reboot, kernelVars
  <2>3. disk'.conf = disk.conf
    BY <1>4 DEF Crash, Reboot, diskVars, TypeOK, StoreType, DiskRecords
  <2> QED BY <2>1, <2>2, <2>3, FreshSolo
<1>5. ASSUME NEW P \in Plans, Reconcile(P) PROVE SoloInv'
  BY <1>5, AskingSolo DEF Reconcile
<1>6. CASE ReconcileStep
  <2>1. KeptTool' /\ Unsuspended'
    BY <1>6, KeptToolStep, UnsuspendedStep DEF SoloInv
  <2>2. CASE ~InCall'
    BY <2>1, <2>2 DEF SoloInv, HistoryKept, PartInv, InCall
  <2>3. CASE InCall'
    <3>1. \/ Admit \/ Prepare \/ PrepareFails \/ Apply \/ Verify \/ SkipApplied \/ Checkpoint
          \/ RevokeNone \/ RevokeDelete \/ RevokeRelist \/ RevokeFails \/ RevokeDone
      BY <1>6, <2>3 DEF ReconcileStep, AlreadyHealthy, HealthFails, Replace, BeginCurrentBoot,
        BeginRollover, BeginFails, RecoverUnchanged, RecoverHistory, RecoverUnverified, RecoverFails,
        AdmitNothing, AdmitUnreadable, ObserveFails, ApplyFails, VerifyFails, CheckpointFails,
        Return, Goto, InCall
    <3>2. HistoryKept' /\ PartInv'
      BY <3>1, AdmitSolo, TransactionSolo, RevokeSolo
    <3> QED BY <2>1, <3>2 DEF SoloInv
  <2> QED BY <2>2, <2>3
<1> QED BY <1>1, <1>2, <1>3, <1>4, <1>5, <1>6 DEF Next, Environment

\* Such a history is a true one: without the tool there is nothing to verify.
LEMMA SoloHistory == SoloInv => HistoryKept /\ HistoryTrue
BY DEF SoloInv, KeptTool, Barren, HistoryTrue, Accounted

\* A fresh process on a clean host.
LEMMA InitSolo == Init => SoloInv
<1> SUFFICES ASSUME Init PROVE SoloInv
  OBVIOUS
<1>1. Barren
  BY DEF Init, Barren, NoRecord, FreshMem, MemSnapshot, Empty
<1>2. HistoryKept /\ KeptTool /\ PartInv
  BY <1>1 DEF Init, HistoryKept, KeptTool, PartInv, InCall, FreshMem
<1>3. Unsuspended
  BY DEF Init, Unsuspended, FreshMem, NoCall, NoRecord, Empty
<1> QED BY <1>2, <1>3 DEF SoloInv

\* Where paths are solitary a Replace that reports success has retired every
\* dropped path, whatever was killed, timed out, half written, flushed,
\* restored or rebooted before; and an error return, but the one for an
\* unreadable hook inventory, reports what is left.
THEOREM SolitaryRetired ==
  ASSUME Solitary
  PROVE  BackendSpec => [](SuccessRetires /\ UnretiredReported)
<1>1. Init => Retirement /\ SoloInv
  BY InitRetirement, InitSolo
<1>2. TypeOK /\ Retirement /\ SoloInv /\ [Next]_vars => (Retirement /\ SoloInv)'
  <2> SUFFICES ASSUME TypeOK, Retirement, SoloInv, [Next]_vars PROVE Retirement' /\ SoloInv'
    OBVIOUS
  <2>1. SoloInv'
    BY SoloStep
  <2>2. HistoryKept /\ HistoryKept' /\ HistoryTrue'
    BY <2>1, SoloHistory DEF SoloInv, KeptTool, Barren, HistoryTrue, Accounted
  <2> QED BY <2>1, <2>2, RetirementStep
<1>3. BackendSpec => [](HistoryKept /\ HistoryTrue)
  BY <1>1, <1>2, SoloHistory, TypeAlwaysCorrect, PTL DEF BackendSpec
<1> QED BY <1>3, SuccessAlwaysRetires, UnretiredAlwaysReported, PTL

\* Every step of the Manager.
LEMMA ManagerSolo ==
  ASSUME TypeOK, Retirement, Solitary, SoloInv, [ManagerNext]_allVars
  PROVE  SoloInv'
<1>1. CASE [Next]_vars
  BY <1>1, SoloStep
<1>2. CASE Resting
  <2>1. UNCHANGED <<table, conns, disk, mem, pc, call, rejected, installed>>
    BY <1>2 DEF Resting, kernelVars, diskVars
  <2> QED BY <2>1, SurroundSolo
<1>3. CASE Ending
  <2>1. /\ mem' = FreshMem /\ call' = NoCall /\ pc' = "idle"
        /\ UNCHANGED <<table, conns, rejected, disk, installed>>
    BY <1>3 DEF Ending, NewProcess, kernelVars, diskVars
  <2> QED BY <2>1, FreshSolo
<1>4. CASE Asking
  BY <1>4, AskingSolo DEF Asking
<1> QED BY <1>1, <1>2, <1>3, <1>4, Classified

\* Where paths are solitary, a rule that moves between the kernel and Go, is
\* disabled, removed and added again never has a listener in one beside a live
\* path in the other, and is never shown as stopped while the kernel still
\* forwards or tracks it, whenever the process is stopped, killed, cleaned up
\* after or started, and whatever other step fails, as long as every Replace can
\* read the hook inventory; the first that cannot may break both.
THEOREM SolitaryServed ==
  ASSUME Solitary
  PROVE  ManagerSpec /\ []HooksRead => [](NoDoublePath /\ NothingHidden)
<1>1. InitManager => Retirement /\ SoloInv
  BY InitServes, InitSolo DEF InitManager
<1>2. TypeOK /\ MgrType /\ Retirement /\ SoloInv /\ [ManagerNext]_allVars => (Retirement /\ SoloInv)'
  <2> SUFFICES ASSUME TypeOK, MgrType, Retirement, SoloInv, [ManagerNext]_allVars
               PROVE  Retirement' /\ SoloInv'
    OBVIOUS
  <2>1. SoloInv'
    BY ManagerSolo
  <2>2. HistoryKept /\ HistoryKept' /\ HistoryTrue'
    BY <2>1, SoloHistory DEF SoloInv, KeptTool, Barren, HistoryTrue, Accounted
  <2> QED BY <2>1, <2>2, ManagerRetirement
<1>3. ManagerSpec => [](HistoryKept /\ HistoryTrue)
  BY <1>1, <1>2, SoloHistory, ManagerAlwaysTyped, PTL DEF ManagerSpec
<1> QED BY <1>3, NeverDoubled, NothingEverHidden, PTL

=============================================================================

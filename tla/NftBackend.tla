------------------------------ MODULE NftBackend ------------------------------
(***************************************************************************)
(* The nftables backend of PortBridge (internal/proxy/nft*.go) under the   *)
(* Manager's reconcileNFT: Healthy decides whether anything is to be done, *)
(* and one call of commandNFTBackend.Replace installs a new set of kernel  *)
(* DNAT paths and retires the old ones with their conntrack entries,       *)
(* although the process can crash between any two system calls, an nft     *)
(* transaction can time out after it took effect, the recovery file can    *)
(* fail to be written before or after its rename, the conntrack tool can   *)
(* be missing, and the ruleset can be flushed behind its back.             *)
(*                                                                         *)
(* Data abstraction.  A spec is one port of an nftRuleSpec (PortRanges.tla *)
(* relates the port-range code to this granularity).  The kernel table is  *)
(* the snapshot its journal chain pb_state records: `act' has DNAT rules,  *)
(* `pen' (role r) and `sus' (role s) are records only; an empty snapshot   *)
(* is the absence of the table.  A fingerprint is the snapshot it hashes.  *)
(* The instance binding, the interface set and ownership by another        *)
(* program are not modelled, nor are the flowtable object and its devices. *)
(* The Intent half of a disk record is never read by the code and is left  *)
(* out.                                                                    *)
(***************************************************************************)
EXTENDS Naturals, FiniteSets

CONSTANTS
  Points,       \* concrete ingress points: destination address, protocol, port
  Covers,       \* Covers[i]: the points of listen scope i (a wildcard has several)
  Targets,      \* DNAT targets
  Families,     \* address families
  Paths,        \* the forwarding paths the administrator can ask for
  Plans,        \* the sets of paths a reconciliation may be asked for
  MaxEdits,     \* bound: how often the requested plan changes
  MaxFaults,    \* bound: how many faults the environment injects
  FaultKinds    \* the kinds of fault it may inject

AllFaults == {"begin", "observe", "chains", "disk", "apply", "conntrack",
              "crash", "reboot", "restore", "flush", "policy", "config", "remove",
              "bind", "dns"}

ASSUME ConstantsOK ==
  /\ Plans \subseteq SUBSET Paths
  /\ FaultKinds \subseteq AllFaults
  /\ MaxEdits \in Nat /\ MaxFaults \in Nat
  /\ \A p \in Paths : /\ p.in \in DOMAIN Covers /\ Covers[p.in] \subseteq Points
                      /\ p.to \in Targets /\ p.fam \in Families

\* An ingress point is one address, so of one family; validateRuleConflicts
\* refuses a configuration in which two enabled rules listen at one point, and
\* buildPlan gives a rule one target per ingress point.
ASSUME PlansOK ==
  /\ \A p, q \in Paths : Covers[p.in] \cap Covers[q.in] # {} => p.fam = q.fam
  /\ \A P \in Plans : \A p, q \in P : Covers[p.in] \cap Covers[q.in] # {} => p = q

VARIABLES
  table,        \* kernel: the managed nft table
  conns,        \* kernel: conntrack entries carrying the instance mark
  rejected,     \* kernel: families whose external hooks forbid acceleration
  installed,    \* whether the conntrack executable is installed
  disk,         \* the recovery file
  archived,     \* whether the .previous-boot archive exists
  mem,          \* fields of commandNFTBackend
  pc, call,     \* where the running Replace is, and its local variables
  plan,         \* the paths most recently asked for
  offload,      \* enable_flowtable, read from the configuration at start-up
  done,         \* Manager.nftKey: {} or {the specs last applied without error}
  outcome,      \* what the last reconciliation returned
  edits, faults \* counters for the bounds

kernelVars == <<table, conns, rejected>>
diskVars   == <<disk, archived>>
envVars    == <<installed, edits, faults>>
vars == <<kernelVars, installed, diskVars, mem, pc, call, plan, offload, done, outcome,
          edits, faults>>

-----------------------------------------------------------------------------
(***************************************************************************)
(* The algebra of specs (nft_recovery.go), at single-port granularity.     *)
(***************************************************************************)

\* nftRuleSpec: a path, and whether its flows are offloaded to the flowtable.
Spec(p, f) == [rule |-> p.rule, in |-> p.in, to |-> p.to, fam |-> p.fam, flow |-> f]
Specs == {Spec(p, f) : p \in Paths, f \in BOOLEAN}

\* buildPlan: every spec of a plan carries the process-wide offload setting.
Desired == {Spec(p, offload) : p \in plan}

\* nftRetirementKey: the identity of a path; the flowtable flag is not part of it.
SameTuple(a, b) == a.rule = b.rule /\ a.in = b.in /\ a.to = b.to /\ a.fam = b.fam

\* uniqueNFTSpecs(A, B): one spec per tuple, a later group wins.
Merge(A, B) == B \cup {a \in A : \A b \in B : ~SameTuple(a, b)}

\* retiredNFTSpecs: what of old the desired set no longer contains.
Retired(old, desired) == {o \in old : \A d \in desired : ~SameTuple(o, d)}

\* Mutant: a wildcard listener is not seen to cover a specific address.
OverlapIgnoresWildcard(a, b) == a.fam = b.fam /\ a.in = b.in

Overlap(a, b) == a.fam = b.fam /\ Covers[a.in] \cap Covers[b.in] # {}

\* gateNFTReplacements: what of desired shares no ingress with a pending spec.
Gate(desired, pending) == {d \in desired : \A p \in pending : ~Overlap(d, p)}

\* previouslyAdmittedNFT: no new tuple and no newly enabled offload.
PreviouslyAdmitted(desired, active) ==
  {d \in desired : \E o \in active : SameTuple(d, o) /\ (d.flow => o.flow)}

UsesFlow(S) == \E s \in S : s.flow

\* nftAdmissionError.affects, after the optional narrowing proof.
Affects(F, s) == s.flow /\ s.fam \in F

\* conntrackMatchesSpec: the entry's original destination and reply source.
Matches(c, s) == c.point \in Covers[s.in] /\ c.to = s.to

Conns == [point : Points, to : Targets]
Snapshot == [act : SUBSET Specs, pen : SUBSET Specs, sus : SUBSET Specs]
Empty == [act |-> {}, pen |-> {}, sus |-> {}]
All(snap) == snap.act \cup snap.pen \cup snap.sus

NoRecord == [boot |-> "none", phase |-> "none", conf |-> Empty]
DiskRecord(phase, conf) == [boot |-> "current", phase |-> phase, conf |-> conf]

\* A fresh process: newCommandNFTBackend.
FreshMem == [init |-> FALSE, recovered |-> FALSE, unknown |-> FALSE, tool |-> FALSE,
             act |-> {}, pen |-> {}, sus |-> {}, pol |-> {}, applied |-> Empty]

MemSnapshot == [act |-> mem.act, pen |-> mem.pen, sus |-> mem.sus]

\* clearAppliedState
Cleared(m) == [m EXCEPT !.init = FALSE, !.act = {}, !.pen = {}, !.sus = {}, !.applied = Empty]

NoCall == [next |-> {}, pend |-> {}, sus |-> {}, dep |-> FALSE, adm |-> {},
           round |-> "none", tgt |-> Empty, perr |-> FALSE, seen |-> FALSE, todo |-> {}]

Init ==
  /\ table = Empty /\ conns = {} /\ rejected = {}
  /\ installed \in BOOLEAN
  /\ disk = NoRecord /\ archived = FALSE
  /\ mem = FreshMem
  /\ pc = "idle" /\ call = NoCall
  /\ plan = {} /\ offload \in BOOLEAN /\ done = {} /\ outcome = "none"
  /\ edits = 0 /\ faults = 0

Fault(kind) == kind \in FaultKinds /\ faults < MaxFaults /\ faults' = faults + 1
NoFault == UNCHANGED faults

\* Mutant: the session of a finished call is left behind.
ReturnKeepsSession(result) ==
  /\ pc' = "idle" /\ outcome' = result
  /\ done' = IF result = "ok" THEN {Desired} ELSE {}
  /\ UNCHANGED <<call, plan, offload>>

\* Every return of Replace: the deferred session.close, the locals gone, and
\* the Manager remembers what was applied, or that it has to try again.
Return(result) ==
  /\ pc' = "idle" /\ call' = NoCall /\ outcome' = result
  /\ done' = IF result = "ok" THEN {Desired} ELSE {}
  /\ UNCHANGED <<plan, offload>>

Goto(label) == pc' = label /\ UNCHANGED <<plan, offload, done, outcome>>

-----------------------------------------------------------------------------
(***************************************************************************)
(* Manager.reconcileNFT: Apply after an edit, Refresh every 30 seconds.    *)
(***************************************************************************)

\* buildPlan yields a new plan, or again the same one.
Reconcile(P) ==
  /\ pc = "idle"
  /\ \/ P = plan /\ UNCHANGED edits
     \/ P # plan /\ edits < MaxEdits /\ edits' = edits + 1
  /\ plan' = P /\ pc' = "health" /\ outcome' = "none"
  \* refreshMissingExecutables: a tool once found stays configured.
  /\ mem' = [mem EXCEPT !.tool = mem.tool \/ installed]
  /\ UNCHANGED <<kernelVars, installed, diskVars, call, offload, done, faults>>

\* checkAdmissionFor: the rejected families, if they affect the plan at all.
Rejection == IF \E s \in Desired : Affects(rejected, s) THEN rejected ELSE {}

Healthy ==
  /\ Rejection = {}
  /\ mem.recovered /\ ~mem.unknown /\ mem.pen = {} /\ mem.sus = {}
  /\ IF Desired = {} THEN table = Empty
     ELSE table # Empty /\ mem.init /\ mem.applied.act = Desired /\ table = mem.applied

\* Mutant: what was applied without error is taken to be still there.
UpToDateByKey == done = {Desired}

UpToDate == Healthy /\ done = {Desired}

\* Nothing to do: Replace is not called.
AlreadyHealthy ==
  /\ pc = "health" /\ UpToDate /\ Return("ok")
  /\ UNCHANGED <<kernelVars, diskVars, envVars, mem>>

\* The ruleset or the hook inventory cannot be read: nor is it called now.
HealthFails ==
  /\ pc = "health"
  /\ Fault("observe") \/ (UsesFlow(Desired) /\ Fault("chains"))
  /\ mem' = [mem EXCEPT !.unknown = TRUE]
  /\ pc' = "idle" /\ outcome' = "err"
  /\ UNCHANGED <<kernelVars, diskVars, installed, edits, call, plan, offload, done>>

\* refreshMissingExecutables runs again at the start of Replace.
Replace ==
  /\ pc = "health" /\ ~UpToDate /\ Goto("begin")
  /\ mem' = [mem EXCEPT !.tool = mem.tool \/ installed]
  /\ UNCHANGED <<kernelVars, diskVars, envVars, call>>

-----------------------------------------------------------------------------
(***************************************************************************)
(* Replace: the disk session and boot rollover.                            *)
(***************************************************************************)

OldBoot == disk.boot = "previous" \/ (disk = NoRecord /\ archived)

BeginCurrentBoot ==
  /\ pc = "begin" /\ ~OldBoot /\ Goto("recover")
  /\ UNCHANGED <<kernelVars, diskVars, envVars, mem, call>>

\* verifyNewBootScope: the conntrack tool is there, and on this boot there is
\* neither a table nor a marked conntrack entry.
NewBootScopeClean == mem.tool /\ table = Empty /\ conns = {}

\* The old record is archived by a rename and never read as evidence again.
BeginRollover ==
  /\ pc = "begin" /\ OldBoot /\ NewBootScopeClean /\ Goto("recover")
  /\ disk' = NoRecord /\ archived' = TRUE
  /\ mem' = [Cleared(mem) EXCEPT !.recovered = FALSE, !.unknown = FALSE, !.pol = {}]
  /\ UNCHANGED <<kernelVars, envVars, call>>

\* The lock, the read, the proof or the archive rename failed, or the sync
\* of the directory after the rename.
BeginFails ==
  /\ pc = "begin"
  /\ \/ OldBoot /\ ~NewBootScopeClean /\ NoFault /\ UNCHANGED diskVars
     \/ Fault("begin") /\ UNCHANGED diskVars
     \/ Fault("begin") /\ OldBoot /\ NewBootScopeClean /\ disk' = NoRecord /\ archived' = TRUE
  /\ mem' = [mem EXCEPT !.init = FALSE, !.unknown = TRUE]
  /\ Return("err")
  /\ UNCHANGED <<kernelVars, installed, edits>>

-----------------------------------------------------------------------------
(***************************************************************************)
(* recoverKernelState: memory, the confirmed half of the disk record and   *)
(* the kernel journal are merged into one ownership history.               *)
(***************************************************************************)

Unchanged == /\ mem.recovered /\ mem.init /\ disk # NoRecord
             /\ table # Empty /\ table = mem.applied

Recovered == [act |-> Merge(Merge(mem.act, disk.conf.act), table.act),
              pen |-> Merge(Merge(mem.pen, disk.conf.pen), table.pen),
              sus |-> Merge(Merge(mem.sus, disk.conf.sus), table.sus)]

\* A fully re-read table that agrees with a durable checkpoint is adopted.
Adopted(r) == table # Empty /\ disk = DiskRecord("checkpoint", r) /\ table = r

Adopt(r, unknown, init) ==
  mem' = [mem EXCEPT !.act = r.act, !.pen = r.pen, !.sus = r.sus,
                     !.recovered = TRUE, !.unknown = unknown, !.init = init,
                     !.applied = IF init THEN table ELSE mem.applied,
                     !.pol = IF init THEN mem.pol \cup {s.fam : s \in r.sus} ELSE mem.pol]

RecoverUnchanged ==
  /\ pc = "recover" /\ Unchanged /\ Goto("admit")
  /\ UNCHANGED <<kernelVars, diskVars, envVars, mem, call>>

\* Mutant: marked entries are not compared with the history.
RecoverHistoryUnchecked ==
  /\ pc = "recover" /\ ~Unchanged /\ (mem.tool \/ Recovered = Empty)
  /\ Adopt(Recovered, FALSE, Adopted(Recovered))
  /\ Goto("admit")
  /\ UNCHANGED <<kernelVars, diskVars, envVars, call>>

\* Every marked entry must match the history: an empty one needs no match,
\* and without the tool an independent probe must find nothing at all.
RecoverHistory ==
  /\ pc = "recover" /\ ~Unchanged
  /\ LET r == Recovered IN
       /\ IF mem.tool THEN \A c \in conns : \E s \in All(r) : Matches(c, s)
                      ELSE r = Empty /\ conns = {}
       /\ Adopt(r, FALSE, Adopted(r))
  /\ Goto("admit")
  /\ UNCHANGED <<kernelVars, diskVars, envVars, call>>

\* Without the conntrack tool a known history can still be gated, not verified.
RecoverUnverified ==
  /\ pc = "recover" /\ ~Unchanged /\ ~mem.tool /\ Recovered # Empty
  /\ Adopt(Recovered, TRUE, FALSE)
  /\ Goto("admit")
  /\ UNCHANGED <<kernelVars, diskVars, envVars, call>>

RecoverFails ==
  /\ pc = "recover"
  /\ \/ Fault("observe")
     \/ /\ ~Unchanged /\ NoFault
        /\ IF mem.tool THEN \E c \in conns : \A s \in All(Recovered) : ~Matches(c, s)
                       ELSE Recovered = Empty /\ conns # {}
  /\ mem' = [mem EXCEPT !.init = FALSE, !.unknown = TRUE]
  /\ Return("err")
  /\ UNCHANGED <<kernelVars, diskVars, installed, edits>>

-----------------------------------------------------------------------------
(***************************************************************************)
(* Replace: the retirement difference and the admission gates.             *)
(***************************************************************************)

History == Merge(mem.act, mem.sus)

Admissible ==
  LET free == {s \in Desired : ~Affects(Rejection, s)}
  IN  IF mem.tool THEN free ELSE PreviouslyAdmitted(free, mem.act)

\* Mutant: the retirement difference is computed after the policy gate.
PendingAfterGate == Merge(mem.pen, Retired(History, Admissible))

\* The administrator's retirement difference, before any safety gate.
Pending == Merge(mem.pen, Retired(History, Desired))

Suspended == {s \in Gate(History, Retired(History, Desired)) : Affects(Rejection, s)}

\* A wider rejection, or one of a still admitted path, forces a rebuild.
Rebuild == \/ Rejection \ mem.pol # {}
           \/ \E a \in Gate(mem.act, Retired(mem.act, Desired)) : Affects(Rejection, a)

StageTarget(c) == [act |-> Gate(c.next, c.pend), pen |-> c.pend, sus |-> c.sus]
FinalTarget(c) == [act |-> c.next, pen |-> {}, sus |-> c.sus]

NothingToRetain == ~mem.tool /\ History \cup Pending = {}

Admit ==
  /\ pc = "admit" /\ ~NothingToRetain
  /\ LET c == [NoCall EXCEPT !.next = Admissible, !.pend = Pending, !.sus = Suspended,
                             !.dep = ~mem.tool, !.adm = Rejection]
     IN  call' = [c EXCEPT !.round = IF c.pend # {} THEN "stage" ELSE "final",
                           !.tgt = IF c.pend # {} THEN StageTarget(c) ELSE FinalTarget(c)]
  /\ mem' = [mem EXCEPT !.pen = Pending, !.init = mem.init /\ ~Rebuild]
  /\ Goto("prepare")
  /\ UNCHANGED <<kernelVars, diskVars, envVars>>

AdmitNothing ==
  /\ pc = "admit" /\ NothingToRetain /\ Return("err")
  /\ mem' = [mem EXCEPT !.init = mem.init /\ ~Rebuild]
  /\ UNCHANGED <<kernelVars, diskVars, envVars>>

\* The hook inventory cannot be read: Replace returns that error before it
\* records the retirement difference.
AdmitUnreadable ==
  /\ pc = "admit" /\ UsesFlow(Desired) /\ Fault("chains") /\ Return("unread")
  /\ UNCHANGED <<kernelVars, diskVars, installed, edits, mem>>

-----------------------------------------------------------------------------
(***************************************************************************)
(* replaceObjects: intent to disk, one atomic nft transaction, readback,   *)
(* checkpoint to disk.  It runs once to stage the retirement and once to   *)
(* install the final set.                                                  *)
(***************************************************************************)

\* What follows a successful replaceObjects: revocation, or Replace is done.
AfterObjects(m) ==
  \/ /\ call.round = "stage"
     /\ mem' = [m EXCEPT !.pol = call.adm]
     /\ call' = [call EXCEPT !.todo = call.pend]
     /\ Goto("revoke")
  \/ /\ call.round = "final"
     /\ mem' = [m EXCEPT !.pol = call.adm, !.pen = {}, !.unknown = call.dep]
     /\ Return(IF call.adm = {} /\ ~call.dep THEN "ok"
               ELSE IF call.dep THEN "dep" ELSE "suspended")

AlreadyApplied == table # Empty /\ mem.init /\ table = mem.applied /\ call.tgt = mem.applied

ObserveFails ==
  /\ pc = "prepare" /\ Fault("observe") /\ Return("err")
  /\ UNCHANGED <<kernelVars, diskVars, installed, edits, mem>>

SkipApplied ==
  /\ pc = "prepare" /\ AlreadyApplied /\ AfterObjects(mem)
  /\ UNCHANGED <<kernelVars, diskVars, envVars>>

Prepare ==
  /\ pc = "prepare" /\ ~AlreadyApplied
  /\ disk' = DiskRecord("prepare", MemSnapshot)
  /\ call' = [call EXCEPT !.perr = FALSE, !.seen = table # Empty]
  /\ Goto("apply")
  /\ UNCHANGED <<kernelVars, archived, envVars, mem>>

\* A failed intent still lets old admission be withdrawn, nothing new admitted.
Withdrawal ==
  LET act == PreviouslyAdmitted(call.tgt.act, mem.act)
      pen == Merge(Merge(mem.pen, call.tgt.pen), Retired(mem.act, act))
  IN  [act |-> act, pen |-> pen, sus |-> Gate(call.tgt.sus, pen)]

PrepareFails ==
  /\ pc = "prepare" /\ ~AlreadyApplied /\ Fault("disk")
  /\ disk' \in {disk, DiskRecord("prepare", MemSnapshot)}
  /\ IF MemSnapshot = Empty
     THEN Return("err")
     ELSE /\ call' = [call EXCEPT !.perr = TRUE, !.seen = table # Empty, !.tgt = Withdrawal]
          /\ Goto("apply")
  /\ UNCHANGED <<kernelVars, archived, installed, edits, mem>>

\* kernel.Apply; a script written for an existing table fails on a flushed one.
Apply ==
  /\ pc = "apply" /\ (call.seen => table # Empty)
  /\ table' = call.tgt
  /\ Goto("verify")
  /\ UNCHANGED <<conns, rejected, diskVars, envVars, mem, call>>

\* With neither a table nor a target there is no transaction and no readback.
NothingToApply == call.tgt = Empty /\ ~call.seen

\* A refused transaction, or one that timed out after it was committed.
ApplyFails ==
  /\ pc = "apply" /\ ~NothingToApply
  /\ \/ Fault("apply") /\ UNCHANGED table
     \/ Fault("apply") /\ (call.seen => table # Empty) /\ table' = call.tgt
     \/ call.seen /\ table = Empty /\ NoFault /\ UNCHANGED table
  /\ Return("err")
  /\ UNCHANGED <<conns, rejected, diskVars, installed, edits, mem>>

\* observe + validateNFTState: memory follows only what was read back.
Confirmed ==
  IF call.tgt = Empty THEN Cleared(mem)
  ELSE [mem EXCEPT !.init = TRUE, !.applied = call.tgt,
                   !.act = call.tgt.act, !.pen = call.tgt.pen, !.sus = call.tgt.sus]

Verify ==
  /\ pc = "verify" /\ table = call.tgt
  /\ mem' = Confirmed
  /\ IF call.perr THEN Return("err") ELSE Goto("checkpoint") /\ UNCHANGED call
  /\ UNCHANGED <<kernelVars, diskVars, envVars>>

VerifyFails ==
  /\ pc = "verify" /\ ~NothingToApply
  /\ \/ Fault("observe")
     \/ table # call.tgt /\ NoFault
  /\ mem' = [mem EXCEPT !.init = FALSE]
  /\ Return("err")
  /\ UNCHANGED <<kernelVars, diskVars, installed, edits>>

Checkpoint ==
  /\ pc = "checkpoint"
  /\ disk' = DiskRecord("checkpoint", call.tgt)
  /\ AfterObjects(mem)
  /\ UNCHANGED <<kernelVars, archived, envVars>>

CheckpointFails ==
  /\ pc = "checkpoint" /\ Fault("disk")
  /\ disk' \in {disk, DiskRecord("checkpoint", call.tgt)}
  /\ mem' = [mem EXCEPT !.init = FALSE]
  /\ Return("err")
  /\ UNCHANGED <<kernelVars, archived, installed, edits>>

-----------------------------------------------------------------------------
(***************************************************************************)
(* revokeNFTConnections: list, delete and list again, per pending spec.    *)
(***************************************************************************)

Entries(s) == {c \in conns : Matches(c, s)}

\* The pending specs are visited in one fixed order.
Current == CHOOSE s \in call.todo : TRUE

RevokeNone ==
  /\ pc = "revoke" /\ mem.tool /\ call.todo # {} /\ Entries(Current) = {}
  /\ call' = [call EXCEPT !.todo = @ \ {Current}]
  /\ Goto("revoke")
  /\ UNCHANGED <<kernelVars, diskVars, envVars, mem>>

\* Exit status 1 means some entries were not found: the second list decides.
RevokeDelete ==
  /\ pc = "revoke" /\ mem.tool /\ call.todo # {} /\ Entries(Current) # {}
  /\ \/ conns' = conns \ Entries(Current) /\ NoFault
     \/ /\ Fault("conntrack")
        /\ \E missed \in SUBSET Entries(Current) : conns' = (conns \ Entries(Current)) \cup missed
  /\ Goto("relist")
  /\ UNCHANGED <<table, rejected, diskVars, installed, edits, mem, call>>

\* Mutant: a delete command that ran is believed.
RevokeRelistUnchecked ==
  /\ pc = "relist"
  /\ call' = [call EXCEPT !.todo = @ \ {Current}]
  /\ Goto("revoke")
  /\ UNCHANGED <<kernelVars, diskVars, envVars, mem>>

RevokeRelist ==
  /\ pc = "relist" /\ Entries(Current) = {}
  /\ call' = [call EXCEPT !.todo = @ \ {Current}]
  /\ Goto("revoke")
  /\ UNCHANGED <<kernelVars, diskVars, envVars, mem>>

\* Mutant: a failed revocation forgets what it could not revoke.
RevokeFailsForgets ==
  /\ \/ pc = "revoke" /\ ~mem.tool /\ NoFault
     \/ pc = "relist" /\ Entries(Current) # {} /\ NoFault
     \/ pc \in {"revoke", "relist"} /\ mem.tool /\ call.todo # {} /\ Fault("conntrack")
  /\ mem' = [mem EXCEPT !.pen = {}]
  /\ Return("err")
  /\ UNCHANGED <<kernelVars, diskVars, installed, edits>>

\* No tool, entries that remain, or a list or delete command that failed.
RevokeFails ==
  /\ \/ pc = "revoke" /\ ~mem.tool /\ NoFault
     \/ pc = "relist" /\ Entries(Current) # {} /\ NoFault
     \/ pc \in {"revoke", "relist"} /\ mem.tool /\ call.todo # {} /\ Fault("conntrack")
  /\ Return("err")
  /\ UNCHANGED <<kernelVars, diskVars, installed, edits, mem>>

RevokeDone ==
  /\ pc = "revoke" /\ mem.tool /\ call.todo = {}
  /\ call' = [call EXCEPT !.round = "final", !.tgt = FinalTarget(call)]
  /\ Goto("prepare")
  /\ UNCHANGED <<kernelVars, diskVars, envVars, mem>>

-----------------------------------------------------------------------------
(***************************************************************************)
(* The kernel, its clients and its administrator.                          *)
(***************************************************************************)

\* A client connects through an installed DNAT rule: a marked conntrack entry.
OpenConn ==
  /\ \E s \in table.act : \E p \in Covers[s.in] :
       /\ [point |-> p, to |-> s.to] \notin conns
       /\ conns' = conns \cup {[point |-> p, to |-> s.to]}
  /\ UNCHANGED <<table, rejected, diskVars, envVars, mem, pc, call, plan, offload, done, outcome>>

CloseConn ==
  /\ \E c \in conns : conns' = conns \ {c}
  /\ UNCHANGED <<table, rejected, diskVars, envVars, mem, pc, call, plan, offload, done, outcome>>

InstallTool ==
  /\ ~installed /\ installed' = TRUE
  /\ UNCHANGED <<kernelVars, diskVars, mem, pc, call, plan, offload, done, outcome, edits, faults>>

\* Another program changes the firewall hooks.
PolicyChange ==
  /\ Fault("policy")
  /\ \E F \in SUBSET Families : F # rejected /\ rejected' = F
  /\ UNCHANGED <<table, conns, installed, diskVars, mem, pc, call, plan, offload, done, outcome, edits>>

\* Another program flushes the ruleset; conntrack entries outlive their rules.
FlushRuleset ==
  /\ Fault("flush") /\ table # Empty /\ table' = Empty
  /\ UNCHANGED <<conns, rejected, installed, diskVars, mem, pc, call, plan, offload, done, outcome, edits>>

\* A new process reads the configuration file, which may have been edited, on
\* a host from which the conntrack package may have been removed.
Restart ==
  /\ mem' = FreshMem /\ pc' = "idle" /\ call' = NoCall /\ outcome' = "none" /\ done' = {}
  /\ offload' \in IF "config" \in FaultKinds THEN BOOLEAN ELSE {offload}
  /\ installed' \in {installed} \cup (IF "remove" \in FaultKinds THEN {FALSE} ELSE {})
  /\ UNCHANGED <<plan, edits>>

\* The process dies at any point; kernel state and the recovery file stay.
Crash ==
  /\ Fault("crash") /\ Restart
  /\ UNCHANGED <<kernelVars, diskVars>>

\* The host restarts: only the recovery file survives, from an earlier boot,
\* unless the distribution saves and restores the whole ruleset.
Reboot ==
  /\ Fault("reboot") /\ Restart
  /\ table' \in {Empty} \cup (IF "restore" \in FaultKinds THEN {table} ELSE {})
  /\ conns' = {} /\ rejected' = {}
  /\ disk' = [disk EXCEPT !.boot = IF disk = NoRecord THEN "none" ELSE "previous"]
  /\ UNCHANGED archived

ReconcileStep ==
  \/ AlreadyHealthy \/ HealthFails \/ Replace
  \/ BeginCurrentBoot \/ BeginRollover \/ BeginFails
  \/ RecoverUnchanged \/ RecoverHistory \/ RecoverUnverified \/ RecoverFails
  \/ Admit \/ AdmitNothing \/ AdmitUnreadable
  \/ ObserveFails \/ SkipApplied \/ Prepare \/ PrepareFails
  \/ Apply \/ ApplyFails \/ Verify \/ VerifyFails \/ Checkpoint \/ CheckpointFails
  \/ RevokeNone \/ RevokeDelete \/ RevokeRelist \/ RevokeFails \/ RevokeDone

Environment ==
  \/ OpenConn \/ CloseConn \/ InstallTool \/ PolicyChange
  \/ FlushRuleset \/ Crash \/ Reboot

Next == (\E P \in Plans : Reconcile(P)) \/ ReconcileStep \/ Environment

BackendSpec == Init /\ [][Next]_vars

\* A running call makes progress: every command has a timeout.  The refresh
\* loop of cmd/portbridge reconciles the current plan again every 30 seconds.
Refresh == Reconcile(plan)
FairBackendSpec == BackendSpec /\ WF_vars(ReconcileStep) /\ WF_vars(Refresh)

-----------------------------------------------------------------------------

PCs == {"idle", "health", "begin", "recover", "admit", "prepare", "apply", "verify",
        "checkpoint", "revoke", "relist"}

DiskRecords == [boot : {"none", "current", "previous"},
                phase : {"none", "prepare", "checkpoint"}, conf : Snapshot]

Memory == [init : BOOLEAN, recovered : BOOLEAN, unknown : BOOLEAN, tool : BOOLEAN,
           act : SUBSET Specs, pen : SUBSET Specs, sus : SUBSET Specs,
           pol : SUBSET Families, applied : Snapshot]

Calls == [next : SUBSET Specs, pend : SUBSET Specs, sus : SUBSET Specs,
          dep : BOOLEAN, adm : SUBSET Families,
          round : {"none", "stage", "final"}, tgt : Snapshot,
          perr : BOOLEAN, seen : BOOLEAN, todo : SUBSET Specs]

KernelType == table \in Snapshot /\ conns \subseteq Conns /\ rejected \subseteq Families

StoreType ==
  /\ disk \in DiskRecords /\ (disk.boot = "none") = (disk = NoRecord)
  /\ installed \in BOOLEAN /\ archived \in BOOLEAN

ControlType ==
  /\ pc \in PCs /\ call \in Calls
  /\ pc \in {"idle", "health", "begin", "recover", "admit"} => call = NoCall
  /\ plan \in SUBSET Paths /\ offload \in BOOLEAN
  /\ done \in SUBSET SUBSET Specs
  /\ outcome \in {"none", "ok", "suspended", "dep", "err", "unread"}

\* The type invariant of the backend, its kernel and its recovery file; the
\* locals of a call exist only between the admission gate and its return.
TypeOK ==
  /\ KernelType /\ StoreType /\ mem \in Memory /\ ControlType
  /\ edits \in 0..MaxEdits /\ faults \in 0..MaxFaults

\* A kernel path never admits connections at an ingress point where a
\* connection to an earlier target is still tracked: Replace gates every
\* overlapping replacement until revokeNFTConnections has verified absence,
\* across crashes, failed writes and timed-out transactions.
NoMixedAdmission ==
  \A s \in table.act : \A c \in conns : c.point \in Covers[s.in] => c.to = s.to

\* A Replace that reports success, or only a policy suspension, has left no
\* connection of a path the request does not contain.
SuccessRetires ==
  outcome \in {"ok", "suspended"} =>
    \A c \in conns : \E s \in Desired : Matches(c, s)

\* The paths that await retirement, in the process or in what it would recover.
Awaiting == mem.pen \cup table.pen \cup disk.conf.pen \cup call.pend \cup call.tgt.pen

\* The intent could not be written: admission is withdrawn all the same.
WithdrawsUnrecorded == pc = "prepare" /\ pc' = "apply" /\ call'.perr

\* A revocation deletes connections of paths awaiting retirement only, and a
\* path begins to await retirement for one of two reasons: the request drops
\* it, or Replace withdraws it because its intent could not be written.  A
\* policy rejection, a missing tool, a failed transaction, a flush, a crash, a
\* reboot or a recovery is never a reason.
RevokesOnlyRetired ==
  [][/\ pc = "revoke" /\ pc' = "relist" =>
          \A c \in conns \ conns' : \E p \in call.pend : Matches(c, p)
     /\ \A p \in Awaiting' : \/ \E q \in Awaiting : SameTuple(p, q)
                            \/ p \in Retired({p}, Desired)
                            \/ WithdrawsUnrecorded]_vars

\* Before the administrator drops anything no revocation deletes a connection:
\* of a path that a policy suspends, nft_reconcile.go:251 says "never delete B's
\* conntrack".  A policy rejection whose intent cannot be written breaks it.
WantedKeepsConnections ==
  [][edits <= 1 /\ pc = "revoke" /\ pc' = "relist" => conns' = conns]_vars

\* retirementState: what the Manager is told about paths it must treat as live.
ReportedUnknown == mem.unknown \/ ~mem.recovered
Potential == mem.pen \cup mem.sus \cup (IF mem.init THEN {} ELSE mem.act)

UnretiredShown ==
  ~ReportedUnknown =>
    /\ \A s \in Retired(table.act, Desired) : \E q \in Potential : SameTuple(q, s)
    /\ \A c \in conns : \E q \in Desired \cup Potential : Matches(c, q)

\* When a reconciliation returns an error, every path the request drops but the
\* kernel still admits or still tracks is reported to the Manager as pending,
\* suspended or unverified, or the whole state is reported unknown.  One error
\* is not meant: that of a Replace that could not read the hook inventory.
UnretiredReported == outcome = "err" => UnretiredShown

\* The same of that error.  It does not hold: Replace returns before it records
\* the retirement difference (nft_reconcile.go:234-236).
UnreadableReported == outcome = "unread" => UnretiredShown

\* The kernel admits exactly the admissible part of the plan, nothing awaits
\* retirement and every tracked connection belongs to the plan.
Converged ==
  /\ table.act = {s \in Desired : ~Affects(Rejection, s)} /\ table.pen = {}
  /\ \A c \in conns : \E s \in Desired : Matches(c, s)

\* Replace refuses to go on by itself: a ruleset restored over a reboot, or a
\* marked connection that no record explains, is left to the operator.
OperatorNeeded ==
  \/ OldBoot /\ ~(table = Empty /\ conns = {})
  \/ \E c \in conns : \A s \in All(Recovered) : ~Matches(c, s)

\* Once edits and faults have stopped and the conntrack tool is there, the
\* periodic refresh brings the kernel to the requested plan and keeps it there,
\* unless an operator has to decide: no failed step leaves a retirement that is
\* never tried again, no flush or policy change goes unnoticed.
EventuallyConverges == <>[]installed => <>[](Converged \/ OperatorNeeded)

=============================================================================

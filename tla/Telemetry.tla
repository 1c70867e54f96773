------------------------------- MODULE Telemetry -------------------------------
(***************************************************************************)
(* The traffic collector (internal/proxy/telemetry.go, nft_telemetry.go,   *)
(* tcp_meter.go).  Once a second it copies the counters of the kernel and  *)
(* of the Go connections into one row per rule, without ever waiting for   *)
(* the manager's or the backend's mutex: it notes what the backend says,   *)
(* reads the table and the tracked flows with nothing locked, and keeps    *)
(* the sample only if the backend has not moved meanwhile.                 *)
(*                                                                         *)
(* Data abstraction.  A rule has a kernel path of each family, taken as    *)
(* one, and one hook counter; a flow has one number of bytes, which stands *)
(* for both directions and for packets.  Times, rates and the age of a     *)
(* sample are left out.                                                    *)
(***************************************************************************)
EXTENDS Integers, FiniteSets, FiniteSetsExt

CONSTANTS
  Rules,       \* rules that may be forwarded by the kernel
  GoRule,      \* one rule of the Go proxy, with one TCP connection
  Requests,    \* what Apply may be asked for: a plane per rule, and which are rejected
  Flows,       \* tracked flows, each with an identity of its own
  RuleOf,      \* RuleOf[f]: the rule whose path carries flow f
  FamilyOf,    \* FamilyOf[f]: 4 or 6
  MaxBytes,    \* bound: MaxBytes[f] bytes of flow f
  MaxCopied,   \* bound: bytes of the Go connection
  MaxHits,     \* bound: what a hook counter counts
  MaxApply,    \* bound: calls of Apply
  MaxCount,    \* the largest value of a counter (2^64 - 1)
  Failures     \* what may fail: "table", "dump", "revoke", "readback"

ASSUME TelemetryConstants ==
  /\ GoRule \notin Rules /\ RuleOf \in [Flows -> Rules] /\ FamilyOf \in [Flows -> {4, 6}]
  /\ \A q \in Requests : /\ q.want \in [Rules -> {"nft", "go", "none"}]
                          /\ q.rej \subseteq {r \in Rules : q.want[r] = "nft"}
  /\ MaxBytes \in [Flows -> Nat] /\ MaxCopied \in Nat /\ MaxHits \in Nat /\ MaxApply \in Nat /\ MaxCount \in Nat
  /\ Failures \subseteq {"table", "dump", "revoke", "readback"}

VARIABLES
  apply,       \* the Apply that holds Manager.mu: its step, rules and outcome
  plane,       \* Manager.dataPlanes of the kernel rules; "none": no such rule
  stats,       \* which Stats object each rule has: a new one when it is created
  backend,     \* commandNFTBackend: specs, fingerprint, epoch, initialized
  table,       \* the managed table: specs, handles and hook counters
  flows,       \* conntrack entries
  conn,        \* the Go connection, its meter and what Stats has summed up
  sample,      \* the sample being taken
  rows,        \* trafficCollector.rows
  hit,         \* history: what each rule's hook counted since it was created
  again,       \* history: what hook counters had when a transaction kept them
  applies      \* number of calls of Apply so far

telemetryVars == <<apply, plane, stats, backend, table, flows, conn, sample, rows, hit, again, applies>>

Specs(b) == <<b.act, b.pen, b.sus>>

Known(b) == b.act \cup b.pen \cup b.sus

-----------------------------------------------------------------------------
(***************************************************************************)
(* Apply, as far as the collector can tell: it replaces the table in up to *)
(* two transactions with a revocation in between, under both mutexes.      *)
(***************************************************************************)

NoApply == [at |-> "idle", want |-> [r \in Rules |-> "none"], rej |-> {}, ok |-> TRUE]

Desired == {r \in Rules : apply.want[r] = "nft"}
Pending == backend.pen \cup ((backend.act \cup backend.sus) \ Desired)
Suspended == (backend.act \cup backend.sus) \cap Desired \cap apply.rej
StageSpecs == <<(Desired \ apply.rej) \ Pending, Pending, Suspended>>
FinalSpecs == <<Desired \ apply.rej, {}, Suspended>>

ApplyBegin(want, rej) ==
  /\ apply.at = "idle"
  /\ applies < MaxApply /\ applies' = applies + 1
  /\ apply' = [at |-> "recover", want |-> want, rej |-> rej, ok |-> TRUE]
  /\ stats' = [r \in Rules |-> IF want[r] # "none" /\ plane[r] = "none" THEN stats[r] + 1 ELSE stats[r]]
  /\ hit' = [r \in Rules |-> IF stats'[r] # stats[r] THEN 0 ELSE hit[r]]
  /\ again' = [r \in Rules |-> IF stats'[r] # stats[r] THEN 0 ELSE again[r]]
  /\ UNCHANGED <<plane, backend, table, flows, conn, sample, rows>>

\* recoverKernelState: a table that was not confirmed adds to what is known.
Recover ==
  /\ apply.at = "recover" /\ apply' = [apply EXCEPT !.at = "stage"]
  /\ backend' = IF backend.ready THEN backend
                ELSE [backend EXCEPT !.act = @ \cup table.act, !.pen = @ \cup table.pen, !.sus = @ \cup table.sus]
  /\ UNCHANGED <<plane, stats, table, flows, conn, sample, rows, hit, again, applies>>

\* replaceObjects: nothing to do, no table (clearAppliedState), the journal
\* alone (the rules and their counters stay), or new rules; then the readback.
Transaction(specs, next) ==
  LET journalOnly == backend.ready /\ backend.act = specs[1]
      nothing == specs = <<{}, {}, {}>>
      installed == [act |-> specs[1], pen |-> specs[2], sus |-> specs[3],
                    gen |-> IF journalOnly THEN table.gen ELSE table.gen + 1,
                    hits |-> IF journalOnly THEN table.hits ELSE [r \in Rules |-> 0]]
  IN  \/ /\ backend.ready /\ Specs(backend) = specs
         /\ apply' = [apply EXCEPT !.at = next] /\ UNCHANGED <<backend, table, again>>
      \/ /\ ~(backend.ready /\ Specs(backend) = specs)
         /\ table' = installed
         /\ again' = [r \in Rules |-> IF journalOnly THEN again[r] + table.hits[r] ELSE again[r]]
         /\ \/ /\ backend' = [act |-> specs[1], pen |-> specs[2], sus |-> specs[3],
                              fp |-> IF nothing THEN <<>> ELSE specs, epoch |-> backend.epoch + 1, ready |-> ~nothing]
               /\ apply' = [apply EXCEPT !.at = next]
            \/ /\ "readback" \in Failures
               /\ backend' = [backend EXCEPT !.ready = FALSE, !.pen = Pending]
               /\ apply' = [apply EXCEPT !.at = "end", !.ok = FALSE]

Stage ==
  /\ apply.at = "stage"
  /\ IF Pending = {}
     THEN apply' = [apply EXCEPT !.at = "final"] /\ UNCHANGED <<backend, table, again>>
     ELSE Transaction(StageSpecs, "revoke")
  /\ UNCHANGED <<plane, stats, flows, conn, sample, rows, hit, applies>>

Revoke ==
  /\ apply.at = "revoke"
  /\ \/ /\ flows' = [f \in Flows |-> IF RuleOf[f] \in backend.pen /\ flows[f].st = "live"
                                     THEN [flows[f] EXCEPT !.st = "gone"] ELSE flows[f]]
        /\ apply' = [apply EXCEPT !.at = "final"]
     \/ /\ "revoke" \in Failures /\ UNCHANGED flows
        /\ apply' = [apply EXCEPT !.at = "end", !.ok = FALSE]
  /\ UNCHANGED <<plane, stats, backend, table, conn, sample, rows, hit, again, applies>>

Final ==
  /\ apply.at = "final" /\ Transaction(FinalSpecs, "end")
  /\ UNCHANGED <<plane, stats, flows, conn, sample, rows, hit, applies>>

\* A rule with a path that may be live keeps its row and its plane when the
\* backend reports an error, a policy rejection included.
ApplyEnd ==
  /\ apply.at = "end"
  /\ LET failed == ~apply.ok \/ Desired \cap apply.rej # {}
         kept == IF failed THEN backend.pen \cup backend.sus
                              \cup (IF backend.ready THEN {} ELSE backend.act)
                 ELSE {}
     IN  plane' = [r \in Rules |-> IF r \in kept THEN "nft" ELSE apply.want[r]]
  /\ apply' = NoApply
  /\ UNCHANGED <<stats, backend, table, flows, conn, sample, rows, hit, again, applies>>

-----------------------------------------------------------------------------
(***************************************************************************)
(* Traffic: the kernel's, which is external, and the Go connection's.      *)
(***************************************************************************)

\* The first packet of a flow hits the rule's hook; later ones only its entry.
Open(f) ==
  /\ flows[f].st = "new" /\ RuleOf[f] \in table.act
  /\ flows' = [flows EXCEPT ![f] = [st |-> "live", bytes |-> 1, own |-> stats[RuleOf[f]]]]
  /\ IF table.hits[RuleOf[f]] < MaxHits
     THEN /\ table' = [table EXCEPT !.hits[RuleOf[f]] = @ + 1]
          /\ hit' = [hit EXCEPT ![RuleOf[f]] = @ + 1]
     ELSE UNCHANGED <<table, hit>>
  /\ UNCHANGED <<apply, plane, stats, backend, conn, sample, rows, again, applies>>

Carry(f) ==
  /\ flows[f].st = "live" /\ flows[f].bytes < MaxBytes[f]
  /\ flows' = [flows EXCEPT ![f].bytes = @ + 1]
  /\ UNCHANGED <<apply, plane, stats, backend, table, conn, sample, rows, hit, again, applies>>

Expire(f) ==
  /\ flows[f].st = "live" /\ flows' = [flows EXCEPT ![f].st = "gone"]
  /\ UNCHANGED <<apply, plane, stats, backend, table, conn, sample, rows, hit, again, applies>>

\* The upload of the connection: bytes written by io.Copy, bytes the peer has
\* acknowledged (TCP_INFO, less upBase; the FIN counts as one), upDone, upLast.
NoConn == [st |-> "open", copied |-> 0, acked |-> 0, done |-> -1, last |-> 0, sum |-> 0]

Copy ==
  /\ conn.st = "open" /\ conn.copied < MaxCopied
  /\ conn' = [conn EXCEPT !.copied = @ + 1]
  /\ UNCHANGED <<apply, plane, stats, backend, table, flows, sample, rows, hit, again, applies>>

Acknowledge ==
  /\ conn.acked < conn.copied + (IF conn.st = "fin" THEN 1 ELSE 0)
  /\ conn' = [conn EXCEPT !.acked = @ + 1]
  /\ UNCHANGED <<apply, plane, stats, backend, table, flows, sample, rows, hit, again, applies>>

\* The copy ends: upDone is stored first, then the FIN is sent.
CopyDone ==
  /\ conn.st = "open" /\ conn' = [conn EXCEPT !.st = "copied", !.done = conn.copied]
  /\ UNCHANGED <<apply, plane, stats, backend, table, flows, sample, rows, hit, again, applies>>

CloseWrite ==
  /\ conn.st = "copied" /\ conn' = [conn EXCEPT !.st = "fin"]
  /\ UNCHANGED <<apply, plane, stats, backend, table, flows, sample, rows, hit, again, applies>>

\* Under Stats.mu the meter goes and the sum grows.
SumUp ==
  /\ conn.st = "fin" /\ sample.at \notin {"info", "again"}
  /\ conn' = [conn EXCEPT !.st = "summed", !.sum = @ + conn.copied]
  /\ UNCHANGED <<apply, plane, stats, backend, table, flows, sample, rows, hit, again, applies>>

-----------------------------------------------------------------------------
(***************************************************************************)
(* The collector.                                                          *)
(***************************************************************************)

NoSample ==
  [at |-> "idle", inputs |-> <<>>, epoch |-> 0, fp |-> <<>>, act |-> {}, known |-> {}, ok |-> FALSE,
   hooks |-> {}, points |-> {}, families |-> {}, go |-> 0, rules |-> {}]

\* A row: whose counters, the Go bytes, the bytes of tracked flows with their
\* baselines, the hook bytes with theirs, and whether the flows were accounted.
NewRow(id) ==
  [stats |-> id, go |-> 0, nft |-> 0, flows |-> <<>>, hook |-> 0, hooks |-> <<>>, available |-> FALSE]

\* SampleTelemetry: the rules, under TryLock; with an Apply under way the tick
\* is skipped.
Tick ==
  /\ sample.at = "idle" /\ apply.at = "idle"
  /\ sample' = [NoSample EXCEPT !.at = IF \E r \in Rules : plane[r] = "nft" THEN "backend" ELSE "go",
                                !.inputs = [r \in {q \in Rules : plane[q] # "none"} |->
                                              [stats |-> stats[r], nft |-> plane[r] = "nft"]]]
  /\ UNCHANGED <<apply, plane, stats, backend, table, flows, conn, rows, hit, again, applies>>

Unavailable == [sample EXCEPT !.at = "go", !.ok = FALSE, !.hooks = {}, !.points = {}, !.rules = {}]

Busy == apply.at \notin {"idle", "end"}

\* readTelemetry: what the backend says, again under TryLock.
ReadBackend ==
  /\ sample.at = "backend"
  /\ sample' = IF Busy \/ ~backend.ready THEN Unavailable
               ELSE [sample EXCEPT !.at = "table", !.epoch = backend.epoch, !.fp = backend.fp,
                                   !.act = backend.act, !.known = Known(backend)]
  /\ UNCHANGED <<apply, plane, stats, backend, table, flows, conn, rows, hit, again, applies>>

\* parseNFTHookCounters: the key of a counter is made of the epoch and handles.
HookPoints ==
  {[rule |-> r, key |-> <<sample.epoch, table.gen>>, bytes |-> table.hits[r]] : r \in sample.act}

\* The table, read without a lock.
ReadTable ==
  /\ sample.at = "table"
  /\ \/ /\ Specs(table) = sample.fp
        /\ sample' = [sample EXCEPT
             !.at = "dump", !.hooks = HookPoints, !.rules = sample.known, !.families = {4, 6}]
     \/ (Specs(table) # sample.fp \/ "table" \in Failures) /\ sample' = Unavailable
  /\ UNCHANGED <<apply, plane, stats, backend, table, flows, conn, rows, hit, again, applies>>

Listed(family) == {f \in Flows : flows[f].st = "live" /\ FamilyOf[f] = family /\ RuleOf[f] \in sample.known}

AfterDump(left) == IF left = {} THEN "check" ELSE "dump"

\* Mutant: the flows read before the failure are used.
DumpPartly(family) ==
  /\ sample.at = "dump" /\ family \in sample.families /\ \A g \in sample.families : family <= g
  /\ \/ sample' = [sample EXCEPT !.at = AfterDump(sample.families \ {family}), !.families = @ \ {family},
                      !.points = @ \cup {[key |-> f, bytes |-> flows[f].bytes] : f \in Listed(family)}]
     \/ "dump" \in Failures /\ sample' = [sample EXCEPT !.at = "check", !.families = {}]
  /\ UNCHANGED <<apply, plane, stats, backend, table, flows, conn, rows, hit, again, applies>>

\* One dump per family, IPv4 first.  After a failure, or a flow whose counters
\* are missing, no flow of any rule is used.
Dump(family) ==
  /\ sample.at = "dump" /\ family \in sample.families /\ \A g \in sample.families : family <= g
  /\ \/ sample' = [sample EXCEPT !.at = AfterDump(sample.families \ {family}), !.families = @ \ {family},
                      !.points = @ \cup {[key |-> f, bytes |-> flows[f].bytes] : f \in Listed(family)}]
     \/ /\ "dump" \in Failures
        /\ sample' = [sample EXCEPT !.at = "check", !.families = {}, !.points = {}, !.rules = {}]
  /\ UNCHANGED <<apply, plane, stats, backend, table, flows, conn, rows, hit, again, applies>>

\* Mutant: the table looks the same.
CheckFingerprint ==
  /\ sample.at = "check"
  /\ sample' = IF ~Busy /\ backend.ready /\ backend.fp = sample.fp
               THEN [sample EXCEPT !.at = "go", !.ok = TRUE] ELSE Unavailable
  /\ UNCHANGED <<apply, plane, stats, backend, table, flows, conn, rows, hit, again, applies>>

\* The sample counts only if the backend has not moved since.
Check ==
  /\ sample.at = "check"
  /\ sample' = IF ~Busy /\ backend.ready /\ backend.epoch = sample.epoch /\ backend.fp = sample.fp
               THEN [sample EXCEPT !.at = "go", !.ok = TRUE] ELSE Unavailable
  /\ UNCHANGED <<apply, plane, stats, backend, table, flows, conn, rows, hit, again, applies>>

-----------------------------------------------------------------------------

\* trafficBytes, under Stats.mu: the finished copies, or a live connection's
\* meterDirection, which loads upDone, reads TCP_INFO and loads upDone again.
GoBytes ==
  /\ sample.at = "go"
  /\ IF conn.st = "summed" THEN sample' = [sample EXCEPT !.at = "update", !.go = conn.sum] /\ UNCHANGED conn
     ELSE IF conn.done >= 0
     THEN sample' = [sample EXCEPT !.at = "update", !.go = conn.done] /\ conn' = [conn EXCEPT !.last = conn.done]
     ELSE sample' = [sample EXCEPT !.at = "info"] /\ UNCHANGED conn
  /\ UNCHANGED <<apply, plane, stats, backend, table, flows, rows, hit, again, applies>>

ReadInfo ==
  /\ sample.at = "info" /\ sample' = [sample EXCEPT !.at = "again", !.go = conn.acked]
  /\ UNCHANGED <<apply, plane, stats, backend, table, flows, conn, rows, hit, again, applies>>

\* Mutant: upDone is not loaded again.
MeterDirectionOnce == Max({sample.go, conn.last})

MeterDirection == IF conn.done >= 0 THEN conn.done ELSE Max({sample.go, conn.last})

LoadAgain ==
  /\ sample.at = "again"
  /\ sample' = [sample EXCEPT !.at = "update", !.go = MeterDirection]
  /\ conn' = [conn EXCEPT !.last = MeterDirection]
  /\ UNCHANGED <<apply, plane, stats, backend, table, flows, rows, hit, again, applies>>

AddTraffic(a, b) == IF MaxCount - a < b THEN MaxCount ELSE a + b
DeltaTraffic(current, previous) == IF current < previous THEN current ELSE current - previous

Baseline(base, key) == IF key \in DOMAIN base THEN base[key] ELSE 0

\* A counter that goes on from its baseline, summed over points.
Grown(total, points, base) ==
  AddTraffic(total, MapThenSumSet(LAMBDA p : DeltaTraffic(p.bytes, Baseline(base, p.key)), points))

Baselines(points) == [k \in {p.key : p \in points} |-> (CHOOSE p \in points : p.key = k).bytes]

\* update, for one rule
UpdateRow(r, in) ==
  LET old == IF r \in DOMAIN rows /\ rows[r].stats = in.stats THEN rows[r] ELSE NewRow(in.stats)
      hooks == {p \in sample.hooks : p.rule = r}
      points == {p \in sample.points : RuleOf[p.key] = r}
      accounted == r \in sample.rules
  IN  CASE ~in.nft -> [old EXCEPT !.hooks = <<>>, !.flows = <<>>, !.available = FALSE]
        [] in.nft /\ ~sample.ok -> [old EXCEPT !.available = FALSE]
        [] in.nft /\ sample.ok ->
             [old EXCEPT !.hook = Grown(old.hook, hooks, old.hooks),
                         !.hooks = Baselines(hooks),
                         !.nft = IF accounted THEN Grown(old.nft, points, old.flows) ELSE old.nft,
                         !.flows = IF accounted THEN Baselines(points) ELSE old.flows,
                         !.available = accounted]

Update ==
  /\ sample.at = "update"
  /\ rows' = [r \in DOMAIN sample.inputs \cup {GoRule} |->
                IF r = GoRule THEN [NewRow(0) EXCEPT !.go = sample.go] ELSE UpdateRow(r, sample.inputs[r])]
  /\ sample' = NoSample
  /\ UNCHANGED <<apply, plane, stats, backend, table, flows, conn, hit, again, applies>>

-----------------------------------------------------------------------------

\* StartTelemetry follows the first Apply.  Kernel rules are edited, or the Go
\* connection carries: the two sides have nothing in common but the collector.
TelemetryInit ==
  /\ apply = NoApply /\ sample = NoSample /\ rows = <<>>
  /\ \E first \in SUBSET Rules :
       /\ plane = [r \in Rules |-> IF r \in first THEN "nft" ELSE "none"]
       /\ stats = [r \in Rules |-> IF r \in first THEN 1 ELSE 0]
       /\ backend = [act |-> first, pen |-> {}, sus |-> {}, fp |-> IF first = {} THEN <<>> ELSE <<first, {}, {}>>,
                       epoch |-> 1, ready |-> first # {}]
       /\ table = [act |-> first, pen |-> {}, sus |-> {}, gen |-> 1, hits |-> [r \in Rules |-> 0]]
  /\ flows = [f \in Flows |-> [st |-> "new", bytes |-> 0, own |-> 0]]
  /\ hit = [r \in Rules |-> 0] /\ again = [r \in Rules |-> 0]
  /\ \/ conn = [NoConn EXCEPT !.st = "summed"] /\ applies = 0
     \/ conn = NoConn /\ applies = MaxApply /\ backend.act = {}

Collect ==
  \/ Tick \/ ReadBackend \/ ReadTable \/ \E family \in {4, 6} : Dump(family)
  \/ Check \/ GoBytes \/ ReadInfo \/ LoadAgain \/ Update

TelemetryNext ==
  \/ \E q \in Requests : ApplyBegin(q.want, q.rej)
  \/ Recover \/ Stage \/ Revoke \/ Final \/ ApplyEnd
  \/ \E f \in Flows : Open(f) \/ Carry(f) \/ Expire(f)
  \/ Copy \/ Acknowledge \/ CopyDone \/ CloseWrite \/ SumUp
  \/ Collect

TelemetrySpec == TelemetryInit /\ [][TelemetryNext]_telemetryVars

-----------------------------------------------------------------------------

\* What the status page shows as carried by the kernel for a rule never
\* exceeds what the flows of that rule have carried since it was created: no
\* byte is counted twice or for a rule of the same name that is gone, across
\* transactions, suspensions, unreadable tables and half-read dumps.
CountedOnce ==
  \A r \in DOMAIN rows \cap Rules :
    rows[r].stats = stats[r] /\ plane[r] # "none" =>
      rows[r].nft <= MapThenSumSet(LAMBDA f : flows[f].bytes,
                                   {f \in Flows : RuleOf[f] = r /\ flows[f].own = stats[r]})

\* The counters of the hooks, across failed readbacks, transactions that give
\* new rules and samples that overtake them: what is shown exceeds what the
\* hooks counted by no more than what counters had when a transaction that
\* rewrote the journal alone kept them under a new epoch.
HooksCountedPerEpoch ==
  \A r \in DOMAIN rows \cap Rules :
    rows[r].stats = stats[r] /\ plane[r] # "none" => rows[r].hook <= hit[r] + again[r]

\* docs/API.en-US.md:820 calls them "Cumulative observed hook counters".  Those
\* that a transaction kept are counted once more.
HooksCountedOnce ==
  \A r \in DOMAIN rows \cap Rules :
    rows[r].stats = stats[r] /\ plane[r] # "none" => rows[r].hook <= hit[r]

\* The byte count of the Go proxy never falls, although a live connection is
\* estimated from TCP_INFO and the estimate gives way to the exact count
\* while a sample is being taken.
GoNeverFalls ==
  [][(GoRule \in DOMAIN rows) => rows'[GoRule].go >= rows[GoRule].go]_rows

=============================================================================

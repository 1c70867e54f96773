------------------------------- MODULE UdpBudget -------------------------------
(***************************************************************************)
(* The UDP budgets of internal/proxy/budget.go as the workers of udp.go    *)
(* use them.  A new flow takes a place in its source's entry, a session of *)
(* its rule, a session of the process and memory, one after the other; a   *)
(* step that is refused, and a socket that cannot be opened, give back     *)
(* what was taken, in the order of the code.  Several workers share the    *)
(* budgets of a rule, and one of them sweeps idle source entries while the *)
(* others admit packets.  Each atomic operation and each critical section  *)
(* is one step.                                                            *)
(*                                                                         *)
(* A source is the entry of one client address in one rule.  The token     *)
(* buckets of an entry may refuse any packet.  A session reserves          *)
(* SessionBytes, a listener ListenerBytes.  Limits change only while no    *)
(* worker of the rule runs, so they are constants.                         *)
(***************************************************************************)
EXTENDS Integers, FiniteSets

CONSTANTS
  Rules, Sources, Workers, Flows,
  RuleOf,         \* RuleOf[s]: the rule whose budget has the entry of source s
  SourceOf,       \* SourceOf[f]: the source of flow f
  WorkerOf,       \* WorkerOf[f]: the worker whose socket receives flow f
  WorkerRule,     \* WorkerRule[w]: the rule that worker w serves
  MaxUDP,         \* resourceBudget.maxUDP
  MaxMemory,      \* resourceBudget.maxUDPMemory
  RuleMax,        \* RuleMax[r]: max_udp_sessions
  SourceMax,      \* SourceMax[r]: max_udp_sessions_per_ip
  MaxTracked,     \* MaxTracked[r]: maxTrackedUDPSources
  SessionBytes, ListenerBytes

ASSUME UdpConstants ==
  /\ IsFiniteSet(Flows) /\ IsFiniteSet(Sources) /\ IsFiniteSet(Workers)
  /\ RuleOf \in [Sources -> Rules]
  /\ SourceOf \in [Flows -> Sources] /\ WorkerOf \in [Flows -> Workers]
  /\ WorkerRule \in [Workers -> Rules]
  /\ \A f \in Flows : WorkerRule[WorkerOf[f]] = RuleOf[SourceOf[f]]
  /\ MaxUDP \in Int /\ MaxMemory \in Int
  /\ RuleMax \in [Rules -> Int] /\ SourceMax \in [Rules -> Int] /\ MaxTracked \in [Rules -> Int]
  /\ SessionBytes \in Nat \ {0} /\ ListenerBytes \in Nat \ {0}

VARIABLES
  tracked,      \* the sources that have an entry in a shard's states
  active,       \* active[s]: activeSessions of the entry, 0 without one
  idle,         \* the entries not seen for the idle time
  sourceCount,  \* sourceCount[r]: ruleBudget.udpSourceCount
  ruleUDP,      \* ruleUDP[r]: Stats.activeUDP
  activeUDP,    \* resourceBudget.activeUDP
  udpMemory,    \* resourceBudget.udpMemory
  at,           \* at[f]: the next operation on the budgets for flow f
  worker,       \* worker[w]: where the worker's goroutine is
  swept         \* swept[w]: the entries w deleted and has not subtracted yet

entryVars   == <<tracked, active, idle, sourceCount>>
sessionVars == <<ruleUDP, activeUDP, udpMemory>>
vars == <<entryVars, sessionVars, at, worker, swept>>

\* What a flow at a given point holds.
HoldsSource == {"session", "global", "memory", "dial", "open", "undoGlobal", "undoRule",
                "failRule", "failMemory", "failGlobal", "undoSource"}
HoldsRule   == {"global", "memory", "dial", "open", "undoGlobal", "undoRule",
                "failRule", "closeRule"}
HoldsGlobal == {"memory", "dial", "open", "undoGlobal", "failRule", "failMemory",
                "failGlobal", "closeRule", "closeMemory", "closeGlobal"}
HoldsMemory == {"dial", "open", "failRule", "failMemory", "closeRule", "closeMemory"}
Points == {"none"} \cup HoldsSource \cup HoldsGlobal

FlowsOf(s)     == {f \in Flows : SourceOf[f] = s}
FlowRule(f)    == RuleOf[SourceOf[f]]
RuleFlows(r)   == {f \in Flows : FlowRule(f) = r}
RuleSources(r) == {s \in Sources : RuleOf[s] = r}
Holding(D, P)  == {f \in D : at[f] \in P}

\* A worker is one goroutine: it finishes with one flow, and with a sweep,
\* before it turns to the next.
Busy(w) == swept[w] # {} \/ \E f \in Flows : WorkerOf[f] = w /\ at[f] \notin {"none", "open"}

Init ==
  /\ tracked = {} /\ idle = {}
  /\ active = [s \in Sources |-> 0]
  /\ sourceCount = [r \in Rules |-> 0] /\ ruleUDP = [r \in Rules |-> 0]
  /\ activeUDP = 0 /\ udpMemory = 0
  /\ at = [f \in Flows |-> "none"]
  /\ worker = [w \in Workers |-> "down"] /\ swept = [w \in Workers |-> {}]

Move(f, from, to) == at[f] = from /\ at' = [at EXCEPT ![f] = to]

\* Mutant: the check asks for any room at all, not for room for the amount.
RoomForAny(current, amount, maximum) == amount > 0 /\ maximum > 0 /\ current < maximum

\* reserveAtomicN
Room(current, amount, maximum) == amount > 0 /\ maximum > 0 /\ current <= maximum - amount

-----------------------------------------------------------------------------
(***************************************************************************)
(* startUDP, serve and cleanup, as far as they touch the budgets.          *)
(***************************************************************************)

\* The listener's memory is reserved before its socket is opened.
ReserveListener(w) ==
  /\ worker[w] = "down" /\ Room(udpMemory, ListenerBytes, MaxMemory)
  /\ worker' = [worker EXCEPT ![w] = "starting"]
  /\ udpMemory' = udpMemory + ListenerBytes
  /\ UNCHANGED <<entryVars, ruleUDP, activeUDP, at, swept>>

StartWorker(w) ==
  /\ worker[w] = "starting" /\ worker' = [worker EXCEPT ![w] = "up"]
  /\ UNCHANGED <<entryVars, sessionVars, at, swept>>

StartFails(w) ==
  /\ worker[w] = "starting" /\ worker' = [worker EXCEPT ![w] = "down"]
  /\ udpMemory' = udpMemory - ListenerBytes
  /\ UNCHANGED <<entryVars, ruleUDP, activeUDP, at, swept>>

\* serve returns between two batches: stopped, or a socket error.
LeaveServe(w) ==
  /\ worker[w] = "up" /\ ~Busy(w) /\ worker' = [worker EXCEPT ![w] = "cleanup"]
  /\ UNCHANGED <<entryVars, sessionVars, at, swept>>

FinishCleanup(w) ==
  /\ worker[w] = "cleanup" /\ \A f \in Flows : WorkerOf[f] = w => at[f] = "none"
  /\ worker' = [worker EXCEPT ![w] = "down"]
  /\ udpMemory' = udpMemory - ListenerBytes
  /\ UNCHANGED <<entryVars, ruleUDP, activeUDP, at, swept>>

-----------------------------------------------------------------------------
(***************************************************************************)
(* reserveUDPPacket and the sweep, under a shard's mutex.                  *)
(***************************************************************************)

\* The entry a packet finds, or the one it makes if there is room for one.
Entry(s) ==
  /\ IF s \in tracked
     THEN UNCHANGED <<tracked, sourceCount>>
     ELSE /\ Room(sourceCount[RuleOf[s]], 1, MaxTracked[RuleOf[s]])
          /\ tracked' = tracked \cup {s}
          /\ sourceCount' = [sourceCount EXCEPT ![RuleOf[s]] = @ + 1]
  /\ idle' = idle \ {s}

Serving(f) == worker[WorkerOf[f]] = "up" /\ ~Busy(WorkerOf[f])

\* The first packet of a flow: its source takes one more session.
AdmitFlow(f) ==
  /\ Serving(f) /\ Move(f, "none", "session")
  /\ Entry(SourceOf[f]) /\ active[SourceOf[f]] < SourceMax[FlowRule(f)]
  /\ active' = [active EXCEPT ![SourceOf[f]] = @ + 1]
  /\ UNCHANGED <<sessionVars, worker, swept>>

\* A packet of an open flow, or one the entry's limits refuse: the entry is
\* made or seen, nothing else.
SeePacket(f) ==
  /\ Serving(f) /\ at[f] \in {"none", "open"} /\ Entry(SourceOf[f])
  /\ UNCHANGED <<active, sessionVars, at, worker, swept>>

Age(s) ==
  /\ s \in tracked \ idle /\ idle' = idle \cup {s}
  /\ UNCHANGED <<tracked, active, sourceCount, sessionVars, at, worker, swept>>

\* Mutant: the sweep looks at the age of an entry only.
SweepIgnoresActive(w, D) ==
  /\ worker[w] = "up" /\ ~Busy(w) /\ D # {}
  /\ D \subseteq tracked \cap idle \cap RuleSources(WorkerRule[w])
  /\ tracked' = tracked \ D /\ idle' = idle \ D
  /\ swept' = [swept EXCEPT ![w] = D]
  /\ UNCHANGED <<active, sourceCount, sessionVars, at, worker>>

\* maintainUDPSources: some idle entries without sessions are deleted ...
Sweep(w, D) ==
  /\ worker[w] = "up" /\ ~Busy(w) /\ D # {}
  /\ D \subseteq tracked \cap idle \cap RuleSources(WorkerRule[w])
  /\ \A s \in D : active[s] = 0
  /\ tracked' = tracked \ D /\ idle' = idle \ D
  /\ swept' = [swept EXCEPT ![w] = D]
  /\ UNCHANGED <<active, sourceCount, sessionVars, at, worker>>

\* Mutant: a sweep subtracts one, however many entries it deleted.
SubtractSweptOnce(w) ==
  /\ swept[w] # {} /\ swept' = [swept EXCEPT ![w] = {}]
  /\ sourceCount' = [sourceCount EXCEPT ![WorkerRule[w]] = @ - 1]
  /\ UNCHANGED <<tracked, active, idle, sessionVars, at, worker>>

\* ... and the count of sources is corrected after the mutex is released.
SubtractSwept(w) ==
  /\ swept[w] # {} /\ swept' = [swept EXCEPT ![w] = {}]
  /\ sourceCount' = [sourceCount EXCEPT ![WorkerRule[w]] = @ - Cardinality(swept[w])]
  /\ UNCHANGED <<tracked, active, idle, sessionVars, at, worker>>

-----------------------------------------------------------------------------
(***************************************************************************)
(* newSession and its roll-backs.                                          *)
(***************************************************************************)

\* reserveUDPSession
ReserveSession(f) ==
  LET r == FlowRule(f) IN
  /\ \/ ruleUDP[r] < RuleMax[r] /\ Move(f, "session", "global")
        /\ ruleUDP' = [ruleUDP EXCEPT ![r] = @ + 1]
     \/ ruleUDP[r] >= RuleMax[r] /\ Move(f, "session", "undoSource") /\ UNCHANGED ruleUDP
  /\ UNCHANGED <<entryVars, activeUDP, udpMemory, worker, swept>>

ReserveGlobal(f) ==
  /\ \/ Room(activeUDP, 1, MaxUDP) /\ Move(f, "global", "memory") /\ activeUDP' = activeUDP + 1
     \/ ~Room(activeUDP, 1, MaxUDP) /\ Move(f, "global", "undoRule") /\ UNCHANGED activeUDP
  /\ UNCHANGED <<entryVars, ruleUDP, udpMemory, worker, swept>>

ReserveMemory(f) ==
  /\ \/ Room(udpMemory, SessionBytes, MaxMemory) /\ Move(f, "memory", "dial")
        /\ udpMemory' = udpMemory + SessionBytes
     \/ ~Room(udpMemory, SessionBytes, MaxMemory) /\ Move(f, "memory", "undoGlobal")
        /\ UNCHANGED udpMemory
  /\ UNCHANGED <<entryVars, ruleUDP, activeUDP, worker, swept>>

\* The outbound socket is opened and registered, or cannot be.
Dial(f) ==
  /\ Move(f, "dial", "open") \/ Move(f, "dial", "failRule")
  /\ UNCHANGED <<entryVars, sessionVars, worker, swept>>

ReturnRule(f) ==
  /\ \/ Move(f, "undoRule", "undoSource") \/ Move(f, "failRule", "failMemory")
     \/ Move(f, "closeRule", "closeMemory")
  /\ ruleUDP' = [ruleUDP EXCEPT ![FlowRule(f)] = @ - 1]
  /\ UNCHANGED <<entryVars, activeUDP, udpMemory, worker, swept>>

ReturnMemory(f) ==
  /\ Move(f, "failMemory", "failGlobal") \/ Move(f, "closeMemory", "closeGlobal")
  /\ udpMemory' = udpMemory - SessionBytes
  /\ UNCHANGED <<entryVars, ruleUDP, activeUDP, worker, swept>>

ReturnGlobal(f) ==
  /\ \/ Move(f, "undoGlobal", "undoRule") \/ Move(f, "failGlobal", "undoSource")
     \/ Move(f, "closeGlobal", "none")
  /\ activeUDP' = activeUDP - 1
  /\ UNCHANGED <<entryVars, ruleUDP, udpMemory, worker, swept>>

\* An entry that is there gives back one session, if it counts any.
OneLess(s) ==
  active' = [active EXCEPT ![s] = IF s \in tracked /\ @ > 0 THEN @ - 1 ELSE @]

\* rollbackUDPSourceSession
RollbackSource(f) ==
  /\ Move(f, "undoSource", "none") /\ OneLess(SourceOf[f])
  /\ UNCHANGED <<tracked, idle, sourceCount, sessionVars, worker, swept>>

\* Mutant: cleanup leaves the sessions to the expiry that no longer runs.
CloseSessionServing(f) ==
  /\ worker[WorkerOf[f]] = "up" /\ ~Busy(WorkerOf[f])
  /\ Move(f, "open", "closeRule") /\ OneLess(SourceOf[f])
  /\ idle' = idle \ {SourceOf[f]}
  /\ UNCHANGED <<tracked, sourceCount, sessionVars, worker, swept>>

\* closeSession: expired, a socket error, or the worker's cleanup; its first
\* operation on the budgets is releaseUDPSourceSession.
CloseSession(f) ==
  /\ worker[WorkerOf[f]] \in {"up", "cleanup"} /\ ~Busy(WorkerOf[f])
  /\ Move(f, "open", "closeRule") /\ OneLess(SourceOf[f])
  /\ idle' = idle \ {SourceOf[f]}
  /\ UNCHANGED <<tracked, sourceCount, sessionVars, worker, swept>>

\* The steps a worker takes once it has turned to a flow.
Advance(f) ==
  \/ ReserveSession(f) \/ ReserveGlobal(f) \/ ReserveMemory(f) \/ Dial(f)
  \/ ReturnRule(f) \/ ReturnMemory(f) \/ ReturnGlobal(f) \/ RollbackSource(f)

Next ==
  \/ \E w \in Workers : \/ ReserveListener(w) \/ StartWorker(w) \/ StartFails(w)
                        \/ LeaveServe(w) \/ FinishCleanup(w) \/ SubtractSwept(w)
                        \/ \E D \in SUBSET tracked : Sweep(w, D)
  \/ \E f \in Flows : AdmitFlow(f) \/ SeePacket(f) \/ CloseSession(f) \/ Advance(f)
  \/ \E s \in Sources : Age(s)

UdpSpec == Init /\ [][Next]_vars

\* Goroutines keep running: a flow in transit moves on, a sweep ends, and a
\* worker in cleanup closes every session it has left.
FairUdpSpec ==
  /\ UdpSpec
  /\ \A f \in Flows : WF_vars(Advance(f))
       /\ WF_vars(worker[WorkerOf[f]] = "cleanup" /\ CloseSession(f))
  /\ \A w \in Workers : WF_vars(FinishCleanup(w)) /\ WF_vars(SubtractSwept(w))

-----------------------------------------------------------------------------

\* The counters are signed but never negative, and a flow is at one of the
\* points of newSession and closeSession.
TypeOK ==
  /\ tracked \subseteq Sources /\ idle \subseteq tracked
  /\ active \in [Sources -> Nat]
  /\ sourceCount \in [Rules -> Nat] /\ ruleUDP \in [Rules -> Nat]
  /\ activeUDP \in Nat /\ udpMemory \in Nat
  /\ at \in [Flows -> Points]
  /\ worker \in [Workers -> {"down", "starting", "up", "cleanup"}]
  /\ swept \in [Workers -> SUBSET Sources]

\* What sweeps have deleted and not yet subtracted.
InTransit(r) == {t \in Workers \X Sources : WorkerRule[t[1]] = r /\ t[2] \in swept[t[1]]}

\* No place is lost and none is given back twice: each counter of the entry,
\* the rule and the process is the number of flows that hold a place in it,
\* the memory is what these flows and the running listeners reserved, and the
\* count of tracked sources is that of their entries and of those in transit.
CountersExact ==
  /\ \A s \in Sources : active[s] = Cardinality(Holding(FlowsOf(s), HoldsSource))
  /\ \A r \in Rules : ruleUDP[r] = Cardinality(Holding(RuleFlows(r), HoldsRule))
  /\ activeUDP = Cardinality(Holding(Flows, HoldsGlobal))
  /\ udpMemory = SessionBytes * Cardinality(Holding(Flows, HoldsMemory))
                 + ListenerBytes * Cardinality({w \in Workers : worker[w] # "down"})
  /\ \A r \in Rules : sourceCount[r] = Cardinality(tracked \cap RuleSources(r)) + Cardinality(InTransit(r))

\* The sweep never drops the entry of a source that has a session or is about
\* to get one: its release would find no entry, and the source could open
\* sessions beyond its limit.
EntriesKept == \A f \in Flows : at[f] \in HoldsSource => SourceOf[f] \in tracked

\* No flow that holds a place exceeds the limits of its source, its rule or
\* the process, the memory reserved stays within its budget, and so does the
\* number of tracked sources while sweeps correct its count late.
WithinLimits ==
  /\ \A s \in Sources : active[s] > 0 => active[s] <= SourceMax[RuleOf[s]]
  /\ \A r \in Rules : ruleUDP[r] > 0 => ruleUDP[r] <= RuleMax[r]
  /\ activeUDP > 0 => activeUDP <= MaxUDP
  /\ udpMemory > 0 => udpMemory <= MaxMemory
  /\ \A r \in Rules : tracked \cap RuleSources(r) # {} => Cardinality(tracked \cap RuleSources(r)) <= MaxTracked[r]

\* A worker that leaves serve ends: its cleanup closes every session, so that
\* runner.stop does not wait for ever.
CleanupEnds == \A w \in Workers : worker[w] = "cleanup" ~> worker[w] = "down"

=============================================================================

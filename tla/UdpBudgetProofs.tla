---------------------------- MODULE UdpBudgetProofs ----------------------------
(***************************************************************************)
(* The UDP budgets never lose a place and never give one back twice, the   *)
(* sweep never drops the entry of a source in use, and the limits hold,    *)
(* for every number of rules, workers, sources and flows and every limit.  *)
(*                                                                         *)
(* CountersExact is not inductive alone: a release gives a place back only *)
(* if the entry is there, and a sweep deletes an entry only if it counts   *)
(* no session, so CountersExact and EntriesKept carry each other. The      *)
(* proof goes counter by counter: a step moves one flow between two points *)
(* and the holders of a counter gain that flow, lose it or stay as they    *)
(* are.                                                                    *)
(***************************************************************************)
EXTENDS UdpBudget, FiniteSetTheorems, TLAPS

\* The members of D that are at one of the points P, when a[f] is where f is.
Holders(D, a, P) == {f \in D : a[f] \in P}

\* The holders of each counter.
SourceHolders(s) == Holders(FlowsOf(s), at, HoldsSource)
RuleHolders(r)   == Holders(RuleFlows(r), at, HoldsRule)
GlobalHolders    == Holders(Flows, at, HoldsGlobal)
MemoryHolders    == Holders(Flows, at, HoldsMemory)
Listeners        == {w \in Workers : worker[w] # "down"}
Tracked(r)       == tracked \cap RuleSources(r)

\* A set of holders is finite, so its size is a natural number.
LEMMA HoldersSize ==
  ASSUME NEW D, D \subseteq Flows, NEW a, NEW P
  PROVE  /\ IsFiniteSet(Holders(D, a, P))
         /\ Cardinality(Holders(D, a, P)) \in Nat
         /\ Cardinality(Holders(D, a, P)) = 0 <=> Holders(D, a, P) = {}
<1> DEFINE holders == Holders(D, a, P)
<1>1. IsFiniteSet(Flows) /\ holders \subseteq Flows
  BY UdpConstants DEF Holders
<1> HIDE DEF holders
<1>2. IsFiniteSet(holders)
  BY <1>1, FS_Subset
<1>3. /\ Cardinality(holders) \in Nat
      /\ Cardinality(holders) = 0 <=> holders = {}
  BY <1>2, FS_CardinalityType, FS_EmptySet
<1> QED BY <1>2, <1>3 DEF holders

\* A flow that moves between two points on the same side of P, or that is not
\* in D, changes nothing.
LEMMA HoldersStay ==
  ASSUME NEW D, D \subseteq Flows, NEW a \in [Flows -> Points], NEW P,
         NEW f \in Flows, NEW to \in Points, f \in D => (a[f] \in P <=> to \in P)
  PROVE  Cardinality(Holders(D, [a EXCEPT ![f] = to], P)) = Cardinality(Holders(D, a, P))
<1>1. Holders(D, [a EXCEPT ![f] = to], P) = Holders(D, a, P)
  BY DEF Holders
<1> QED BY <1>1

\* A flow of D that moves into P adds one holder.
LEMMA HoldersGain ==
  ASSUME NEW D, D \subseteq Flows, NEW a \in [Flows -> Points], NEW P,
         NEW f \in D, NEW to \in Points, a[f] \notin P, to \in P
  PROVE  Cardinality(Holders(D, [a EXCEPT ![f] = to], P)) = Cardinality(Holders(D, a, P)) + 1
<1> DEFINE before == Holders(D, a, P)
           after  == Holders(D, [a EXCEPT ![f] = to], P)
<1>1. after = before \cup {f} /\ f \notin before
  BY DEF Holders
<1>2. IsFiniteSet(before)
  BY HoldersSize
<1> HIDE DEF before, after
<1>3. Cardinality(before \cup {f}) = Cardinality(before) + 1
  BY <1>1, <1>2, FS_AddElement
<1>4. Cardinality(after) = Cardinality(before) + 1
  BY <1>1, <1>3
<1> QED BY <1>4 DEF before, after

\* A flow of D that moves out of P takes one holder away.
LEMMA HoldersLose ==
  ASSUME NEW D, D \subseteq Flows, NEW a \in [Flows -> Points], NEW P,
         NEW f \in D, NEW to \in Points, a[f] \in P, to \notin P
  PROVE  Cardinality(Holders(D, [a EXCEPT ![f] = to], P)) = Cardinality(Holders(D, a, P)) - 1
<1> DEFINE before == Holders(D, a, P)
           after  == Holders(D, [a EXCEPT ![f] = to], P)
<1>1. after = before \ {f} /\ f \in before
  BY DEF Holders
<1>2. IsFiniteSet(before)
  BY HoldersSize
<1> HIDE DEF before, after
<1>3. Cardinality(before \ {f}) = Cardinality(before) - 1
  BY <1>1, <1>2, FS_RemoveElement
<1>4. Cardinality(after) = Cardinality(before) - 1
  BY <1>1, <1>3
<1> QED BY <1>4 DEF before, after

-----------------------------------------------------------------------------
\* The types the induction needs: the counters are integers, as atomic.Int64
\* values are, and a sweep deletes entries of its own rule only.
TypeInv ==
  /\ tracked \subseteq Sources /\ idle \subseteq tracked
  /\ active \in [Sources -> Int]
  /\ sourceCount \in [Rules -> Int] /\ ruleUDP \in [Rules -> Int]
  /\ activeUDP \in Int /\ udpMemory \in Int
  /\ at \in [Flows -> Points]
  /\ worker \in [Workers -> {"down", "starting", "up", "cleanup"}]
  /\ swept \in [Workers -> SUBSET Sources]

\* The parts of CountersExact, one for each counter.
SourceExact == \A s \in Sources : active[s] = Cardinality(SourceHolders(s))
RuleExact   == \A r \in Rules : ruleUDP[r] = Cardinality(RuleHolders(r))
GlobalExact == activeUDP = Cardinality(GlobalHolders)
MemoryExact == udpMemory = SessionBytes * Cardinality(MemoryHolders)
                           + ListenerBytes * Cardinality(Listeners)
EntryExact  == \A r \in Rules : sourceCount[r] = Cardinality(Tracked(r)) + Cardinality(InTransit(r))

BudgetInv == TypeInv /\ CountersExact /\ EntriesKept

\* A move of one flow, and the entry of its source and its rule.
LEMMA MoveTypes ==
  ASSUME TypeInv, NEW f \in Flows, NEW from, NEW to \in Points, Move(f, from, to)
  PROVE  /\ at[f] = from /\ at' = [at EXCEPT ![f] = to] /\ at' \in [Flows -> Points]
         /\ SourceOf[f] \in Sources /\ FlowRule(f) \in Rules
BY UdpConstants DEF TypeInv, Move, FlowRule

\* Every step keeps the counters integers.
LEMMA NextTypeInv == TypeInv /\ [Next]_vars => TypeInv'
<1> SUFFICES ASSUME TypeInv, [Next]_vars PROVE TypeInv'
  OBVIOUS
<1> USE DEF entryVars, sessionVars
<1>0. /\ \A f \in Flows : SourceOf[f] \in Sources /\ FlowRule(f) \in Rules /\ WorkerOf[f] \in Workers
      /\ RuleOf \in [Sources -> Rules] /\ WorkerRule \in [Workers -> Rules]
      /\ SessionBytes \in Nat /\ ListenerBytes \in Nat
  BY UdpConstants DEF FlowRule
<1>1. ASSUME NEW f \in Flows, NEW from, NEW to, Move(f, from, to),
             to \in {"none", "session", "global", "memory", "dial", "open", "undoGlobal",
                     "undoRule", "failRule", "failMemory", "failGlobal", "undoSource",
                     "closeRule", "closeMemory", "closeGlobal"}
      PROVE  at' \in [Flows -> Points]
  BY <1>1 DEF Move, Points, HoldsSource, HoldsGlobal, TypeInv
<1>2. ASSUME NEW w \in Workers, \/ ReserveListener(w) \/ StartWorker(w) \/ StartFails(w)
                                \/ LeaveServe(w) \/ FinishCleanup(w)
      PROVE  TypeInv'
  BY <1>0, <1>2 DEF ReserveListener, StartWorker, StartFails, LeaveServe, FinishCleanup, TypeInv
<1>3. ASSUME NEW w \in Workers, SubtractSwept(w) PROVE TypeInv'
  <2>1. IsFiniteSet(Sources) /\ swept[w] \subseteq Sources
    BY UdpConstants DEF TypeInv
  <2>2. Cardinality(swept[w]) \in Nat
    BY <2>1, FS_Subset, FS_CardinalityType
  <2> QED BY <1>0, <1>3, <2>2 DEF SubtractSwept, TypeInv
<1>4. ASSUME NEW w \in Workers, NEW D \in SUBSET tracked, Sweep(w, D) PROVE TypeInv'
  BY <1>4 DEF Sweep, TypeInv
<1>5. ASSUME NEW f \in Flows, Entry(SourceOf[f])
      PROVE  /\ tracked' \subseteq Sources /\ idle' \subseteq tracked'
             /\ sourceCount' \in [Rules -> Int]
  BY <1>0, <1>5 DEF Entry, TypeInv
<1>6. ASSUME NEW f \in Flows, AdmitFlow(f) PROVE TypeInv'
  BY <1>0, <1>1, <1>5, <1>6 DEF AdmitFlow, TypeInv
<1>7. ASSUME NEW f \in Flows, SeePacket(f) PROVE TypeInv'
  BY <1>5, <1>7 DEF SeePacket, TypeInv
<1>8. ASSUME NEW f \in Flows, CloseSession(f) \/ RollbackSource(f) PROVE TypeInv'
  <2>1. active' \in [Sources -> Int]
    BY <1>0, <1>8 DEF CloseSession, RollbackSource, OneLess, TypeInv
  <2> QED BY <1>0, <1>1, <1>8, <2>1 DEF CloseSession, RollbackSource, TypeInv
<1>9. ASSUME NEW f \in Flows, ReserveSession(f) \/ ReturnRule(f) PROVE TypeInv'
  BY <1>0, <1>1, <1>9 DEF ReserveSession, ReturnRule, TypeInv
<1>10. ASSUME NEW f \in Flows, \/ ReserveGlobal(f) \/ ReserveMemory(f) \/ Dial(f)
                               \/ ReturnMemory(f) \/ ReturnGlobal(f)
       PROVE  TypeInv'
  BY <1>0, <1>1, <1>10 DEF ReserveGlobal, ReserveMemory, Dial, ReturnMemory, ReturnGlobal, TypeInv
<1>11. ASSUME NEW s \in Sources, Age(s) PROVE TypeInv'
  BY <1>11 DEF Age, TypeInv
<1>12. CASE UNCHANGED vars
  BY <1>12 DEF vars, TypeInv
<1> QED
  BY <1>2, <1>3, <1>4, <1>6, <1>7, <1>8, <1>9, <1>10, <1>11, <1>12 DEF Next, Advance

-----------------------------------------------------------------------------
\* The points a flow can move between without a place in its source's entry,
\* its rule, the process or the memory changing hands.
LEMMA OtherMoves ==
  ASSUME TypeInv, NEW f \in Flows, Advance(f)
  PROVE  \E from \in Points, to \in Points :
           /\ Move(f, from, to)
           /\ UNCHANGED <<tracked, sourceCount, worker, swept>>
           /\ RollbackSource(f) \/ ((from \in HoldsSource <=> to \in HoldsSource) /\ UNCHANGED active)
           /\ \/ ReserveSession(f) \/ ReturnRule(f)
              \/ (from \in HoldsRule <=> to \in HoldsRule) /\ UNCHANGED ruleUDP
           /\ \/ ReserveGlobal(f) \/ ReturnGlobal(f)
              \/ (from \in HoldsGlobal <=> to \in HoldsGlobal) /\ UNCHANGED activeUDP
           /\ \/ ReserveMemory(f) \/ ReturnMemory(f)
              \/ (from \in HoldsMemory <=> to \in HoldsMemory) /\ UNCHANGED udpMemory
<1> USE DEF entryVars, sessionVars, HoldsSource, HoldsRule, HoldsGlobal, HoldsMemory, Points
<1>1. CASE ReserveSession(f)
  <2>1. /\ Move(f, "session", "global") \/ Move(f, "session", "undoSource")
        /\ UNCHANGED <<tracked, sourceCount, worker, swept, active, activeUDP, udpMemory>>
    BY <1>1 DEF ReserveSession
  <2>2. CASE Move(f, "session", "global")
    BY <1>1, <2>1, <2>2
  <2>3. CASE Move(f, "session", "undoSource")
    BY <1>1, <2>1, <2>3
  <2> QED BY <2>1, <2>2, <2>3
<1>2. CASE ReserveGlobal(f)
  BY <1>2 DEF ReserveGlobal
<1>3. CASE ReserveMemory(f)
  BY <1>3 DEF ReserveMemory
<1>4. CASE Dial(f)
  BY <1>4 DEF Dial
<1>5. CASE ReturnRule(f)
  BY <1>5 DEF ReturnRule
<1>6. CASE ReturnMemory(f)
  BY <1>6 DEF ReturnMemory
<1>7. CASE ReturnGlobal(f)
  BY <1>7 DEF ReturnGlobal
<1>8. CASE RollbackSource(f)
  BY <1>8 DEF RollbackSource
<1> QED BY <1>1, <1>2, <1>3, <1>4, <1>5, <1>6, <1>7, <1>8 DEF Advance

\* CountersExact is the conjunction of its parts.
LEMMA CountersParts ==
  CountersExact <=> SourceExact /\ RuleExact /\ GlobalExact /\ MemoryExact /\ EntryExact
BY DEF CountersExact, SourceExact, RuleExact, GlobalExact, MemoryExact, EntryExact,
       SourceHolders, RuleHolders, GlobalHolders, MemoryHolders, Listeners, Tracked, Holders, Holding

\* A source's counter follows the flows that hold a place in its entry.
LEMMA SourceMoves ==
  ASSUME TypeInv, NEW f \in Flows, NEW from, NEW to \in Points, Move(f, from, to),
         NEW s \in Sources
  PROVE  /\ s # SourceOf[f] \/ (from \in HoldsSource <=> to \in HoldsSource)
              => Cardinality(SourceHolders(s))' = Cardinality(SourceHolders(s))
         /\ s = SourceOf[f] /\ from \notin HoldsSource /\ to \in HoldsSource
              => Cardinality(SourceHolders(s))' = Cardinality(SourceHolders(s)) + 1
         /\ s = SourceOf[f] /\ from \in HoldsSource /\ to \notin HoldsSource
              => Cardinality(SourceHolders(s))' = Cardinality(SourceHolders(s)) - 1
<1>1. at \in [Flows -> Points] /\ at[f] = from /\ at' = [at EXCEPT ![f] = to]
  BY DEF TypeInv, Move
<1>2. FlowsOf(s) \subseteq Flows /\ (f \in FlowsOf(s) <=> s = SourceOf[f])
  BY DEF FlowsOf
<1>3. CASE ~(s = SourceOf[f]) \/ (from \in HoldsSource <=> to \in HoldsSource)
  BY <1>1, <1>2, <1>3, HoldersStay DEF SourceHolders
<1>4. CASE s = SourceOf[f] /\ from \notin HoldsSource /\ to \in HoldsSource
  BY <1>1, <1>2, <1>4, HoldersGain DEF SourceHolders
<1>5. CASE s = SourceOf[f] /\ from \in HoldsSource /\ to \notin HoldsSource
  BY <1>1, <1>2, <1>5, HoldersLose DEF SourceHolders
<1> QED BY <1>3, <1>4, <1>5

\* A rule's counter follows the flows that hold one of its sessions.
LEMMA RuleMoves ==
  ASSUME TypeInv, NEW f \in Flows, NEW from, NEW to \in Points, Move(f, from, to),
         NEW r \in Rules
  PROVE  /\ r # FlowRule(f) \/ (from \in HoldsRule <=> to \in HoldsRule)
              => Cardinality(RuleHolders(r))' = Cardinality(RuleHolders(r))
         /\ r = FlowRule(f) /\ from \notin HoldsRule /\ to \in HoldsRule
              => Cardinality(RuleHolders(r))' = Cardinality(RuleHolders(r)) + 1
         /\ r = FlowRule(f) /\ from \in HoldsRule /\ to \notin HoldsRule
              => Cardinality(RuleHolders(r))' = Cardinality(RuleHolders(r)) - 1
<1>1. at \in [Flows -> Points] /\ at[f] = from /\ at' = [at EXCEPT ![f] = to]
  BY DEF TypeInv, Move
<1>2. RuleFlows(r) \subseteq Flows /\ (f \in RuleFlows(r) <=> r = FlowRule(f))
  BY DEF RuleFlows
<1>3. CASE ~(r = FlowRule(f)) \/ (from \in HoldsRule <=> to \in HoldsRule)
  BY <1>1, <1>2, <1>3, HoldersStay DEF RuleHolders
<1>4. CASE r = FlowRule(f) /\ from \notin HoldsRule /\ to \in HoldsRule
  BY <1>1, <1>2, <1>4, HoldersGain DEF RuleHolders
<1>5. CASE r = FlowRule(f) /\ from \in HoldsRule /\ to \notin HoldsRule
  BY <1>1, <1>2, <1>5, HoldersLose DEF RuleHolders
<1> QED BY <1>3, <1>4, <1>5

\* The counters of the process follow all flows.
LEMMA ProcessMoves ==
  ASSUME TypeInv, NEW f \in Flows, NEW from, NEW to \in Points, Move(f, from, to), NEW P
  PROVE  /\ (from \in P <=> to \in P)
              => Cardinality(Holders(Flows, at', P)) = Cardinality(Holders(Flows, at, P))
         /\ from \notin P /\ to \in P
              => Cardinality(Holders(Flows, at', P)) = Cardinality(Holders(Flows, at, P)) + 1
         /\ from \in P /\ to \notin P
              => Cardinality(Holders(Flows, at', P)) = Cardinality(Holders(Flows, at, P)) - 1
<1>1. at \in [Flows -> Points] /\ at[f] = from /\ at' = [at EXCEPT ![f] = to]
  BY DEF TypeInv, Move
<1>2. PICK D : D = Flows
  OBVIOUS
<1>3. D \subseteq Flows /\ f \in D
  BY <1>2
<1>4. /\ Holders(Flows, at, P) = Holders(D, at, P)
      /\ Holders(Flows, at', P) = Holders(D, [at EXCEPT ![f] = to], P)
  BY <1>1, <1>2
<1>5. CASE from \in P <=> to \in P
  <2>1. Cardinality(Holders(D, [at EXCEPT ![f] = to], P)) = Cardinality(Holders(D, at, P))
    BY <1>1, <1>3, <1>5, HoldersStay
  <2> QED BY <1>4, <1>5, <2>1
<1>6. CASE from \notin P /\ to \in P
  <2>1. Cardinality(Holders(D, [at EXCEPT ![f] = to], P)) = Cardinality(Holders(D, at, P)) + 1
    BY <1>1, <1>3, <1>6, HoldersGain
  <2> QED BY <1>4, <1>6, <2>1
<1>7. CASE from \in P /\ to \notin P
  <2>1. Cardinality(Holders(D, [at EXCEPT ![f] = to], P)) = Cardinality(Holders(D, at, P)) - 1
    BY <1>1, <1>3, <1>7, HoldersLose
  <2> QED BY <1>4, <1>7, <2>1
<1> QED BY <1>5, <1>6, <1>7

\* The steps that leave every flow where it is.
LEMMA StayingSteps ==
  ASSUME [Next]_vars
  PROVE  \/ UNCHANGED <<at, active, ruleUDP, activeUDP>>
         \/ \E f \in Flows : AdmitFlow(f) \/ CloseSession(f) \/ Advance(f)
<1> USE DEF entryVars, sessionVars
<1>1. ASSUME NEW w \in Workers, \/ ReserveListener(w) \/ StartWorker(w) \/ StartFails(w)
                                \/ LeaveServe(w) \/ FinishCleanup(w) \/ SubtractSwept(w)
      PROVE  UNCHANGED <<at, active, ruleUDP, activeUDP>>
  BY <1>1 DEF ReserveListener, StartWorker, StartFails, LeaveServe, FinishCleanup, SubtractSwept
<1>2. ASSUME NEW w \in Workers, NEW D, Sweep(w, D)
      PROVE  UNCHANGED <<at, active, ruleUDP, activeUDP>>
  BY <1>2 DEF Sweep
<1>3. ASSUME NEW f \in Flows, SeePacket(f) PROVE UNCHANGED <<at, active, ruleUDP, activeUDP>>
  BY <1>3 DEF SeePacket
<1>4. ASSUME NEW s \in Sources, Age(s) PROVE UNCHANGED <<at, active, ruleUDP, activeUDP>>
  BY <1>4 DEF Age
<1>5. CASE UNCHANGED vars
  BY <1>5 DEF vars
<1> QED BY <1>1, <1>2, <1>3, <1>4, <1>5 DEF Next

\* The first point of newSession and of closeSession.
LEMMA EndMoves ==
  ASSUME NEW f \in Flows
  PROVE  /\ AdmitFlow(f) => /\ Move(f, "none", "session") /\ "session" \in Points
                            /\ UNCHANGED <<sessionVars, worker, swept>>
         /\ CloseSession(f) => /\ Move(f, "open", "closeRule") /\ "closeRule" \in Points
                               /\ UNCHANGED <<tracked, sourceCount, sessionVars, worker, swept>>
BY DEF AdmitFlow, CloseSession, Points, HoldsSource, HoldsGlobal, sessionVars

-----------------------------------------------------------------------------
\* The counters of a source, a rule and the process.

\* A source's count stays exact: a release finds the entry it was taken from.
LEMMA NextSourceExact == TypeInv /\ SourceExact /\ EntriesKept /\ [Next]_vars => SourceExact'
<1> SUFFICES ASSUME TypeInv, SourceExact, EntriesKept, [Next]_vars PROVE SourceExact'
  OBVIOUS
<1>0. active \in [Sources -> Int] /\ \A f \in Flows : SourceOf[f] \in Sources
  BY UdpConstants DEF TypeInv
<1>1. ASSUME NEW f \in Flows, AdmitFlow(f) PROVE SourceExact'
  <2>1. Move(f, "none", "session") /\ "session" \in Points
    BY <1>1, EndMoves
  <2>2. \A s \in Sources : Cardinality(SourceHolders(s))' =
          IF s = SourceOf[f] THEN Cardinality(SourceHolders(s)) + 1 ELSE Cardinality(SourceHolders(s))
    BY <2>1, SourceMoves DEF HoldsSource
  <2>3. active' = [active EXCEPT ![SourceOf[f]] = @ + 1]
    BY <1>1 DEF AdmitFlow
  <2> QED BY <1>0, <2>2, <2>3 DEF SourceExact
<1>2. ASSUME NEW f \in Flows, NEW from \in HoldsSource, NEW to \in Points \ HoldsSource,
             Move(f, from, to), OneLess(SourceOf[f])
      PROVE  SourceExact'
  <2>1. \A s \in Sources : Cardinality(SourceHolders(s))' =
          IF s = SourceOf[f] THEN Cardinality(SourceHolders(s)) - 1 ELSE Cardinality(SourceHolders(s))
    BY <1>2, SourceMoves
  <2>2. SourceOf[f] \in tracked
    BY <1>2 DEF EntriesKept, Move
  <2>3. active[SourceOf[f]] > 0
    <3>1. FlowsOf(SourceOf[f]) \subseteq Flows
      BY DEF FlowsOf
    <3>2. f \in SourceHolders(SourceOf[f])
      BY <1>2 DEF SourceHolders, Holders, FlowsOf, Move
    <3>3. Cardinality(SourceHolders(SourceOf[f])) \in Nat
          /\ Cardinality(SourceHolders(SourceOf[f])) # 0
      BY <3>1, <3>2, HoldersSize DEF SourceHolders
    <3> QED BY <1>0, <3>3 DEF SourceExact
  <2>4. active' = [active EXCEPT ![SourceOf[f]] = @ - 1]
    BY <1>0, <1>2, <2>2, <2>3 DEF OneLess
  <2> QED BY <1>0, <2>1, <2>4 DEF SourceExact
<1>3. ASSUME NEW f \in Flows, CloseSession(f) PROVE SourceExact'
  <2>1. Move(f, "open", "closeRule") /\ OneLess(SourceOf[f])
    BY <1>3 DEF CloseSession
  <2>2. "open" \in HoldsSource /\ "closeRule" \in Points \ HoldsSource
    BY DEF Points, HoldsSource, HoldsGlobal
  <2> QED BY <1>2, <2>1, <2>2
<1>4. ASSUME NEW f \in Flows, RollbackSource(f) PROVE SourceExact'
  <2>1. Move(f, "undoSource", "none") /\ OneLess(SourceOf[f])
    BY <1>4 DEF RollbackSource
  <2>2. "undoSource" \in HoldsSource /\ "none" \in Points \ HoldsSource
    BY DEF Points, HoldsSource, HoldsGlobal
  <2> QED BY <1>2, <2>1, <2>2
<1>5. ASSUME NEW f \in Flows, NEW from \in Points, NEW to \in Points, Move(f, from, to),
             from \in HoldsSource <=> to \in HoldsSource, UNCHANGED active
      PROVE  SourceExact'
  <2>1. \A s \in Sources : Cardinality(SourceHolders(s))' = Cardinality(SourceHolders(s))
    BY <1>5, SourceMoves
  <2> QED BY <1>5, <2>1 DEF SourceExact
<1>6. CASE UNCHANGED <<at, active, ruleUDP, activeUDP>>
  <2>1. \A s \in Sources : Cardinality(SourceHolders(s))' = Cardinality(SourceHolders(s))
    BY <1>6 DEF SourceHolders
  <2> QED BY <1>6, <2>1 DEF SourceExact
<1>7. ASSUME NEW f \in Flows, Advance(f) PROVE SourceExact'
  BY <1>4, <1>5, <1>7, OtherMoves
<1> QED BY <1>1, <1>3, <1>6, <1>7, StayingSteps

\* A rule's count stays exact.
LEMMA NextRuleExact == TypeInv /\ RuleExact /\ [Next]_vars => RuleExact'
<1> SUFFICES ASSUME TypeInv, RuleExact, [Next]_vars PROVE RuleExact'
  OBVIOUS
<1>0. ruleUDP \in [Rules -> Int] /\ \A f \in Flows : FlowRule(f) \in Rules
  BY UdpConstants DEF TypeInv, FlowRule
<1>1. ASSUME NEW f \in Flows, NEW from, NEW to \in Points, Move(f, from, to),
             from \in HoldsRule <=> to \in HoldsRule, UNCHANGED ruleUDP
      PROVE  RuleExact'
  <2>1. \A r \in Rules : Cardinality(RuleHolders(r))' = Cardinality(RuleHolders(r))
    BY <1>1, RuleMoves
  <2> QED BY <1>1, <2>1 DEF RuleExact
<1>2. ASSUME NEW f \in Flows, ReserveSession(f) PROVE RuleExact'
  <2>1. CASE Move(f, "session", "global") /\ ruleUDP' = [ruleUDP EXCEPT ![FlowRule(f)] = @ + 1]
    <3>1. \A r \in Rules : Cardinality(RuleHolders(r))' =
            IF r = FlowRule(f) THEN Cardinality(RuleHolders(r)) + 1 ELSE Cardinality(RuleHolders(r))
      BY <2>1, RuleMoves DEF HoldsRule, Points, HoldsSource
    <3> QED BY <1>0, <2>1, <3>1 DEF RuleExact
  <2>2. CASE Move(f, "session", "undoSource") /\ UNCHANGED ruleUDP
    BY <1>1, <2>2 DEF HoldsRule, Points, HoldsSource
  <2> QED BY <1>2, <2>1, <2>2 DEF ReserveSession
<1>3. ASSUME NEW f \in Flows, ReturnRule(f) PROVE RuleExact'
  <2>1. PICK from \in HoldsRule, to \in Points \ HoldsRule : Move(f, from, to)
    BY <1>3 DEF ReturnRule, HoldsRule, Points, HoldsSource, HoldsGlobal
  <2>2. \A r \in Rules : Cardinality(RuleHolders(r))' =
          IF r = FlowRule(f) THEN Cardinality(RuleHolders(r)) - 1 ELSE Cardinality(RuleHolders(r))
    BY <2>1, RuleMoves
  <2>3. ruleUDP' = [ruleUDP EXCEPT ![FlowRule(f)] = @ - 1]
    BY <1>3 DEF ReturnRule
  <2> QED BY <1>0, <2>2, <2>3 DEF RuleExact
<1>4. ASSUME NEW f \in Flows, AdmitFlow(f) \/ CloseSession(f) PROVE RuleExact'
  BY <1>1, <1>4, EndMoves DEF HoldsRule, sessionVars
<1>5. CASE UNCHANGED <<at, active, ruleUDP, activeUDP>>
  <2>1. \A r \in Rules : Cardinality(RuleHolders(r))' = Cardinality(RuleHolders(r))
    BY <1>5 DEF RuleHolders
  <2> QED BY <1>5, <2>1 DEF RuleExact
<1>6. ASSUME NEW f \in Flows, Advance(f) PROVE RuleExact'
  BY <1>1, <1>2, <1>3, <1>6, OtherMoves
<1> QED BY <1>4, <1>5, <1>6, StayingSteps

\* The count of the process stays exact.
LEMMA NextGlobalExact == TypeInv /\ GlobalExact /\ [Next]_vars => GlobalExact'
<1> SUFFICES ASSUME TypeInv, GlobalExact, [Next]_vars PROVE GlobalExact'
  OBVIOUS
<1>0. activeUDP \in Int /\ Cardinality(GlobalHolders) = Cardinality(Holders(Flows, at, HoldsGlobal))
      /\ Cardinality(GlobalHolders)' = Cardinality(Holders(Flows, at', HoldsGlobal))
  BY DEF TypeInv, GlobalHolders
<1>1. ASSUME NEW f \in Flows, NEW from, NEW to \in Points, Move(f, from, to),
             from \in HoldsGlobal <=> to \in HoldsGlobal, UNCHANGED activeUDP
      PROVE  GlobalExact'
  BY <1>0, <1>1, ProcessMoves DEF GlobalExact
<1>2. ASSUME NEW f \in Flows, ReserveGlobal(f) PROVE GlobalExact'
  <2>1. CASE Move(f, "global", "memory") /\ activeUDP' = activeUDP + 1
    <3>1. Cardinality(GlobalHolders)' = Cardinality(GlobalHolders) + 1
      BY <1>0, <2>1, ProcessMoves DEF HoldsGlobal, Points
    <3> QED BY <1>0, <2>1, <3>1 DEF GlobalExact
  <2>2. CASE Move(f, "global", "undoRule") /\ UNCHANGED activeUDP
    BY <1>1, <2>2 DEF HoldsGlobal, Points, HoldsSource
  <2> QED BY <1>2, <2>1, <2>2 DEF ReserveGlobal
<1>3. ASSUME NEW f \in Flows, ReturnGlobal(f) PROVE GlobalExact'
  <2>1. PICK from \in HoldsGlobal, to \in Points \ HoldsGlobal : Move(f, from, to)
    BY <1>3 DEF ReturnGlobal, HoldsGlobal, Points, HoldsSource
  <2>2. Cardinality(GlobalHolders)' = Cardinality(GlobalHolders) - 1
    BY <1>0, <2>1, ProcessMoves
  <2>3. activeUDP' = activeUDP - 1
    BY <1>3 DEF ReturnGlobal
  <2> QED BY <1>0, <2>2, <2>3 DEF GlobalExact
<1>4. ASSUME NEW f \in Flows, AdmitFlow(f) \/ CloseSession(f) PROVE GlobalExact'
  BY <1>1, <1>4, EndMoves DEF HoldsGlobal, sessionVars
<1>5. CASE UNCHANGED <<at, active, ruleUDP, activeUDP>>
  BY <1>0, <1>5 DEF GlobalExact
<1>6. ASSUME NEW f \in Flows, Advance(f) PROVE GlobalExact'
  BY <1>1, <1>2, <1>3, <1>6, OtherMoves
<1> QED BY <1>4, <1>5, <1>6, StayingSteps

-----------------------------------------------------------------------------
\* The memory: what sessions reserved and what listeners reserved.

\* The listeners are finitely many.
LEMMA ListenersFinite == IsFiniteSet(Listeners) /\ Cardinality(Listeners) \in Nat
<1>1. IsFiniteSet(Workers) /\ Listeners \subseteq Workers
  BY UdpConstants DEF Listeners
<1> QED BY <1>1, FS_Subset, FS_CardinalityType

\* The memory stays exact: a flow or a listener takes its bytes once and gives
\* them back once.
LEMMA NextMemoryExact == TypeInv /\ MemoryExact /\ [Next]_vars => MemoryExact'
<1> SUFFICES ASSUME TypeInv, MemoryExact, [Next]_vars PROVE MemoryExact'
  OBVIOUS
<1> USE DEF entryVars, sessionVars
<1>0. /\ udpMemory \in Int /\ SessionBytes \in Nat /\ ListenerBytes \in Nat
      /\ worker \in [Workers -> {"down", "starting", "up", "cleanup"}]
  BY UdpConstants DEF TypeInv
<1>1. /\ Cardinality(MemoryHolders) = Cardinality(Holders(Flows, at, HoldsMemory))
      /\ Cardinality(MemoryHolders)' = Cardinality(Holders(Flows, at', HoldsMemory))
  BY DEF MemoryHolders
<1>2. Cardinality(MemoryHolders) \in Nat /\ Cardinality(Listeners) \in Nat
  <2>1. PICK D : D = Flows /\ D \subseteq Flows
    OBVIOUS
  <2> QED BY <2>1, HoldersSize, ListenersFinite DEF MemoryHolders
<1>3. \A b \in Nat, n \in Nat : b * (n + 1) = b * n + b /\ b * (n - 1) = b * n - b
  OBVIOUS
<1>4. ASSUME Cardinality(MemoryHolders)' = Cardinality(MemoryHolders),
             Cardinality(Listeners)' = Cardinality(Listeners), UNCHANGED udpMemory
      PROVE  MemoryExact'
  BY <1>4 DEF MemoryExact
<1>5. UNCHANGED worker => Cardinality(Listeners)' = Cardinality(Listeners)
  BY DEF Listeners
<1>6. UNCHANGED at => Cardinality(MemoryHolders)' = Cardinality(MemoryHolders)
  BY DEF MemoryHolders
<1>7. ASSUME NEW w \in Workers, ReserveListener(w) PROVE MemoryExact'
  <2>1. Listeners' = Listeners \cup {w} /\ w \notin Listeners
    BY <1>0, <1>7 DEF ReserveListener, Listeners
  <2>2. Cardinality(Listeners)' = Cardinality(Listeners) + 1
    BY <2>1, ListenersFinite, FS_AddElement
  <2>3. UNCHANGED at /\ udpMemory' = udpMemory + ListenerBytes
    BY <1>7 DEF ReserveListener
  <2>4. ListenerBytes * (Cardinality(Listeners) + 1) = ListenerBytes * Cardinality(Listeners) + ListenerBytes
    BY <1>0, <1>2, <1>3
  <2> QED BY <1>0, <1>2, <1>6, <2>2, <2>3, <2>4 DEF MemoryExact
<1>8. ASSUME NEW w \in Workers, StartFails(w) \/ FinishCleanup(w) PROVE MemoryExact'
  <2>1. Listeners' = Listeners \ {w} /\ w \in Listeners
    BY <1>0, <1>8 DEF StartFails, FinishCleanup, Listeners
  <2>2. Cardinality(Listeners)' = Cardinality(Listeners) - 1
    BY <2>1, ListenersFinite, FS_RemoveElement
  <2>3. UNCHANGED at /\ udpMemory' = udpMemory - ListenerBytes
    BY <1>8 DEF StartFails, FinishCleanup
  <2>4. ListenerBytes * (Cardinality(Listeners) - 1) = ListenerBytes * Cardinality(Listeners) - ListenerBytes
    BY <1>0, <1>2, <1>3
  <2> QED BY <1>0, <1>2, <1>6, <2>2, <2>3, <2>4 DEF MemoryExact
<1>9. ASSUME NEW w \in Workers, StartWorker(w) \/ LeaveServe(w) PROVE MemoryExact'
  <2>1. Listeners' = Listeners
    BY <1>0, <1>9 DEF StartWorker, LeaveServe, Listeners
  <2>2. UNCHANGED <<at, udpMemory>>
    BY <1>9 DEF StartWorker, LeaveServe
  <2> QED BY <1>4, <1>6, <2>1, <2>2
<1>10. ASSUME NEW f \in Flows, NEW from, NEW to \in Points, Move(f, from, to),
              from \in HoldsMemory <=> to \in HoldsMemory, UNCHANGED <<udpMemory, worker>>
       PROVE  MemoryExact'
  <2>1. Cardinality(MemoryHolders)' = Cardinality(MemoryHolders)
    BY <1>1, <1>10, ProcessMoves
  <2> QED BY <1>4, <1>5, <1>10, <2>1
<1>11. ASSUME NEW f \in Flows, ReserveMemory(f) PROVE MemoryExact'
  <2>1. CASE Move(f, "memory", "dial") /\ udpMemory' = udpMemory + SessionBytes
    <3>1. Cardinality(MemoryHolders)' = Cardinality(MemoryHolders) + 1
      BY <1>1, <2>1, ProcessMoves DEF HoldsMemory, Points, HoldsGlobal, HoldsSource
    <3>2. UNCHANGED worker
      BY <1>11 DEF ReserveMemory
    <3>3. SessionBytes * (Cardinality(MemoryHolders) + 1)
            = SessionBytes * Cardinality(MemoryHolders) + SessionBytes
      BY <1>0, <1>2, <1>3
    <3> QED BY <1>0, <1>2, <1>5, <2>1, <3>1, <3>2, <3>3 DEF MemoryExact
  <2>2. CASE Move(f, "memory", "undoGlobal") /\ UNCHANGED udpMemory
    <3>1. UNCHANGED worker
      BY <1>11 DEF ReserveMemory
    <3> QED BY <1>10, <2>2, <3>1 DEF HoldsMemory, Points, HoldsGlobal, HoldsSource
  <2> QED BY <1>11, <2>1, <2>2 DEF ReserveMemory
<1>12. ASSUME NEW f \in Flows, ReturnMemory(f) PROVE MemoryExact'
  <2>1. PICK from \in HoldsMemory, to \in Points \ HoldsMemory : Move(f, from, to)
    BY <1>12 DEF ReturnMemory, HoldsMemory, Points, HoldsSource, HoldsGlobal
  <2>2. Cardinality(MemoryHolders)' = Cardinality(MemoryHolders) - 1
    BY <1>1, <2>1, ProcessMoves
  <2>3. UNCHANGED worker /\ udpMemory' = udpMemory - SessionBytes
    BY <1>12 DEF ReturnMemory
  <2>4. SessionBytes * (Cardinality(MemoryHolders) - 1)
          = SessionBytes * Cardinality(MemoryHolders) - SessionBytes
    BY <1>0, <1>2, <1>3
  <2> QED BY <1>0, <1>2, <1>5, <2>2, <2>3, <2>4 DEF MemoryExact
<1>13. ASSUME NEW f \in Flows, AdmitFlow(f) \/ CloseSession(f) PROVE MemoryExact'
  BY <1>10, <1>13, EndMoves DEF HoldsMemory
<1>14. ASSUME NEW f \in Flows, Advance(f) PROVE MemoryExact'
  BY <1>10, <1>11, <1>12, <1>14, OtherMoves
<1>15. CASE UNCHANGED <<at, worker, udpMemory>>
  BY <1>4, <1>5, <1>6, <1>15
<1>16. ASSUME NEW w \in Workers, SubtractSwept(w) PROVE MemoryExact'
  BY <1>15, <1>16 DEF SubtractSwept
<1>17. ASSUME NEW w \in Workers, NEW D, Sweep(w, D) PROVE MemoryExact'
  BY <1>15, <1>17 DEF Sweep
<1>18. ASSUME NEW f \in Flows, SeePacket(f) PROVE MemoryExact'
  BY <1>15, <1>18 DEF SeePacket
<1>19. ASSUME NEW s \in Sources, Age(s) PROVE MemoryExact'
  BY <1>15, <1>19 DEF Age
<1>20. CASE UNCHANGED vars
  BY <1>15, <1>20 DEF vars
<1> QED BY <1>7, <1>8, <1>9, <1>13, <1>14, <1>16, <1>17, <1>18, <1>19, <1>20 DEF Next

-----------------------------------------------------------------------------
\* The entries: a sweep deletes them under the mutex and corrects the count
\* after it, so between the two they are in transit.

\* Both sets are finite.
LEMMA EntriesFinite ==
  ASSUME TypeInv, NEW r \in Rules
  PROVE  /\ IsFiniteSet(Tracked(r)) /\ Cardinality(Tracked(r)) \in Nat
         /\ IsFiniteSet(InTransit(r)) /\ Cardinality(InTransit(r)) \in Nat
<1>1. IsFiniteSet(Sources) /\ IsFiniteSet(Workers)
  BY UdpConstants
<1>2. Tracked(r) \subseteq Sources
  BY DEF TypeInv, Tracked
<1>3. InTransit(r) \subseteq Workers \X Sources
  BY DEF InTransit
<1>4. IsFiniteSet(Workers \X Sources)
  BY <1>1, FS_Product
<1> QED BY <1>1, <1>2, <1>3, <1>4, FS_Subset, FS_CardinalityType

\* What one worker has in transit counts once for each entry.
LEMMA OneWorkersEntries ==
  ASSUME NEW w, NEW D, D \subseteq Sources
  PROVE  /\ IsFiniteSet({w} \X D) /\ IsFiniteSet(D) /\ Cardinality(D) \in Nat
         /\ Cardinality({w} \X D) = Cardinality(D)
<1>1. IsFiniteSet(D) /\ Cardinality(D) \in Nat
  BY UdpConstants, FS_Subset, FS_CardinalityType
<1>2. IsFiniteSet({w}) /\ Cardinality({w}) = 1
  BY FS_Singleton
<1>3. IsFiniteSet({w} \X D) /\ Cardinality({w} \X D) = 1 * Cardinality(D)
  BY <1>1, <1>2, FS_Product
<1> QED BY <1>1, <1>3

\* A packet's entry: found, or made and counted.
LEMMA EntryKeepsExact ==
  ASSUME TypeInv, EntryExact, NEW s \in Sources, Entry(s), UNCHANGED swept
  PROVE  EntryExact'
<1>0. RuleOf[s] \in Rules /\ sourceCount \in [Rules -> Int]
  BY UdpConstants DEF TypeInv
<1>1. \A r \in Rules : Cardinality(InTransit(r))' = Cardinality(InTransit(r))
  BY DEF InTransit
<1>2. CASE s \in tracked
  BY <1>1, <1>2 DEF Entry, EntryExact, Tracked
<1>3. CASE s \notin tracked
  <2>1. tracked' = tracked \cup {s} /\ sourceCount' = [sourceCount EXCEPT ![RuleOf[s]] = @ + 1]
    BY <1>3 DEF Entry
  <2>2. ASSUME NEW r \in Rules
        PROVE  Cardinality(Tracked(r))' = IF r = RuleOf[s] THEN Cardinality(Tracked(r)) + 1
                                          ELSE Cardinality(Tracked(r))
    <3>1. CASE r = RuleOf[s]
      <4>1. Tracked(r)' = Tracked(r) \cup {s} /\ s \notin Tracked(r)
        BY <1>3, <2>1, <3>1 DEF Tracked, RuleSources
      <4>2. Cardinality(Tracked(r) \cup {s}) = Cardinality(Tracked(r)) + 1
        BY <4>1, EntriesFinite, FS_AddElement
      <4> QED BY <3>1, <4>1, <4>2
    <3>2. CASE r # RuleOf[s]
      <4>1. Tracked(r)' = Tracked(r)
        BY <2>1, <3>2 DEF Tracked, RuleSources
      <4> QED BY <3>2, <4>1
    <3> QED BY <3>1, <3>2
  <2>3. ASSUME NEW r \in Rules
        PROVE  sourceCount'[r] = Cardinality(Tracked(r))' + Cardinality(InTransit(r))'
    <3>1. Cardinality(Tracked(r)) \in Nat /\ Cardinality(InTransit(r)) \in Nat
      BY EntriesFinite
    <3> QED BY <1>0, <1>1, <2>1, <2>2, <3>1 DEF EntryExact
  <2> QED BY <2>3 DEF EntryExact
<1> QED BY <1>2, <1>3

\* A sweep puts what it deletes in transit.
LEMMA SweepKeepsExact ==
  ASSUME TypeInv, EntryExact, NEW w \in Workers, NEW D \in SUBSET tracked, Sweep(w, D)
  PROVE  EntryExact'
<1>0. swept \in [Workers -> SUBSET Sources] /\ swept[w] = {} /\ UNCHANGED sourceCount
      /\ tracked \subseteq Sources
  BY DEF TypeInv, Sweep, Busy
<1>1. /\ D \subseteq Tracked(WorkerRule[w]) /\ D \subseteq Sources
      /\ tracked' = tracked \ D /\ swept' = [swept EXCEPT ![w] = D]
  BY <1>0 DEF Sweep, Tracked
<1>2. ASSUME NEW r \in Rules, r # WorkerRule[w]
      PROVE  Tracked(r)' = Tracked(r) /\ InTransit(r)' = InTransit(r)
  <2>1. Tracked(r)' = Tracked(r)
    BY <1>1, <1>2 DEF Tracked, RuleSources
  <2>2. InTransit(r)' = InTransit(r)
    BY <1>0, <1>1, <1>2 DEF InTransit
  <2> QED BY <2>1, <2>2
<1>3. ASSUME NEW r \in Rules, r = WorkerRule[w]
      PROVE  /\ Cardinality(Tracked(r))' = Cardinality(Tracked(r)) - Cardinality(D)
             /\ Cardinality(InTransit(r))' = Cardinality(InTransit(r)) + Cardinality(D)
  <2>1. Tracked(r)' = Tracked(r) \ D /\ Tracked(r) \cap D = D
    BY <1>1, <1>3 DEF Tracked
  <2>2. Cardinality(Tracked(r) \ D) = Cardinality(Tracked(r)) - Cardinality(D)
    BY <2>1, EntriesFinite, FS_Difference
  <2>3. InTransit(r)' = InTransit(r) \cup ({w} \X D) /\ InTransit(r) \cap ({w} \X D) = {}
    BY <1>0, <1>1, <1>3 DEF InTransit
  <2>4. Cardinality(InTransit(r) \cup ({w} \X D))
          = Cardinality(InTransit(r)) + Cardinality({w} \X D) - Cardinality({})
    <3>1. IsFiniteSet(InTransit(r)) /\ IsFiniteSet({w} \X D)
      BY <1>1, EntriesFinite, OneWorkersEntries
    <3> QED BY <2>3, <3>1, FS_Union
  <2>5. Cardinality({}) = 0 /\ Cardinality({w} \X D) = Cardinality(D) /\ Cardinality(D) \in Nat
    BY <1>1, OneWorkersEntries, FS_EmptySet
  <2> QED BY <2>1, <2>2, <2>3, <2>4, <2>5, EntriesFinite
<1>4. Cardinality(D) \in Nat
  BY <1>1, OneWorkersEntries
<1>5. ASSUME NEW r \in Rules
      PROVE  sourceCount'[r] = Cardinality(Tracked(r))' + Cardinality(InTransit(r))'
  <2>1. Cardinality(Tracked(r)) \in Nat /\ Cardinality(InTransit(r)) \in Nat
    BY EntriesFinite
  <2>2. CASE r # WorkerRule[w]
    BY <1>0, <1>2, <2>2 DEF EntryExact
  <2>3. CASE r = WorkerRule[w]
    BY <1>0, <1>3, <1>4, <2>1, <2>3 DEF EntryExact
  <2> QED BY <2>2, <2>3
<1> QED BY <1>5 DEF EntryExact

\* The correction ends the transit.
LEMMA SubtractKeepsExact ==
  ASSUME TypeInv, EntryExact, NEW w \in Workers, SubtractSwept(w)
  PROVE  EntryExact'
<1> DEFINE D == swept[w]
<1>0. /\ swept \in [Workers -> SUBSET Sources] /\ D \subseteq Sources
      /\ WorkerRule[w] \in Rules /\ sourceCount \in [Rules -> Int]
  BY UdpConstants DEF TypeInv
<1>1. /\ UNCHANGED tracked /\ swept' = [swept EXCEPT ![w] = {}]
      /\ sourceCount' = [sourceCount EXCEPT ![WorkerRule[w]] = @ - Cardinality(D)]
  BY DEF SubtractSwept
<1>2. \A r \in Rules : Tracked(r)' = Tracked(r)
  BY <1>1 DEF Tracked
<1>3. ASSUME NEW r \in Rules, r # WorkerRule[w] PROVE InTransit(r)' = InTransit(r)
  BY <1>0, <1>1, <1>3 DEF InTransit
<1>4. ASSUME NEW r \in Rules, r = WorkerRule[w]
      PROVE  Cardinality(InTransit(r))' = Cardinality(InTransit(r)) - Cardinality(D)
  <2>1. \A t \in Workers \X Sources : t \in {w} \X D <=> t[1] = w /\ t[2] \in swept[t[1]]
    OBVIOUS
  <2>2. {w} \X D \subseteq InTransit(r)
    BY <1>0, <1>4 DEF InTransit
  <2>3. \A t \in Workers \X Sources : t[2] \in swept'[t[1]] <=> t[2] \in swept[t[1]] /\ t[1] # w
    BY <1>0, <1>1
  <2>4. InTransit(r)' = InTransit(r) \ ({w} \X D)
    BY <2>1, <2>3 DEF InTransit
  <2>5. InTransit(r)' = InTransit(r) \ ({w} \X D) /\ InTransit(r) \cap ({w} \X D) = {w} \X D
    BY <2>2, <2>4
  <2>6. Cardinality(InTransit(r) \ ({w} \X D)) = Cardinality(InTransit(r)) - Cardinality({w} \X D)
    BY <2>5, EntriesFinite, FS_Difference
  <2>7. Cardinality({w} \X D) = Cardinality(D)
    BY <1>0, OneWorkersEntries
  <2> QED BY <2>5, <2>6, <2>7
<1>5. Cardinality(D) \in Nat
  BY <1>0, OneWorkersEntries
<1> HIDE DEF D
<1>6. ASSUME NEW r \in Rules
      PROVE  sourceCount'[r] = Cardinality(Tracked(r))' + Cardinality(InTransit(r))'
  <2>1. Cardinality(Tracked(r)) \in Nat /\ Cardinality(InTransit(r)) \in Nat
    BY EntriesFinite
  <2>2. CASE r # WorkerRule[w]
    BY <1>0, <1>1, <1>2, <1>3, <2>2 DEF EntryExact
  <2>3. CASE r = WorkerRule[w]
    BY <1>0, <1>1, <1>2, <1>4, <1>5, <2>1, <2>3 DEF EntryExact
  <2> QED BY <2>2, <2>3
<1> QED BY <1>6 DEF EntryExact

\* The count of tracked sources stays exact.
LEMMA NextEntryExact == TypeInv /\ EntryExact /\ [Next]_vars => EntryExact'
<1> SUFFICES ASSUME TypeInv, EntryExact, [Next]_vars PROVE EntryExact'
  OBVIOUS
<1> USE DEF entryVars, sessionVars
<1>1. CASE UNCHANGED <<tracked, sourceCount, swept>>
  BY <1>1 DEF EntryExact, Tracked, InTransit
<1>2. ASSUME NEW f \in Flows, AdmitFlow(f) \/ SeePacket(f) PROVE EntryExact'
  <2>1. SourceOf[f] \in Sources
    BY UdpConstants
  <2>2. Entry(SourceOf[f]) /\ UNCHANGED swept
    BY <1>2 DEF AdmitFlow, SeePacket
  <2> QED BY <2>1, <2>2, EntryKeepsExact
<1>3. ASSUME NEW f \in Flows, CloseSession(f) \/ Advance(f) PROVE EntryExact'
  BY <1>1, <1>3, EndMoves, OtherMoves
<1>4. ASSUME NEW w \in Workers, \/ ReserveListener(w) \/ StartWorker(w) \/ StartFails(w)
                                \/ LeaveServe(w) \/ FinishCleanup(w)
      PROVE  EntryExact'
  BY <1>1, <1>4 DEF ReserveListener, StartWorker, StartFails, LeaveServe, FinishCleanup
<1>5. ASSUME NEW s \in Sources, Age(s) PROVE EntryExact'
  BY <1>1, <1>5 DEF Age
<1>6. CASE UNCHANGED vars
  BY <1>1, <1>6 DEF vars
<1> QED BY <1>2, <1>3, <1>4, <1>5, <1>6, SweepKeepsExact, SubtractKeepsExact DEF Next

\* No step takes the entry of a flow that holds a place in it: a sweep looks
\* at the count of the entry, which is the number of those flows.
LEMMA NextEntriesKept ==
  TypeInv /\ SourceExact /\ EntriesKept /\ [Next]_vars => EntriesKept'
<1> SUFFICES ASSUME TypeInv, SourceExact, EntriesKept, [Next]_vars PROVE EntriesKept'
  OBVIOUS
<1> USE DEF entryVars, sessionVars
<1>1. ASSUME NEW w \in Workers, NEW D \in SUBSET tracked, Sweep(w, D) PROVE EntriesKept'
  <2> SUFFICES ASSUME NEW f \in Flows, at[f] \in HoldsSource
               PROVE  SourceOf[f] \in tracked \ D
    BY <1>1 DEF Sweep, EntriesKept
  <2>1. FlowsOf(SourceOf[f]) \subseteq Flows /\ f \in SourceHolders(SourceOf[f])
        /\ SourceOf[f] \in Sources
    BY UdpConstants DEF SourceHolders, Holders, FlowsOf
  <2>2. active[SourceOf[f]] # 0
    BY <2>1, HoldersSize DEF SourceExact, SourceHolders
  <2> QED BY <1>1, <2>2 DEF Sweep, EntriesKept
<1>2. CASE UNCHANGED <<at, tracked>>
  BY <1>2 DEF EntriesKept
<1>3. ASSUME NEW f \in Flows, AdmitFlow(f) PROVE EntriesKept'
  <2>1. Move(f, "none", "session")
    BY <1>3 DEF AdmitFlow
  <2>2. tracked \subseteq tracked' /\ SourceOf[f] \in tracked'
    BY <1>3 DEF AdmitFlow, Entry
  <2> QED BY <2>1, <2>2 DEF EntriesKept, Move, TypeInv
<1>4. ASSUME NEW f \in Flows, SeePacket(f) PROVE EntriesKept'
  BY <1>4 DEF SeePacket, Entry, EntriesKept
<1>5. ASSUME NEW f \in Flows, NEW from, NEW to, Move(f, from, to),
             to \in HoldsSource => from \in HoldsSource, UNCHANGED tracked
      PROVE  EntriesKept'
  BY <1>5 DEF EntriesKept, Move, TypeInv
<1>6. ASSUME NEW f \in Flows, CloseSession(f) PROVE EntriesKept'
  BY <1>5, <1>6, EndMoves DEF HoldsSource
<1>7. ASSUME NEW f \in Flows, Advance(f) PROVE EntriesKept'
  <2>1. CASE RollbackSource(f)
    BY <1>5, <2>1 DEF RollbackSource, HoldsSource
  <2> QED BY <1>5, <1>7, <2>1, OtherMoves
<1>8. ASSUME NEW w \in Workers, \/ ReserveListener(w) \/ StartWorker(w) \/ StartFails(w)
                                \/ LeaveServe(w) \/ FinishCleanup(w) \/ SubtractSwept(w)
      PROVE  EntriesKept'
  BY <1>2, <1>8 DEF ReserveListener, StartWorker, StartFails, LeaveServe, FinishCleanup, SubtractSwept
<1>9. ASSUME NEW s \in Sources, Age(s) PROVE EntriesKept'
  BY <1>2, <1>9 DEF Age
<1>10. CASE UNCHANGED vars
  BY <1>2, <1>10 DEF vars
<1> QED BY <1>1, <1>3, <1>4, <1>6, <1>7, <1>8, <1>9, <1>10 DEF Next

-----------------------------------------------------------------------------

\* No worker runs and no flow holds anything at first.
LEMMA InitBudgetInv == Init => BudgetInv
<1> SUFFICES ASSUME Init PROVE BudgetInv
  OBVIOUS
<1>0. Cardinality({}) = 0 /\ SessionBytes \in Nat /\ ListenerBytes \in Nat
  BY UdpConstants, FS_EmptySet
<1>1. TypeInv
  BY DEF Init, TypeInv, Points
<1>2. SourceExact
  <2>1. \A s \in Sources : SourceHolders(s) = {}
    BY DEF Init, SourceHolders, FlowsOf, Holders, HoldsSource
  <2> QED BY <1>0, <2>1 DEF Init, SourceExact
<1>3. RuleExact
  <2>1. \A r \in Rules : RuleHolders(r) = {}
    BY DEF Init, RuleHolders, RuleFlows, Holders, HoldsRule
  <2> QED BY <1>0, <2>1 DEF Init, RuleExact
<1>4. GlobalExact
  <2>1. GlobalHolders = {}
    BY DEF Init, GlobalHolders, Holders, HoldsGlobal
  <2> QED BY <1>0, <2>1 DEF Init, GlobalExact
<1>5. MemoryExact
  <2>1. MemoryHolders = {} /\ Listeners = {}
    BY DEF Init, MemoryHolders, Holders, HoldsMemory, Listeners
  <2> QED BY <1>0, <2>1 DEF Init, MemoryExact
<1>6. EntryExact
  <2>1. \A r \in Rules : Tracked(r) = {} /\ InTransit(r) = {}
    BY DEF Init, Tracked, InTransit
  <2> QED BY <1>0, <2>1 DEF Init, EntryExact
<1>7. EntriesKept
  BY DEF Init, EntriesKept, HoldsSource
<1> QED BY <1>1, <1>2, <1>3, <1>4, <1>5, <1>6, <1>7, CountersParts DEF BudgetInv

\* Every step keeps the invariant.
LEMMA NextBudgetInv == BudgetInv /\ [Next]_vars => BudgetInv'
<1> SUFFICES ASSUME BudgetInv, [Next]_vars PROVE BudgetInv'
  OBVIOUS
<1>1. TypeInv /\ EntriesKept /\ SourceExact /\ RuleExact /\ GlobalExact /\ MemoryExact /\ EntryExact
  BY CountersParts DEF BudgetInv
<1>2. /\ TypeInv' /\ EntriesKept' /\ SourceExact' /\ RuleExact' /\ GlobalExact'
      /\ MemoryExact' /\ EntryExact'
  BY <1>1, NextTypeInv, NextEntriesKept, NextSourceExact, NextRuleExact, NextGlobalExact,
     NextMemoryExact, NextEntryExact
<1>3. CountersExact'
  BY <1>2 DEF CountersExact, SourceExact, RuleExact, GlobalExact, MemoryExact, EntryExact,
     SourceHolders, RuleHolders, GlobalHolders, MemoryHolders, Listeners, Tracked, Holders, Holding
<1> QED BY <1>2, <1>3 DEF BudgetInv

\* The inductive invariant holds after every step of the workers.
THEOREM BudgetInvariant == UdpSpec => []BudgetInv
BY InitBudgetInv, NextBudgetInv, PTL DEF UdpSpec

\* Every counter of the UDP budgets equals what the flows, the listeners and
\* the entries hold, after any interleaving of newSession, closeSession, the
\* roll-backs and maintainUDPSources of any number of workers.
THEOREM CountersAlwaysExact == UdpSpec => []CountersExact
BY BudgetInvariant, PTL DEF BudgetInv

\* maintainUDPSources never deletes the entry of a source that has a session
\* or is about to get one.
THEOREM EntriesAlwaysKept == UdpSpec => []EntriesKept
BY BudgetInvariant, PTL DEF BudgetInv

\* The signed counters of the UDP budgets are never negative.
THEOREM TypeAlwaysCorrect == UdpSpec => []TypeOK
<1>1. BudgetInv => TypeOK
  <2> SUFFICES ASSUME BudgetInv PROVE TypeOK
    OBVIOUS
  <2>0. TypeInv /\ SourceExact /\ RuleExact /\ GlobalExact /\ MemoryExact /\ EntryExact
    BY CountersParts DEF BudgetInv
  <2>1. PICK D : D = Flows /\ D \subseteq Flows
    OBVIOUS
  <2>2. \A s \in Sources : active[s] \in Nat
    <3>1. \A s \in Sources : FlowsOf(s) \subseteq Flows
      BY DEF FlowsOf
    <3> QED BY <2>0, <3>1, HoldersSize DEF SourceExact, SourceHolders
  <2>3. \A r \in Rules : ruleUDP[r] \in Nat
    <3>1. \A r \in Rules : RuleFlows(r) \subseteq Flows
      BY DEF RuleFlows
    <3> QED BY <2>0, <3>1, HoldersSize DEF RuleExact, RuleHolders
  <2>4. activeUDP \in Nat
    BY <2>0, <2>1, HoldersSize DEF GlobalExact, GlobalHolders
  <2>5. udpMemory \in Nat
    <3>1. Cardinality(MemoryHolders) \in Nat /\ Cardinality(Listeners) \in Nat
      BY <2>1, HoldersSize, ListenersFinite DEF MemoryHolders
    <3>2. SessionBytes \in Nat /\ ListenerBytes \in Nat
      BY UdpConstants
    <3>3. \A a \in Nat, b \in Nat : a * b \in Nat
      OBVIOUS
    <3> QED BY <2>0, <3>1, <3>2, <3>3 DEF MemoryExact
  <2>6. \A r \in Rules : sourceCount[r] \in Nat
    BY <2>0, EntriesFinite DEF EntryExact
  <2> QED BY <2>0, <2>2, <2>3, <2>4, <2>5, <2>6 DEF TypeInv, TypeOK
<1> QED BY <1>1, BudgetInvariant, PTL

-----------------------------------------------------------------------------
\* The limits.  Each counter only grows while there is room; the entries are
\* at most what is counted, since an entry leaves the count after the table.

\* Only a packet that makes an entry adds to the tracked sources of a rule,
\* and only while there is room in the count.
LEMMA EntryWithin ==
  ASSUME TypeInv, EntryExact, NEW s \in Sources, Entry(s),
         NEW r \in Rules, Tracked(r) # {} => Cardinality(Tracked(r)) <= MaxTracked[r]
  PROVE  (Tracked(r) # {} => Cardinality(Tracked(r)) <= MaxTracked[r])'
<1>0. MaxTracked[r] \in Int
  BY UdpConstants
<1>1. CASE s \in tracked \/ r # RuleOf[s]
  <2>1. Tracked(r)' = Tracked(r)
    BY <1>1 DEF Entry, Tracked, RuleSources
  <2> QED BY <2>1
<1>2. CASE s \notin tracked /\ r = RuleOf[s]
  <2>1. Tracked(r)' = Tracked(r) \cup {s} /\ s \notin Tracked(r)
    BY <1>2 DEF Entry, Tracked, RuleSources
  <2>2. Cardinality(Tracked(r) \cup {s}) = Cardinality(Tracked(r)) + 1
    BY <2>1, EntriesFinite, FS_AddElement
  <2>3. sourceCount[r] <= MaxTracked[r] - 1
    BY <1>2 DEF Entry, Room
  <2>4. /\ sourceCount[r] = Cardinality(Tracked(r)) + Cardinality(InTransit(r))
        /\ Cardinality(Tracked(r)) \in Nat /\ Cardinality(InTransit(r)) \in Nat
    BY EntriesFinite DEF EntryExact
  <2>5. Cardinality(Tracked(r)) + 1 <= MaxTracked[r]
    BY <1>0, <2>3, <2>4
  <2> QED BY <2>1, <2>2, <2>5
<1> QED BY <1>1, <1>2

\* Every step keeps the limits.
LEMMA NextWithinLimits == BudgetInv /\ WithinLimits /\ [Next]_vars => WithinLimits'
<1> SUFFICES ASSUME BudgetInv, WithinLimits, [Next]_vars PROVE WithinLimits'
  OBVIOUS
<1> USE DEF entryVars, sessionVars
<1>0. TypeInv /\ EntryExact
  BY CountersParts DEF BudgetInv
<1>1. /\ RuleMax \in [Rules -> Int] /\ SourceMax \in [Rules -> Int] /\ MaxUDP \in Int
      /\ MaxMemory \in Int /\ SessionBytes \in Nat /\ ListenerBytes \in Nat
      /\ \A f \in Flows : SourceOf[f] \in Sources /\ FlowRule(f) \in Rules
                          /\ FlowRule(f) = RuleOf[SourceOf[f]]
  BY UdpConstants DEF FlowRule
<1> DEFINE WithinSource == \A s \in Sources : active[s] > 0 => active[s] <= SourceMax[RuleOf[s]]
           WithinRule   == \A r \in Rules : ruleUDP[r] > 0 => ruleUDP[r] <= RuleMax[r]
           WithinGlobal == activeUDP > 0 => activeUDP <= MaxUDP
           WithinMemory == udpMemory > 0 => udpMemory <= MaxMemory
           WithinTable  == \A r \in Rules : Tracked(r) # {} => Cardinality(Tracked(r)) <= MaxTracked[r]
<1>2. WithinSource /\ WithinRule /\ WithinGlobal /\ WithinMemory /\ WithinTable
  BY DEF WithinLimits, Tracked
<1>3. WithinSource'
  <2>1. ASSUME NEW f \in Flows, AdmitFlow(f) PROVE WithinSource'
    BY <1>0, <1>1, <1>2, <2>1 DEF AdmitFlow, TypeInv
  <2>2. ASSUME NEW f \in Flows, OneLess(SourceOf[f]) PROVE WithinSource'
    <3>1. \A s \in Sources : active'[s] = active[s] \/ active'[s] = active[s] - 1
      BY <1>0, <1>1, <2>2 DEF OneLess, TypeInv
    <3>2. \A s \in Sources : active[s] \in Int /\ SourceMax[RuleOf[s]] \in Int
      BY <1>0, <1>1, UdpConstants DEF TypeInv
    <3> QED BY <1>2, <3>1, <3>2
  <2>3. UNCHANGED active => WithinSource'
    BY <1>2
  <2>4. ASSUME NEW f \in Flows, CloseSession(f) \/ RollbackSource(f) PROVE WithinSource'
    BY <2>2, <2>4 DEF CloseSession, RollbackSource
  <2> HIDE DEF WithinSource
  <2>5. ASSUME NEW f \in Flows, Advance(f) PROVE WithinSource'
    BY <1>0, <2>3, <2>4, <2>5, OtherMoves
  <2> QED BY <2>1, <2>3, <2>4, <2>5, StayingSteps
<1>4. WithinRule'
  <2>1. ASSUME NEW f \in Flows, ReserveSession(f) \/ ReturnRule(f) PROVE WithinRule'
    BY <1>0, <1>1, <1>2, <2>1 DEF ReserveSession, ReturnRule, TypeInv
  <2>2. UNCHANGED ruleUDP => WithinRule'
    BY <1>2
  <2> HIDE DEF WithinRule
  <2>3. ASSUME NEW f \in Flows, Advance(f) PROVE WithinRule'
    BY <1>0, <2>1, <2>2, <2>3, OtherMoves
  <2> QED BY <2>2, <2>3, StayingSteps, EndMoves
<1>5. WithinGlobal'
  <2>1. ASSUME NEW f \in Flows, ReserveGlobal(f) \/ ReturnGlobal(f) PROVE WithinGlobal'
    BY <1>0, <1>1, <1>2, <2>1 DEF ReserveGlobal, ReturnGlobal, Room, TypeInv
  <2>2. UNCHANGED activeUDP => WithinGlobal'
    BY <1>2
  <2> HIDE DEF WithinGlobal
  <2>3. ASSUME NEW f \in Flows, Advance(f) PROVE WithinGlobal'
    BY <1>0, <2>1, <2>2, <2>3, OtherMoves
  <2> QED BY <2>2, <2>3, StayingSteps, EndMoves
<1>6. WithinMemory'
  <2>1. ASSUME NEW f \in Flows, ReserveMemory(f) \/ ReturnMemory(f) PROVE WithinMemory'
    BY <1>0, <1>1, <1>2, <2>1 DEF ReserveMemory, ReturnMemory, Room, TypeInv
  <2>2. ASSUME NEW w \in Workers, ReserveListener(w) \/ StartFails(w) \/ FinishCleanup(w)
        PROVE  WithinMemory'
    BY <1>0, <1>1, <1>2, <2>2 DEF ReserveListener, StartFails, FinishCleanup, Room, TypeInv
  <2>3. UNCHANGED udpMemory => WithinMemory'
    BY <1>2
  <2> HIDE DEF WithinMemory
  <2>4. ASSUME NEW f \in Flows, Advance(f) PROVE WithinMemory'
    BY <1>0, <2>1, <2>3, <2>4, OtherMoves
  <2>5. ASSUME NEW f \in Flows, AdmitFlow(f) \/ CloseSession(f) \/ SeePacket(f) PROVE WithinMemory'
    BY <2>3, <2>5, EndMoves DEF SeePacket
  <2>6. ASSUME NEW w \in Workers, \/ StartWorker(w) \/ LeaveServe(w) \/ SubtractSwept(w)
                                  \/ \E D : Sweep(w, D)
        PROVE  WithinMemory'
    BY <2>3, <2>6 DEF StartWorker, LeaveServe, SubtractSwept, Sweep
  <2>7. ASSUME NEW s \in Sources, Age(s) PROVE WithinMemory'
    BY <2>3, <2>7 DEF Age
  <2>8. CASE UNCHANGED vars
    BY <2>3, <2>8 DEF vars
  <2> QED BY <2>2, <2>4, <2>5, <2>6, <2>7, <2>8 DEF Next
<1>7. WithinTable'
  <2>1. ASSUME NEW f \in Flows, AdmitFlow(f) \/ SeePacket(f) PROVE WithinTable'
    <3>1. Entry(SourceOf[f])
      BY <2>1 DEF AdmitFlow, SeePacket
    <3> QED BY <1>0, <1>1, <1>2, <3>1, EntryWithin
  <2>2. ASSUME NEW w \in Workers, NEW D, Sweep(w, D) PROVE WithinTable'
    <3> SUFFICES ASSUME NEW r \in Rules, Tracked(r)' # {}
                 PROVE  Cardinality(Tracked(r)') <= MaxTracked[r]
      OBVIOUS
    <3>1. Tracked(r)' \subseteq Tracked(r)
      BY <2>2 DEF Sweep, Tracked
    <3>2. IsFiniteSet(Tracked(r)) /\ Cardinality(Tracked(r)) \in Nat
      BY <1>0, EntriesFinite
    <3>3. Cardinality(Tracked(r)') <= Cardinality(Tracked(r)) /\ Cardinality(Tracked(r)') \in Nat
      BY <3>1, <3>2, FS_Subset, FS_CardinalityType
    <3>4. MaxTracked[r] \in Int
      BY UdpConstants
    <3>5. Tracked(r) # {}
      BY <3>1
    <3> QED BY <1>2, <3>2, <3>3, <3>4, <3>5
  <2>3. UNCHANGED tracked => WithinTable'
    <3>1. UNCHANGED tracked => \A r \in Rules : Tracked(r)' = Tracked(r)
      BY DEF Tracked
    <3> QED BY <1>2, <3>1
  <2> HIDE DEF WithinTable
  <2>4. ASSUME NEW f \in Flows, CloseSession(f) \/ Advance(f) PROVE WithinTable'
    BY <1>0, <2>3, <2>4, EndMoves, OtherMoves
  <2>5. ASSUME NEW w \in Workers, \/ ReserveListener(w) \/ StartWorker(w) \/ StartFails(w)
                                  \/ LeaveServe(w) \/ FinishCleanup(w) \/ SubtractSwept(w)
        PROVE  WithinTable'
    BY <2>3, <2>5 DEF ReserveListener, StartWorker, StartFails, LeaveServe, FinishCleanup, SubtractSwept
  <2>6. ASSUME NEW s \in Sources, Age(s) PROVE WithinTable'
    BY <2>3, <2>6 DEF Age
  <2>7. CASE UNCHANGED vars
    BY <2>3, <2>7 DEF vars
  <2> QED BY <2>1, <2>2, <2>4, <2>5, <2>6, <2>7 DEF Next
<1> QED BY <1>3, <1>4, <1>5, <1>6, <1>7 DEF WithinLimits, Tracked

\* No source, no rule and not the process exceeds its limit of UDP sessions,
\* the reserved memory stays within MaxUDPMemoryBytes, and the tables of
\* sources within their size, in spite of the late correction by the sweep.
THEOREM AlwaysWithinLimits == UdpSpec => []WithinLimits
<1>1. Init => WithinLimits
  BY DEF Init, WithinLimits
<1> QED BY <1>1, BudgetInvariant, NextWithinLimits, PTL DEF UdpSpec

=============================================================================

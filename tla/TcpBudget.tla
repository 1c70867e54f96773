------------------------------- MODULE TcpBudget -------------------------------
(***************************************************************************)
(* The TCP admission budgets of internal/proxy/budget.go.  A connection    *)
(* takes one slot of the process, one of its rule and one of its source    *)
(* address within the rule, in this order, without a common lock; a step   *)
(* that fails gives back what was taken, and a connection that ends gives  *)
(* back all three.  Each atomic or mutex-protected operation is one step.  *)
(* The process limit is set once, before the first listener starts, and a  *)
(* rule's limits change only with a runner.stop that waits for all its     *)
(* connections, so the limits are constants.                               *)
(***************************************************************************)
EXTENDS Integers, FiniteSets

CONSTANTS
  Conns,       \* accepted connections (handler goroutines)
  Rules,       \* logical rules
  Sources,     \* client addresses
  RuleOf,      \* RuleOf[c]: the rule whose listener accepted c
  SourceOf,    \* SourceOf[c]: its client address
  MaxTCP,      \* resourceBudget.maxTCP
  RuleMax,     \* RuleMax[r]: the rule's max_tcp_connections
  SourceMax    \* SourceMax[r]: the rule's max_tcp_connections_per_ip

ASSUME BudgetConstants ==
  /\ IsFiniteSet(Conns)
  /\ RuleOf \in [Conns -> Rules] /\ SourceOf \in [Conns -> Sources]
  /\ MaxTCP \in Int
  /\ RuleMax \in [Rules -> Int] /\ SourceMax \in [Rules -> Int]

VARIABLES
  activeTCP,    \* resourceBudget.activeTCP
  ruleTCP,      \* ruleTCP[r]: ruleBudget.activeTCP
  counts,       \* counts[r][s]: ruleBudget.sources, over all shards
  pc            \* pc[c]: where connection c is in reserveTCP or releaseTCP

vars == <<activeTCP, ruleTCP, counts, pc>>

\* What a connection at a given point holds.
HoldsGlobal == {"rule", "source", "undoRule", "undoGlobal", "held", "freeRule", "freeGlobal"}
HoldsRule   == {"source", "undoRule", "held", "freeRule"}
HoldsSource == {"held"}
Points == HoldsGlobal \cup {"new", "closed"}

\* The members of D that are at one of the points P, when at[c] is where c is.
Holding(D, at, P) == {c \in D : at[c] \in P}

OfRule(r)      == {c \in Conns : RuleOf[c] = r}
OfSource(r, s) == {c \in Conns : RuleOf[c] = r /\ SourceOf[c] = s}

GlobalHolders       == Holding(Conns, pc, HoldsGlobal)
RuleHolders(r)      == Holding(OfRule(r), pc, HoldsRule)
SourceHolders(r, s) == Holding(OfSource(r, s), pc, HoldsSource)

Init ==
  /\ activeTCP = 0
  /\ ruleTCP = [r \in Rules |-> 0]
  /\ counts = [r \in Rules |-> [s \in Sources |-> 0]]
  /\ pc = [c \in Conns |-> "new"]

Move(c, from, to) == pc[c] = from /\ pc' = [pc EXCEPT ![c] = to]

\* Mutant: the limit itself is already too many, one more is still let in.
RoomOffByOne(current, maximum) == maximum > 0 /\ current <= maximum

\* reserveAtomicN with amount 1: a limit of zero or less admits nothing.
Room(current, maximum) == maximum > 0 /\ current <= maximum - 1

ReserveGlobal(c) ==
  /\ Move(c, "new", "rule") /\ Room(activeTCP, MaxTCP)
  /\ activeTCP' = activeTCP + 1
  /\ UNCHANGED <<ruleTCP, counts>>

RejectGlobal(c) ==
  /\ Move(c, "new", "closed") /\ ~Room(activeTCP, MaxTCP)
  /\ UNCHANGED <<activeTCP, ruleTCP, counts>>

ReserveRule(c) ==
  /\ Move(c, "rule", "source") /\ Room(ruleTCP[RuleOf[c]], RuleMax[RuleOf[c]])
  /\ ruleTCP' = [ruleTCP EXCEPT ![RuleOf[c]] = @ + 1]
  /\ UNCHANGED <<activeTCP, counts>>

RejectRule(c) ==
  /\ Move(c, "rule", "undoGlobal") /\ ~Room(ruleTCP[RuleOf[c]], RuleMax[RuleOf[c]])
  /\ UNCHANGED <<activeTCP, ruleTCP, counts>>

\* Mutant: a source at its limit is let in once more.
ReserveSourceOneMore(c) ==
  /\ Move(c, "source", "held")
  /\ counts[RuleOf[c]][SourceOf[c]] <= SourceMax[RuleOf[c]]
  /\ counts' = [counts EXCEPT ![RuleOf[c]][SourceOf[c]] = @ + 1]
  /\ UNCHANGED <<activeTCP, ruleTCP>>

\* Under the shard's mutex.
ReserveSource(c) ==
  /\ Move(c, "source", "held")
  /\ counts[RuleOf[c]][SourceOf[c]] < SourceMax[RuleOf[c]]
  /\ counts' = [counts EXCEPT ![RuleOf[c]][SourceOf[c]] = @ + 1]
  /\ UNCHANGED <<activeTCP, ruleTCP>>

\* Mutant: the rejection returns without giving the rule's slot back.
RejectSourceLeaks(c) ==
  /\ Move(c, "source", "undoGlobal")
  /\ counts[RuleOf[c]][SourceOf[c]] >= SourceMax[RuleOf[c]]
  /\ UNCHANGED <<activeTCP, ruleTCP, counts>>

RejectSource(c) ==
  /\ Move(c, "source", "undoRule")
  /\ counts[RuleOf[c]][SourceOf[c]] >= SourceMax[RuleOf[c]]
  /\ UNCHANGED <<activeTCP, ruleTCP, counts>>

\* Mutant: a reservation refused for its source is not rolled back.
ReturnRuleOnlyOnRelease(c) ==
  /\ Move(c, "freeRule", "freeGlobal")
  /\ ruleTCP' = [ruleTCP EXCEPT ![RuleOf[c]] = @ - 1]
  /\ UNCHANGED <<activeTCP, counts>>

\* The roll-back of a rejected reservation and the tail of releaseTCP.
ReturnRule(c) ==
  /\ Move(c, "undoRule", "undoGlobal") \/ Move(c, "freeRule", "freeGlobal")
  /\ ruleTCP' = [ruleTCP EXCEPT ![RuleOf[c]] = @ - 1]
  /\ UNCHANGED <<activeTCP, counts>>

ReturnGlobal(c) ==
  /\ Move(c, "undoGlobal", "closed") \/ Move(c, "freeGlobal", "closed")
  /\ activeTCP' = activeTCP - 1
  /\ UNCHANGED <<ruleTCP, counts>>

\* Mutant: the handler and the closed connection both release the source.
ReleaseSourceTwice(c) ==
  /\ Move(c, "held", "freeRule")
  /\ counts' = [counts EXCEPT ![RuleOf[c]][SourceOf[c]] = @ - 2]
  /\ UNCHANGED <<activeTCP, ruleTCP>>

\* releaseTCP: the entry of a source is deleted with its last connection.
ReleaseSource(c) ==
  /\ Move(c, "held", "freeRule")
  /\ counts' = [counts EXCEPT ![RuleOf[c]][SourceOf[c]] = IF @ <= 1 THEN 0 ELSE @ - 1]
  /\ UNCHANGED <<activeTCP, ruleTCP>>

\* Another client connects from the same address.
Reconnect(c) ==
  /\ Move(c, "closed", "new")
  /\ UNCHANGED <<activeTCP, ruleTCP, counts>>

\* The steps of reserveTCP, and of releaseTCP after its first.
Advance(c) ==
  \/ ReserveGlobal(c) \/ RejectGlobal(c) \/ ReserveRule(c) \/ RejectRule(c)
  \/ ReserveSource(c) \/ RejectSource(c) \/ ReturnRule(c) \/ ReturnGlobal(c)

Next ==
  \E c \in Conns : Advance(c) \/ ReleaseSource(c) \/ Reconnect(c)

BudgetSpec == Init /\ [][Next]_vars

\* A goroutine inside reserveTCP or releaseTCP keeps running.  A connection
\* that is forwarded may live for ever.
FairBudgetSpec == BudgetSpec /\ \A c \in Conns : WF_vars(Advance(c))

-----------------------------------------------------------------------------

\* The atomic counters are signed, yet none of them ever goes below zero, and
\* a connection is at one of the points of reserveTCP and releaseTCP.
TypeOK ==
  /\ activeTCP \in Nat
  /\ ruleTCP \in [Rules -> Nat]
  /\ counts \in [Rules -> [Sources -> Nat]]
  /\ pc \in [Conns -> Points]

\* No slot is lost and none is given back twice: whatever the interleaving of
\* reservations, roll-backs and releases, each counter is the number of
\* connections that hold one of its slots.
CountersExact ==
  /\ activeTCP = Cardinality(GlobalHolders)
  /\ \A r \in Rules : ruleTCP[r] = Cardinality(RuleHolders(r))
  /\ \A r \in Rules, s \in Sources : counts[r][s] = Cardinality(SourceHolders(r, s))

\* The connections let in never exceed the limit of the process, of their
\* rule or of their source, although no lock covers the three counters.
WithinLimits ==
  /\ GlobalHolders # {} => Cardinality(GlobalHolders) <= MaxTCP
  /\ \A r \in Rules :
       RuleHolders(r) # {} => Cardinality(RuleHolders(r)) <= RuleMax[r]
  /\ \A r \in Rules, s \in Sources :
       SourceHolders(r, s) # {} => Cardinality(SourceHolders(r, s)) <= SourceMax[r]

\* The connections being forwarded: reserveTCP has returned true for them.
Forwarded == Holding(Conns, pc, HoldsSource)

Admission == INSTANCE TcpAdmission WITH admitted <- Forwarded

\* To its callers reserveTCP is one atomic check of all three limits and one
\* atomic entry, although it is three separate counters with roll-backs: each
\* step lets in one connection for which every limit has room, lets one go,
\* or changes nothing they can see.
AtomicAdmission == Admission!AdmissionSpec

\* A refused or finished connection gets rid of all its slots, however the
\* others interleave: only a connection that is let in keeps them.
SlotsReturned ==
  \A c \in Conns : pc[c] \in HoldsGlobal ~> pc[c] \in {"held", "closed"}

=============================================================================

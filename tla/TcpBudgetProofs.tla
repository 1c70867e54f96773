---------------------------- MODULE TcpBudgetProofs ----------------------------
(***************************************************************************)
(* The TCP budgets never lose a slot and never give one back twice, for    *)
(* every number of connections, rules and sources and every limit.         *)
(*                                                                         *)
(* CountersExact is inductive together with the types of the program       *)
(* counters: every step moves one connection between two points, and the   *)
(* sets of holders gain that connection, lose it or stay as they are,      *)
(* which the three lemmas on Holding turn into cardinalities.              *)
(***************************************************************************)
EXTENDS TcpBudget, FiniteSetTheorems, TLAPS

\* A connection that moves between two points on the same side of P, or that
\* is not in D, changes nothing.
LEMMA HoldingStays ==
  ASSUME NEW D, D \subseteq Conns, NEW at \in [Conns -> Points], NEW P,
         NEW c \in Conns, NEW to \in Points,
         c \in D => (at[c] \in P <=> to \in P)
  PROVE  Holding(D, [at EXCEPT ![c] = to], P) = Holding(D, at, P)
BY DEF Holding

\* A connection of D that moves into P adds one holder.
LEMMA HoldingGains ==
  ASSUME NEW D, D \subseteq Conns, NEW at \in [Conns -> Points], NEW P,
         NEW c \in D, NEW to \in Points, at[c] \notin P, to \in P
  PROVE  Cardinality(Holding(D, [at EXCEPT ![c] = to], P))
           = Cardinality(Holding(D, at, P)) + 1
<1> DEFINE before == Holding(D, at, P)
           after  == Holding(D, [at EXCEPT ![c] = to], P)
<1>1. after = before \cup {c} /\ c \notin before
  BY DEF Holding
<1>2. IsFiniteSet(before)
  <2>1. IsFiniteSet(Conns) /\ before \subseteq Conns
    BY BudgetConstants DEF Holding
  <2> QED BY <2>1, FS_Subset
<1> HIDE DEF before, after
<1>3. Cardinality(before \cup {c}) = Cardinality(before) + 1
  BY <1>1, <1>2, FS_AddElement
<1>4. Cardinality(after) = Cardinality(before) + 1
  BY <1>1, <1>3
<1> QED BY <1>4 DEF before, after

\* A connection of D that moves out of P takes one holder away.
LEMMA HoldingLoses ==
  ASSUME NEW D, D \subseteq Conns, NEW at \in [Conns -> Points], NEW P,
         NEW c \in D, NEW to \in Points, at[c] \in P, to \notin P
  PROVE  Cardinality(Holding(D, [at EXCEPT ![c] = to], P))
           = Cardinality(Holding(D, at, P)) - 1
<1> DEFINE before == Holding(D, at, P)
           after  == Holding(D, [at EXCEPT ![c] = to], P)
<1>1. after = before \ {c} /\ c \in before
  BY DEF Holding
<1>2. IsFiniteSet(before)
  <2>1. IsFiniteSet(Conns) /\ before \subseteq Conns
    BY BudgetConstants DEF Holding
  <2> QED BY <2>1, FS_Subset
<1> HIDE DEF before, after
<1>3. Cardinality(before \ {c}) = Cardinality(before) - 1
  BY <1>1, <1>2, FS_RemoveElement
<1>4. Cardinality(after) = Cardinality(before) - 1
  BY <1>1, <1>3
<1> QED BY <1>4 DEF before, after

\* A set of holders is finite, so its size is a natural number, and it is
\* empty exactly when that number is zero.
LEMMA HoldingSize ==
  ASSUME NEW D, D \subseteq Conns, NEW at, NEW P
  PROVE  /\ IsFiniteSet(Holding(D, at, P))
         /\ Cardinality(Holding(D, at, P)) \in Nat
         /\ Cardinality(Holding(D, at, P)) = 0 <=> Holding(D, at, P) = {}
<1> DEFINE holders == Holding(D, at, P)
<1>1. IsFiniteSet(Conns) /\ holders \subseteq Conns
  BY BudgetConstants DEF Holding
<1> HIDE DEF holders
<1>2. IsFiniteSet(holders)
  BY <1>1, FS_Subset
<1>3. /\ Cardinality(holders) \in Nat
      /\ Cardinality(holders) = 0 <=> holders = {}
  BY <1>2, FS_CardinalityType, FS_EmptySet
<1> QED BY <1>2, <1>3 DEF holders

-----------------------------------------------------------------------------
\* How the three families of holders follow a move of one connection.

\* The process counter's holders after a move.
LEMMA GlobalMoves ==
  ASSUME pc \in [Conns -> Points], NEW c \in Conns, NEW to \in Points,
         pc' = [pc EXCEPT ![c] = to]
  PROVE  /\ (pc[c] \in HoldsGlobal <=> to \in HoldsGlobal)
              => Cardinality(GlobalHolders)' = Cardinality(GlobalHolders)
         /\ pc[c] \notin HoldsGlobal /\ to \in HoldsGlobal
              => Cardinality(GlobalHolders)' = Cardinality(GlobalHolders) + 1
         /\ pc[c] \in HoldsGlobal /\ to \notin HoldsGlobal
              => Cardinality(GlobalHolders)' = Cardinality(GlobalHolders) - 1
<1>1. PICK D : D = Conns
  OBVIOUS
<1>2. D \subseteq Conns /\ c \in D
  BY <1>1
<1>3. /\ GlobalHolders = Holding(D, pc, HoldsGlobal)
      /\ GlobalHolders' = Holding(D, [pc EXCEPT ![c] = to], HoldsGlobal)
  BY <1>1 DEF GlobalHolders
<1>4. CASE pc[c] \in HoldsGlobal <=> to \in HoldsGlobal
  BY <1>2, <1>3, <1>4, HoldingStays
<1>5. CASE pc[c] \notin HoldsGlobal /\ to \in HoldsGlobal
  BY <1>2, <1>3, <1>5, HoldingGains
<1>6. CASE pc[c] \in HoldsGlobal /\ to \notin HoldsGlobal
  BY <1>2, <1>3, <1>6, HoldingLoses
<1> QED BY <1>4, <1>5, <1>6

\* A rule counter's holders after a move.
LEMMA RuleMoves ==
  ASSUME pc \in [Conns -> Points], NEW c \in Conns, NEW to \in Points,
         pc' = [pc EXCEPT ![c] = to], NEW r \in Rules
  PROVE  /\ r # RuleOf[c] \/ (pc[c] \in HoldsRule <=> to \in HoldsRule)
              => Cardinality(RuleHolders(r))' = Cardinality(RuleHolders(r))
         /\ r = RuleOf[c] /\ pc[c] \notin HoldsRule /\ to \in HoldsRule
              => Cardinality(RuleHolders(r))' = Cardinality(RuleHolders(r)) + 1
         /\ r = RuleOf[c] /\ pc[c] \in HoldsRule /\ to \notin HoldsRule
              => Cardinality(RuleHolders(r))' = Cardinality(RuleHolders(r)) - 1
<1>0. OfRule(r) \subseteq Conns /\ (c \in OfRule(r) <=> r = RuleOf[c])
  BY DEF OfRule
<1>1. CASE r # RuleOf[c] \/ (pc[c] \in HoldsRule <=> to \in HoldsRule)
  BY <1>0, <1>1, HoldingStays DEF RuleHolders
<1>2. CASE r = RuleOf[c] /\ pc[c] \notin HoldsRule /\ to \in HoldsRule
  BY <1>0, <1>2, HoldingGains DEF RuleHolders
<1>3. CASE r = RuleOf[c] /\ pc[c] \in HoldsRule /\ to \notin HoldsRule
  BY <1>0, <1>3, HoldingLoses DEF RuleHolders
<1> QED BY <1>1, <1>2, <1>3

\* A source counter's holders after a move.
LEMMA SourceMoves ==
  ASSUME pc \in [Conns -> Points], NEW c \in Conns, NEW to \in Points,
         pc' = [pc EXCEPT ![c] = to], NEW r \in Rules, NEW s \in Sources
  PROVE  /\ r # RuleOf[c] \/ s # SourceOf[c]
              \/ (pc[c] \in HoldsSource <=> to \in HoldsSource)
              => Cardinality(SourceHolders(r, s))' = Cardinality(SourceHolders(r, s))
         /\ r = RuleOf[c] /\ s = SourceOf[c] /\ pc[c] \notin HoldsSource /\ to \in HoldsSource
              => Cardinality(SourceHolders(r, s))' = Cardinality(SourceHolders(r, s)) + 1
         /\ r = RuleOf[c] /\ s = SourceOf[c] /\ pc[c] \in HoldsSource /\ to \notin HoldsSource
              => Cardinality(SourceHolders(r, s))' = Cardinality(SourceHolders(r, s)) - 1
<1>0. /\ OfSource(r, s) \subseteq Conns
      /\ c \in OfSource(r, s) <=> r = RuleOf[c] /\ s = SourceOf[c]
  BY DEF OfSource
<1>1. CASE r # RuleOf[c] \/ s # SourceOf[c] \/ (pc[c] \in HoldsSource <=> to \in HoldsSource)
  BY <1>0, <1>1, HoldingStays DEF SourceHolders
<1>2. CASE r = RuleOf[c] /\ s = SourceOf[c] /\ pc[c] \notin HoldsSource /\ to \in HoldsSource
  BY <1>0, <1>2, HoldingGains DEF SourceHolders
<1>3. CASE r = RuleOf[c] /\ s = SourceOf[c] /\ pc[c] \in HoldsSource /\ to \notin HoldsSource
  BY <1>0, <1>3, HoldingLoses DEF SourceHolders
<1> QED BY <1>1, <1>2, <1>3

-----------------------------------------------------------------------------
\* The types the induction needs: the counters are integers, as atomic.Int64
\* values are; that they are never negative follows from CountersExact.
TypeInv ==
  /\ activeTCP \in Int
  /\ ruleTCP \in [Rules -> Int]
  /\ counts \in [Rules -> [Sources -> Int]]
  /\ pc \in [Conns -> Points]

BudgetInv == TypeInv /\ CountersExact

\* Nobody holds a slot at first.
LEMMA InitBudgetInv == Init => BudgetInv
<1> SUFFICES ASSUME Init PROVE BudgetInv
  OBVIOUS
<1>1. TypeInv
  BY BudgetConstants DEF Init, TypeInv, Points
<1>2. GlobalHolders = {} /\ Cardinality({}) = 0
  BY FS_EmptySet DEF Init, GlobalHolders, Holding, HoldsGlobal
<1>3. \A r \in Rules : RuleHolders(r) = {}
  BY DEF Init, RuleHolders, OfRule, Holding, HoldsRule
<1>4. \A r \in Rules, s \in Sources : SourceHolders(r, s) = {}
  BY DEF Init, SourceHolders, OfSource, Holding, HoldsSource
<1>5. CountersExact
  BY <1>2, <1>3, <1>4 DEF Init, CountersExact
<1> QED BY <1>1, <1>5 DEF BudgetInv

\* Every step keeps the counters integers.
LEMMA NextTypeInv == TypeInv /\ [Next]_vars => TypeInv'
<1> SUFFICES ASSUME TypeInv, [Next]_vars PROVE TypeInv'
  OBVIOUS
<1> USE DEF TypeInv
<1>0. \A c \in Conns : RuleOf[c] \in Rules /\ SourceOf[c] \in Sources
  BY BudgetConstants
<1>1. ASSUME NEW c \in Conns, NEW from, NEW to, Move(c, from, to),
             to \in {"new", "rule", "source", "undoRule", "undoGlobal",
                     "held", "freeRule", "freeGlobal", "closed"}
      PROVE  pc' \in [Conns -> Points]
  BY <1>1 DEF Move, Points, HoldsGlobal
<1>2. ASSUME NEW c \in Conns, ReserveGlobal(c) \/ RejectGlobal(c) PROVE TypeInv'
  BY <1>1, <1>2 DEF ReserveGlobal, RejectGlobal
<1>3. ASSUME NEW c \in Conns, ReserveRule(c) \/ RejectRule(c) PROVE TypeInv'
  BY <1>0, <1>1, <1>3 DEF ReserveRule, RejectRule
<1>4. ASSUME NEW c \in Conns, ReserveSource(c) PROVE TypeInv'
  <2>1. counts' \in [Rules -> [Sources -> Int]]
    BY <1>0, <1>4 DEF ReserveSource
  <2> QED BY <1>1, <1>4, <2>1 DEF ReserveSource
<1>5. ASSUME NEW c \in Conns, RejectSource(c) PROVE TypeInv'
  BY <1>1, <1>5 DEF RejectSource
<1>6. ASSUME NEW c \in Conns, ReturnRule(c) PROVE TypeInv'
  BY <1>0, <1>1, <1>6 DEF ReturnRule
<1>7. ASSUME NEW c \in Conns, ReturnGlobal(c) PROVE TypeInv'
  BY <1>1, <1>7 DEF ReturnGlobal
<1>8. ASSUME NEW c \in Conns, ReleaseSource(c) PROVE TypeInv'
  <2>1. counts' \in [Rules -> [Sources -> Int]]
    BY <1>0, <1>8 DEF ReleaseSource
  <2> QED BY <1>1, <1>8, <2>1 DEF ReleaseSource
<1>9. ASSUME NEW c \in Conns, Reconnect(c) PROVE TypeInv'
  BY <1>1, <1>9 DEF Reconnect
<1>10. CASE UNCHANGED vars
  BY <1>10 DEF vars
<1> QED
  BY <1>2, <1>3, <1>4, <1>5, <1>6, <1>7, <1>8, <1>9, <1>10 DEF Next, Advance

\* A step that leaves every connection where it is, and every counter alone,
\* changes no set of holders.
LEMMA StillExact ==
  ASSUME CountersExact, pc' = pc, UNCHANGED <<activeTCP, ruleTCP, counts>>
  PROVE  CountersExact'
BY DEF CountersExact, GlobalHolders, RuleHolders, SourceHolders, Holding

\* Every step of reserveTCP and releaseTCP keeps the counters exact.
LEMMA NextCountersExact == BudgetInv /\ [Next]_vars => CountersExact'
<1> SUFFICES ASSUME BudgetInv, [Next]_vars PROVE CountersExact'
  OBVIOUS
<1> USE DEF BudgetInv
<1>0. pc \in [Conns -> Points] /\ activeTCP \in Int
      /\ ruleTCP \in [Rules -> Int] /\ counts \in [Rules -> [Sources -> Int]]
  BY DEF TypeInv
<1>1. ASSUME NEW c \in Conns, ReserveGlobal(c) PROVE CountersExact'
  <2>1. pc[c] = "new" /\ "rule" \in Points /\ pc' = [pc EXCEPT ![c] = "rule"]
    BY <1>1 DEF ReserveGlobal, Move, Points, HoldsGlobal
  <2>2. Cardinality(GlobalHolders)' = Cardinality(GlobalHolders) + 1
    BY <1>0, <2>1, GlobalMoves DEF HoldsGlobal
  <2>3. \A r \in Rules : Cardinality(RuleHolders(r))' = Cardinality(RuleHolders(r))
    BY <1>0, <2>1, RuleMoves DEF HoldsRule
  <2>4. \A r \in Rules, s \in Sources :
          Cardinality(SourceHolders(r, s))' = Cardinality(SourceHolders(r, s))
    BY <1>0, <2>1, SourceMoves DEF HoldsSource
  <2> QED BY <1>1, <1>0, <2>2, <2>3, <2>4 DEF ReserveGlobal, CountersExact
<1>2. ASSUME NEW c \in Conns, RejectGlobal(c) PROVE CountersExact'
  <2>1. pc[c] = "new" /\ "closed" \in Points /\ pc' = [pc EXCEPT ![c] = "closed"]
    BY <1>2 DEF RejectGlobal, Move, Points, HoldsGlobal
  <2>2. Cardinality(GlobalHolders)' = Cardinality(GlobalHolders)
    BY <1>0, <2>1, GlobalMoves DEF HoldsGlobal
  <2>3. \A r \in Rules : Cardinality(RuleHolders(r))' = Cardinality(RuleHolders(r))
    BY <1>0, <2>1, RuleMoves DEF HoldsRule
  <2>4. \A r \in Rules, s \in Sources :
          Cardinality(SourceHolders(r, s))' = Cardinality(SourceHolders(r, s))
    BY <1>0, <2>1, SourceMoves DEF HoldsSource
  <2> QED BY <1>2, <1>0, <2>2, <2>3, <2>4 DEF RejectGlobal, CountersExact
<1>3. ASSUME NEW c \in Conns, ReserveRule(c) PROVE CountersExact'
  <2>1. pc[c] = "rule" /\ "source" \in Points /\ pc' = [pc EXCEPT ![c] = "source"]
    BY <1>3 DEF ReserveRule, Move, Points, HoldsGlobal
  <2>2. Cardinality(GlobalHolders)' = Cardinality(GlobalHolders)
    BY <1>0, <2>1, GlobalMoves DEF HoldsGlobal
  <2>3. \A r \in Rules : Cardinality(RuleHolders(r))' =
            IF r = RuleOf[c] THEN Cardinality(RuleHolders(r)) + 1 ELSE Cardinality(RuleHolders(r))
    BY <1>0, <2>1, RuleMoves DEF HoldsRule
  <2>4. \A r \in Rules, s \in Sources :
          Cardinality(SourceHolders(r, s))' = Cardinality(SourceHolders(r, s))
    BY <1>0, <2>1, SourceMoves DEF HoldsSource
  <2> QED BY <1>3, <1>0, <2>2, <2>3, <2>4, BudgetConstants DEF ReserveRule, CountersExact
<1>4. ASSUME NEW c \in Conns, RejectRule(c) PROVE CountersExact'
  <2>1. pc[c] = "rule" /\ "undoGlobal" \in Points /\ pc' = [pc EXCEPT ![c] = "undoGlobal"]
    BY <1>4 DEF RejectRule, Move, Points, HoldsGlobal
  <2>2. Cardinality(GlobalHolders)' = Cardinality(GlobalHolders)
    BY <1>0, <2>1, GlobalMoves DEF HoldsGlobal
  <2>3. \A r \in Rules : Cardinality(RuleHolders(r))' = Cardinality(RuleHolders(r))
    BY <1>0, <2>1, RuleMoves DEF HoldsRule
  <2>4. \A r \in Rules, s \in Sources :
          Cardinality(SourceHolders(r, s))' = Cardinality(SourceHolders(r, s))
    BY <1>0, <2>1, SourceMoves DEF HoldsSource
  <2> QED BY <1>4, <1>0, <2>2, <2>3, <2>4 DEF RejectRule, CountersExact
<1>5. ASSUME NEW c \in Conns, ReserveSource(c) PROVE CountersExact'
  <2>1. pc[c] = "source" /\ "held" \in Points /\ pc' = [pc EXCEPT ![c] = "held"]
    BY <1>5 DEF ReserveSource, Move, Points, HoldsGlobal
  <2>2. Cardinality(GlobalHolders)' = Cardinality(GlobalHolders)
    BY <1>0, <2>1, GlobalMoves DEF HoldsGlobal
  <2>3. \A r \in Rules : Cardinality(RuleHolders(r))' = Cardinality(RuleHolders(r))
    BY <1>0, <2>1, RuleMoves DEF HoldsRule
  <2>4. \A r \in Rules, s \in Sources : Cardinality(SourceHolders(r, s))' =
            IF r = RuleOf[c] /\ s = SourceOf[c] THEN Cardinality(SourceHolders(r, s)) + 1
            ELSE Cardinality(SourceHolders(r, s))
    BY <1>0, <2>1, SourceMoves DEF HoldsSource
  <2> QED BY <1>5, <1>0, <2>2, <2>3, <2>4, BudgetConstants DEF ReserveSource, CountersExact
<1>6. ASSUME NEW c \in Conns, RejectSource(c) PROVE CountersExact'
  <2>1. pc[c] = "source" /\ "undoRule" \in Points /\ pc' = [pc EXCEPT ![c] = "undoRule"]
    BY <1>6 DEF RejectSource, Move, Points, HoldsGlobal
  <2>2. Cardinality(GlobalHolders)' = Cardinality(GlobalHolders)
    BY <1>0, <2>1, GlobalMoves DEF HoldsGlobal
  <2>3. \A r \in Rules : Cardinality(RuleHolders(r))' = Cardinality(RuleHolders(r))
    BY <1>0, <2>1, RuleMoves DEF HoldsRule
  <2>4. \A r \in Rules, s \in Sources :
          Cardinality(SourceHolders(r, s))' = Cardinality(SourceHolders(r, s))
    BY <1>0, <2>1, SourceMoves DEF HoldsSource
  <2> QED BY <1>6, <1>0, <2>2, <2>3, <2>4 DEF RejectSource, CountersExact
<1>7. ASSUME NEW c \in Conns, ReleaseSource(c) PROVE CountersExact'
  <2>1. pc[c] = "held" /\ "freeRule" \in Points /\ pc' = [pc EXCEPT ![c] = "freeRule"]
    BY <1>7 DEF ReleaseSource, Move, Points, HoldsGlobal
  <2>2. Cardinality(GlobalHolders)' = Cardinality(GlobalHolders)
    BY <1>0, <2>1, GlobalMoves DEF HoldsGlobal
  <2>3. \A r \in Rules : Cardinality(RuleHolders(r))' = Cardinality(RuleHolders(r))
    BY <1>0, <2>1, RuleMoves DEF HoldsRule
  <2>4. \A r \in Rules, s \in Sources : Cardinality(SourceHolders(r, s))' =
            IF r = RuleOf[c] /\ s = SourceOf[c] THEN Cardinality(SourceHolders(r, s)) - 1
            ELSE Cardinality(SourceHolders(r, s))
    BY <1>0, <2>1, SourceMoves DEF HoldsSource
  <2>5. counts[RuleOf[c]][SourceOf[c]] \in Nat \ {0}
    <3>1. c \in SourceHolders(RuleOf[c], SourceOf[c])
      BY <2>1 DEF SourceHolders, OfSource, Holding, HoldsSource
    <3>2. OfSource(RuleOf[c], SourceOf[c]) \subseteq Conns
      BY DEF OfSource
    <3>3. Cardinality(SourceHolders(RuleOf[c], SourceOf[c])) \in Nat \ {0}
      BY <3>1, <3>2, HoldingSize DEF SourceHolders
    <3> QED BY <3>3, BudgetConstants DEF CountersExact
  <2>6. \A r \in Rules, s \in Sources : counts'[r][s] =
          IF r = RuleOf[c] /\ s = SourceOf[c] THEN counts[r][s] - 1 ELSE counts[r][s]
    <3>1. RuleOf[c] \in Rules /\ SourceOf[c] \in Sources
      BY BudgetConstants
    <3>2. ~(counts[RuleOf[c]][SourceOf[c]] <= 1)
            => counts' = [counts EXCEPT ![RuleOf[c]][SourceOf[c]] = @ - 1]
      BY <1>7 DEF ReleaseSource
    <3>3. counts[RuleOf[c]][SourceOf[c]] <= 1
            => /\ counts' = [counts EXCEPT ![RuleOf[c]][SourceOf[c]] = 0]
               /\ counts[RuleOf[c]][SourceOf[c]] = 1
      BY <1>7, <2>5 DEF ReleaseSource
    <3> QED BY <1>0, <2>5, <3>1, <3>2, <3>3
  <2>7. \A r \in Rules, s \in Sources : counts'[r][s] = Cardinality(SourceHolders(r, s))'
    BY <2>4, <2>6 DEF CountersExact
  <2> QED BY <1>7, <2>2, <2>3, <2>7 DEF ReleaseSource, CountersExact
<1>8. ASSUME NEW c \in Conns, Reconnect(c) PROVE CountersExact'
  <2>1. pc[c] = "closed" /\ "new" \in Points /\ pc' = [pc EXCEPT ![c] = "new"]
    BY <1>8 DEF Reconnect, Move, Points, HoldsGlobal
  <2>2. Cardinality(GlobalHolders)' = Cardinality(GlobalHolders)
    BY <1>0, <2>1, GlobalMoves DEF HoldsGlobal
  <2>3. \A r \in Rules : Cardinality(RuleHolders(r))' = Cardinality(RuleHolders(r))
    BY <1>0, <2>1, RuleMoves DEF HoldsRule
  <2>4. \A r \in Rules, s \in Sources :
          Cardinality(SourceHolders(r, s))' = Cardinality(SourceHolders(r, s))
    BY <1>0, <2>1, SourceMoves DEF HoldsSource
  <2> QED BY <1>8, <1>0, <2>2, <2>3, <2>4 DEF Reconnect, CountersExact
<1>9. ASSUME NEW c \in Conns, ReturnRule(c) PROVE CountersExact'
  <2>1. CASE Move(c, "undoRule", "undoGlobal")
    <3>1. pc[c] = "undoRule" /\ "undoGlobal" \in Points /\ pc' = [pc EXCEPT ![c] = "undoGlobal"]
      BY <1>9, <2>1 DEF ReturnRule, Move, Points, HoldsGlobal
    <3>2. Cardinality(GlobalHolders)' = Cardinality(GlobalHolders)
      BY <1>0, <3>1, GlobalMoves DEF HoldsGlobal
    <3>3. \A r \in Rules : Cardinality(RuleHolders(r))' =
              IF r = RuleOf[c] THEN Cardinality(RuleHolders(r)) - 1 ELSE Cardinality(RuleHolders(r))
      BY <1>0, <3>1, RuleMoves DEF HoldsRule
    <3>4. \A r \in Rules, s \in Sources :
            Cardinality(SourceHolders(r, s))' = Cardinality(SourceHolders(r, s))
      BY <1>0, <3>1, SourceMoves DEF HoldsSource
    <3> QED BY <1>9, <2>1, <1>0, <3>2, <3>3, <3>4, BudgetConstants DEF ReturnRule, CountersExact
  <2>2. CASE Move(c, "freeRule", "freeGlobal")
    <3>1. pc[c] = "freeRule" /\ "freeGlobal" \in Points /\ pc' = [pc EXCEPT ![c] = "freeGlobal"]
      BY <1>9, <2>2 DEF ReturnRule, Move, Points, HoldsGlobal
    <3>2. Cardinality(GlobalHolders)' = Cardinality(GlobalHolders)
      BY <1>0, <3>1, GlobalMoves DEF HoldsGlobal
    <3>3. \A r \in Rules : Cardinality(RuleHolders(r))' =
              IF r = RuleOf[c] THEN Cardinality(RuleHolders(r)) - 1 ELSE Cardinality(RuleHolders(r))
      BY <1>0, <3>1, RuleMoves DEF HoldsRule
    <3>4. \A r \in Rules, s \in Sources :
            Cardinality(SourceHolders(r, s))' = Cardinality(SourceHolders(r, s))
      BY <1>0, <3>1, SourceMoves DEF HoldsSource
    <3> QED BY <1>9, <2>2, <1>0, <3>2, <3>3, <3>4, BudgetConstants DEF ReturnRule, CountersExact
  <2> QED BY <1>9, <2>1, <2>2 DEF ReturnRule
<1>10. ASSUME NEW c \in Conns, ReturnGlobal(c) PROVE CountersExact'
  <2>1. CASE Move(c, "undoGlobal", "closed")
    <3>1. pc[c] = "undoGlobal" /\ "closed" \in Points /\ pc' = [pc EXCEPT ![c] = "closed"]
      BY <1>10, <2>1 DEF ReturnGlobal, Move, Points, HoldsGlobal
    <3>2. Cardinality(GlobalHolders)' = Cardinality(GlobalHolders) - 1
      BY <1>0, <3>1, GlobalMoves DEF HoldsGlobal
    <3>3. \A r \in Rules : Cardinality(RuleHolders(r))' = Cardinality(RuleHolders(r))
      BY <1>0, <3>1, RuleMoves DEF HoldsRule
    <3>4. \A r \in Rules, s \in Sources :
            Cardinality(SourceHolders(r, s))' = Cardinality(SourceHolders(r, s))
      BY <1>0, <3>1, SourceMoves DEF HoldsSource
    <3> QED BY <1>10, <2>1, <1>0, <3>2, <3>3, <3>4 DEF ReturnGlobal, CountersExact
  <2>2. CASE Move(c, "freeGlobal", "closed")
    <3>1. pc[c] = "freeGlobal" /\ "closed" \in Points /\ pc' = [pc EXCEPT ![c] = "closed"]
      BY <1>10, <2>2 DEF ReturnGlobal, Move, Points, HoldsGlobal
    <3>2. Cardinality(GlobalHolders)' = Cardinality(GlobalHolders) - 1
      BY <1>0, <3>1, GlobalMoves DEF HoldsGlobal
    <3>3. \A r \in Rules : Cardinality(RuleHolders(r))' = Cardinality(RuleHolders(r))
      BY <1>0, <3>1, RuleMoves DEF HoldsRule
    <3>4. \A r \in Rules, s \in Sources :
            Cardinality(SourceHolders(r, s))' = Cardinality(SourceHolders(r, s))
      BY <1>0, <3>1, SourceMoves DEF HoldsSource
    <3> QED BY <1>10, <2>2, <1>0, <3>2, <3>3, <3>4 DEF ReturnGlobal, CountersExact
  <2> QED BY <1>10, <2>1, <2>2 DEF ReturnGlobal
<1>11. CASE UNCHANGED vars
  BY <1>11, StillExact DEF vars
<1> QED
  BY <1>1, <1>2, <1>3, <1>4, <1>5, <1>6, <1>7, <1>8, <1>9, <1>10, <1>11 DEF Next, Advance

\* Every step keeps the invariant.
LEMMA NextBudgetInv == BudgetInv /\ [Next]_vars => BudgetInv'
BY NextTypeInv, NextCountersExact DEF BudgetInv

\* The inductive invariant holds after every step of reserveTCP and releaseTCP.
THEOREM BudgetInvariant == BudgetSpec => []BudgetInv
BY InitBudgetInv, NextBudgetInv, PTL DEF BudgetSpec

-----------------------------------------------------------------------------

\* Every counter of budget.go equals the number of connections that hold one
\* of its slots, after any interleaving of reserveTCP and releaseTCP.
THEOREM CountersAlwaysExact == BudgetSpec => []CountersExact
BY BudgetInvariant, PTL DEF BudgetInv

\* The signed counters of budget.go are never negative.
THEOREM TypeAlwaysCorrect == BudgetSpec => []TypeOK
<1>1. BudgetInv => TypeOK
  <2> SUFFICES ASSUME BudgetInv PROVE TypeOK
    OBVIOUS
  <2>1. PICK D : D = Conns /\ D \subseteq Conns
    OBVIOUS
  <2>2. activeTCP \in Nat
    BY <2>1, HoldingSize DEF BudgetInv, CountersExact, GlobalHolders
  <2>3. \A r \in Rules : ruleTCP[r] \in Nat
    <3>1. \A r \in Rules : OfRule(r) \subseteq Conns
      BY DEF OfRule
    <3> QED BY <3>1, HoldingSize DEF BudgetInv, CountersExact, RuleHolders
  <2>4. \A r \in Rules, s \in Sources : counts[r][s] \in Nat
    <3>1. \A r \in Rules, s \in Sources : OfSource(r, s) \subseteq Conns
      BY DEF OfSource
    <3> QED BY <3>1, HoldingSize DEF BudgetInv, CountersExact, SourceHolders
  <2> QED BY <2>2, <2>3, <2>4 DEF BudgetInv, TypeInv, TypeOK
<1> QED BY <1>1, BudgetInvariant, PTL

-----------------------------------------------------------------------------
\* The limits.  Room and the comparison under the shard's mutex look at the
\* counter; CountersExact makes the counter the number of holders.

WithinCounters ==
  /\ activeTCP > 0 => activeTCP <= MaxTCP
  /\ \A r \in Rules :
       /\ ruleTCP[r] > 0 => ruleTCP[r] <= RuleMax[r]
       /\ \A s \in Sources : counts[r][s] > 0 => counts[r][s] <= SourceMax[r]

\* A counter only grows while there is room.
LEMMA NextWithinCounters == TypeInv /\ WithinCounters /\ [Next]_vars => WithinCounters'
<1> SUFFICES ASSUME TypeInv, WithinCounters, [Next]_vars PROVE WithinCounters'
  OBVIOUS
<1> USE DEF TypeInv, WithinCounters
<1>0. /\ MaxTCP \in Int /\ RuleMax \in [Rules -> Int] /\ SourceMax \in [Rules -> Int]
      /\ \A c \in Conns : RuleOf[c] \in Rules /\ SourceOf[c] \in Sources
  BY BudgetConstants
<1>1. CASE UNCHANGED <<activeTCP, ruleTCP, counts>>
  BY <1>1
<1>2. ASSUME NEW c \in Conns, ReserveRule(c) PROVE WithinCounters'
  BY <1>0, <1>2 DEF ReserveRule, Room
<1>3. ASSUME NEW c \in Conns, ReturnRule(c) PROVE WithinCounters'
  BY <1>0, <1>3 DEF ReturnRule
<1>4. ASSUME NEW c \in Conns, ReserveSource(c) PROVE WithinCounters'
  BY <1>0, <1>4 DEF ReserveSource
<1>5. ASSUME NEW c \in Conns, ReleaseSource(c) PROVE WithinCounters'
  BY <1>0, <1>5 DEF ReleaseSource
<1>6. ASSUME NEW c \in Conns, ReserveGlobal(c) \/ ReturnGlobal(c) PROVE WithinCounters'
  BY <1>0, <1>6 DEF ReserveGlobal, ReturnGlobal, Room
<1>7. Next => \/ UNCHANGED <<activeTCP, ruleTCP, counts>>
              \/ \E c \in Conns : \/ ReserveRule(c) \/ ReturnRule(c)
                                  \/ ReserveSource(c) \/ ReleaseSource(c)
                                  \/ ReserveGlobal(c) \/ ReturnGlobal(c)
  BY DEF Next, Advance, RejectGlobal, RejectRule, RejectSource, Reconnect
<1> QED BY <1>1, <1>2, <1>3, <1>4, <1>5, <1>6, <1>7 DEF vars

\* Exact counters within their limits bound the sets of holders.
LEMMA LimitsHold == BudgetInv /\ WithinCounters => WithinLimits
<1> SUFFICES ASSUME BudgetInv, WithinCounters PROVE WithinLimits
  OBVIOUS
<1>1. GlobalHolders # {} => Cardinality(GlobalHolders) > 0
  <2>1. PICK D : D = Conns /\ D \subseteq Conns
    OBVIOUS
  <2> QED BY <2>1, HoldingSize DEF GlobalHolders
<1>2. \A r \in Rules : RuleHolders(r) # {} => Cardinality(RuleHolders(r)) > 0
  <2>1. \A r \in Rules : OfRule(r) \subseteq Conns
    BY DEF OfRule
  <2> QED BY <2>1, HoldingSize DEF RuleHolders
<1>3. \A r \in Rules, s \in Sources :
        SourceHolders(r, s) # {} => Cardinality(SourceHolders(r, s)) > 0
  <2>1. \A r \in Rules, s \in Sources : OfSource(r, s) \subseteq Conns
    BY DEF OfSource
  <2> QED BY <2>1, HoldingSize DEF SourceHolders
<1> QED BY <1>1, <1>2, <1>3 DEF BudgetInv, CountersExact, WithinCounters, WithinLimits

\* The process never forwards more connections than its limit, a rule never
\* more than its max_tcp_connections, nor more than
\* max_tcp_connections_per_ip from one address.
THEOREM AlwaysWithinLimits == BudgetSpec => []WithinLimits
<1>1. Init => WithinCounters
  BY DEF Init, WithinCounters
<1>2. BudgetInv => TypeInv
  BY DEF BudgetInv
<1> QED BY <1>1, <1>2, BudgetInvariant, NextWithinCounters, LimitsHold, PTL DEF BudgetSpec

-----------------------------------------------------------------------------
\* The refinement: the forwarded connections are among the holders of every
\* counter, so they respect whatever limit the holders respect.

\* Part of a set within a limit is within it.
LEMMA PartRespects ==
  ASSUME NEW T, IsFiniteSet(T), NEW S, S \subseteq T, NEW maximum \in Int,
         T # {} => Cardinality(T) <= maximum
  PROVE  Admission!Respects(S, maximum)
<1>1. CASE S = {}
  BY <1>1 DEF Admission!Respects
<1>2. CASE S # {}
  <2>1. Cardinality(S) <= Cardinality(T) /\ Cardinality(T) \in Nat /\ Cardinality(S) \in Nat
    BY FS_Subset, FS_CardinalityType
  <2>2. T # {}
    BY <1>2
  <2>3. Admission!Cardinality(S) = Cardinality(S)
    BY DEF Admission!Cardinality, Cardinality, Admission!IsFiniteSet, IsFiniteSet
  <2> QED BY <2>1, <2>2, <2>3 DEF Admission!Respects
<1> QED BY <1>1, <1>2

\* The connections let in fit the limits whenever the holders do.
LEMMA ForwardedFits == BudgetInv /\ WithinLimits => Admission!Fits(Forwarded)
<1> SUFFICES ASSUME BudgetInv, WithinLimits PROVE Admission!Fits(Forwarded)
  OBVIOUS
<1>0. MaxTCP \in Int /\ RuleMax \in [Rules -> Int] /\ SourceMax \in [Rules -> Int]
  BY BudgetConstants
<1>1. Admission!Respects(Forwarded, MaxTCP)
  <2>1. PICK D : D = Conns /\ D \subseteq Conns
    OBVIOUS
  <2>2. IsFiniteSet(GlobalHolders)
    BY <2>1, HoldingSize DEF GlobalHolders
  <2>3. Forwarded \subseteq GlobalHolders
    BY DEF Forwarded, GlobalHolders, Holding, HoldsGlobal, HoldsSource
  <2> QED BY <1>0, <2>2, <2>3, PartRespects DEF WithinLimits
<1>2. ASSUME NEW r \in Rules
      PROVE  Admission!Respects({c \in Forwarded : RuleOf[c] = r}, RuleMax[r])
  <2>1. OfRule(r) \subseteq Conns
    BY DEF OfRule
  <2>2. IsFiniteSet(RuleHolders(r))
    BY <2>1, HoldingSize DEF RuleHolders
  <2>3. {c \in Forwarded : RuleOf[c] = r} \subseteq RuleHolders(r)
    BY DEF Forwarded, RuleHolders, OfRule, Holding, HoldsRule, HoldsSource
  <2> QED BY <1>0, <2>2, <2>3, PartRespects DEF WithinLimits
<1>3. ASSUME NEW r \in Rules, NEW s \in Sources
      PROVE  Admission!Respects({c \in Forwarded : RuleOf[c] = r /\ SourceOf[c] = s}, SourceMax[r])
  <2>1. OfSource(r, s) \subseteq Conns
    BY DEF OfSource
  <2>2. IsFiniteSet(SourceHolders(r, s))
    BY <2>1, HoldingSize DEF SourceHolders
  <2>3. {c \in Forwarded : RuleOf[c] = r /\ SourceOf[c] = s} \subseteq SourceHolders(r, s)
    BY DEF Forwarded, SourceHolders, OfSource, Holding, HoldsSource
  <2> QED BY <1>0, <2>2, <2>3, PartRespects DEF WithinLimits
<1> QED BY <1>1, <1>2, <1>3 DEF Admission!Fits

\* Only the last step of reserveTCP and the first of releaseTCP are visible.
LEMMA NextAdmission ==
  BudgetInv /\ Admission!Fits(Forwarded)' /\ [Next]_vars
    => [Admission!Next]_Forwarded
<1> SUFFICES ASSUME BudgetInv, Admission!Fits(Forwarded)', [Next]_vars
             PROVE  [Admission!Next]_Forwarded
  OBVIOUS
<1>0. pc \in [Conns -> Points]
  BY DEF BudgetInv, TypeInv
<1>1. ASSUME NEW c \in Conns, ReserveSource(c) PROVE Admission!Admit(c)
  <2>1. pc[c] = "source" /\ pc' = [pc EXCEPT ![c] = "held"]
    BY <1>1 DEF ReserveSource, Move
  <2>2. c \notin Forwarded /\ Forwarded' = Forwarded \cup {c}
    BY <1>0, <2>1 DEF Forwarded, Holding, HoldsSource
  <2> QED BY <2>2 DEF Admission!Admit
<1>2. ASSUME NEW c \in Conns, ReleaseSource(c) PROVE Admission!Release(c)
  <2>1. pc[c] = "held" /\ pc' = [pc EXCEPT ![c] = "freeRule"]
    BY <1>2 DEF ReleaseSource, Move
  <2>2. c \in Forwarded /\ Forwarded' = Forwarded \ {c}
    BY <1>0, <2>1 DEF Forwarded, Holding, HoldsSource
  <2> QED BY <2>2 DEF Admission!Release
<1>3. ASSUME NEW c \in Conns, NEW from, NEW to, Move(c, from, to),
             from # "held", to # "held"
      PROVE  UNCHANGED Forwarded
  BY <1>0, <1>3 DEF Move, Forwarded, Holding, HoldsSource
<1>4. ASSUME NEW c \in Conns,
             \/ ReserveGlobal(c) \/ RejectGlobal(c) \/ ReserveRule(c) \/ RejectRule(c)
             \/ RejectSource(c) \/ ReturnRule(c) \/ ReturnGlobal(c) \/ Reconnect(c)
      PROVE  UNCHANGED Forwarded
  BY <1>3, <1>4 DEF ReserveGlobal, RejectGlobal, ReserveRule, RejectRule,
                    RejectSource, ReturnRule, ReturnGlobal, Reconnect
<1>5. CASE UNCHANGED vars
  BY <1>5 DEF vars, Forwarded, Holding
<1> QED BY <1>1, <1>2, <1>4, <1>5 DEF Next, Advance, Admission!Next

\* reserveTCP and releaseTCP implement atomic admission: every interleaving
\* of their steps looks to the callers like single steps that check all three
\* limits and enter, or leave.
THEOREM ImplementsAdmission == BudgetSpec => AtomicAdmission
<1>1. Init => Admission!Init
  BY DEF Init, Admission!Init, Forwarded, Holding, HoldsSource
<1>2. BudgetSpec => []Admission!Fits(Forwarded)
  BY BudgetInvariant, AlwaysWithinLimits, ForwardedFits, PTL
<1> QED BY <1>1, <1>2, BudgetInvariant, NextAdmission, PTL
           DEF BudgetSpec, AtomicAdmission, Admission!AdmissionSpec

=============================================================================

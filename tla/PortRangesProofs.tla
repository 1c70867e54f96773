--------------------------- MODULE PortRangesProofs ---------------------------
(***************************************************************************)
(* The interval loops of nft_recovery.go are right for every port bound,   *)
(* every set of valid range specs and any number of iterations.            *)
(***************************************************************************)
EXTENDS PortRanges, TLAPS

IntervalType == [first : Int, last : Int]

\* The slices of the current spec are made of these intervals.
Inside(p) == cur.first <= p.first /\ p.first <= p.last /\ p.last <= LastPort(cur)
Apart(p, q) == p.last < q.first \/ q.last < p.first

TypeInv ==
  /\ kind \in {"retire", "gate", "keep"} /\ loop \in {kind, "missing", "done"}
  /\ loop = "missing" => kind = "keep"
  /\ cur \in RangeSpecs /\ seen \subseteq RangeSpecs
  /\ parts \subseteq IntervalType
  /\ \A m \in todo : /\ m.first \in Int /\ LastPort(m) \in Int /\ m.first <= LastPort(m)
                      /\ SharesIngress(cur, m)

\* parts alone is not enough: the slices of out and todo are cut from it.
PartsInv ==
  /\ \A p \in parts : Inside(p)
  /\ \A p, q \in parts : p # q => Apart(p, q)
  /\ out = IF loop = "done" THEN Slices(cur, parts) ELSE {}

RangeInv == TypeInv /\ PartsInv /\ PartsExact

-----------------------------------------------------------------------------

\* A valid spec has integer ports with first at most last.
LEMMA SpecPorts ==
  ASSUME NEW s \in RangeSpecs
  PROVE  /\ s.first \in Int /\ s.target \in Int /\ LastPort(s) \in Int
         /\ 1 <= s.first /\ s.first <= LastPort(s) /\ LastPort(s) <= MaxPort
         /\ 1 <= s.target /\ s.target + LastPort(s) - s.first <= MaxPort
         /\ LastPort(s) - s.first + 1 <= MaxWidth
<1>1. s \in RangeSpecType /\ Valid(s)
  BY RangeConstants
<1>2. s.first \in Nat /\ s.last \in Nat /\ s.target \in Nat /\ s.targetLast \in Nat
  BY <1>1 DEF RangeSpecType
<1>3. LastPort(s) \in Nat /\ LastTarget(s) \in Nat
  BY <1>2 DEF LastPort, LastTarget
<1>4. MaxPort \in Nat /\ MaxWidth \in Nat
  BY RangeConstants
<1> QED
  BY <1>1, <1>2, <1>3, <1>4 DEF Valid

\* The fields of an interval.
LEMMA IntervalFields ==
  ASSUME NEW a \in Int, NEW b \in Int
  PROVE  /\ Interval(a, b) \in IntervalType
         /\ Interval(a, b).first = a /\ Interval(a, b).last = b
BY DEF Interval, IntervalType

\* nftSubtractPortRange on one interval removes first..last and nothing else.
LEMMA PiecesPorts ==
  ASSUME NEW p \in IntervalType, NEW f \in Int, NEW l \in Int, f <= l
  PROVE  /\ Pieces(p, f, l) \subseteq IntervalType
         /\ \A x \in Int : (\E q \in Pieces(p, f, l) : q.first <= x /\ x <= q.last)
                             <=> (p.first <= x /\ x <= p.last /\ ~(f <= x /\ x <= l))
<1>1. p.first \in Int /\ p.last \in Int
  BY DEF IntervalType
<1>2. CASE l < p.first \/ f > p.last
  BY <1>1, <1>2 DEF Pieces
<1>3. CASE ~(l < p.first \/ f > p.last)
  <2> DEFINE Lo == IF f > p.first THEN {Interval(p.first, f - 1)} ELSE {}
             Hi == IF l < p.last THEN {Interval(l + 1, p.last)} ELSE {}
  <2>1. Pieces(p, f, l) = Lo \cup Hi
    BY <1>3 DEF Pieces
  <2>2. Lo \subseteq IntervalType /\ Hi \subseteq IntervalType
    BY <1>1 DEF Interval, IntervalType
  <2>3. ASSUME NEW x \in Int
        PROVE  (\E q \in Lo : q.first <= x /\ x <= q.last)
                 <=> (f > p.first /\ p.first <= x /\ x <= f - 1)
    <3>1. CASE f > p.first
      <4>1. Lo = {Interval(p.first, f - 1)}
        BY <3>1
      <4> QED
        BY <4>1, <3>1, <1>1, IntervalFields, f - 1 \in Int
    <3>2. CASE ~(f > p.first)
      BY <3>2
    <3> QED
      BY <3>1, <3>2
  <2>4. ASSUME NEW x \in Int
        PROVE  (\E q \in Hi : q.first <= x /\ x <= q.last)
                 <=> (l < p.last /\ l + 1 <= x /\ x <= p.last)
    <3>1. CASE l < p.last
      <4>1. Hi = {Interval(l + 1, p.last)}
        BY <3>1
      <4> QED
        BY <4>1, <3>1, <1>1, IntervalFields, l + 1 \in Int
    <3>2. CASE ~(l < p.last)
      BY <3>2
    <3> QED
      BY <3>1, <3>2
  <2>5. \A x \in Int : (\E q \in Pieces(p, f, l) : q.first <= x /\ x <= q.last)
                         <=> \/ f > p.first /\ p.first <= x /\ x <= f - 1
                             \/ l < p.last /\ l + 1 <= x /\ x <= p.last
    BY <2>1, <2>3, <2>4
  <2> HIDE DEF Lo, Hi
  <2>6. ASSUME NEW x \in Int
        PROVE  (\/ f > p.first /\ p.first <= x /\ x <= f - 1
                \/ l < p.last /\ l + 1 <= x /\ x <= p.last)
                 <=> (p.first <= x /\ x <= p.last /\ ~(f <= x /\ x <= l))
    BY <1>1, <1>3
  <2> QED
    BY <2>1, <2>2, <2>5, <2>6
<1> QED
  BY <1>2, <1>3

\* The same for a whole list of intervals.
LEMMA SubtractPorts ==
  ASSUME NEW ps, ps \subseteq IntervalType, NEW f \in Int, NEW l \in Int, f <= l
  PROVE  /\ Subtract(ps, f, l) \subseteq IntervalType
         /\ PortsOf(Subtract(ps, f, l)) = PortsOf(ps) \ (f..l)
<1>1. \A q : q \in Subtract(ps, f, l) <=> \E p \in ps : q \in Pieces(p, f, l)
  BY DEF Subtract
<1>2. Subtract(ps, f, l) \subseteq IntervalType
  BY <1>1, PiecesPorts
<1>3. ASSUME NEW x \in Int
      PROVE  (\E q \in Subtract(ps, f, l) : q.first <= x /\ x <= q.last)
               <=> (\E p \in ps : p.first <= x /\ x <= p.last) /\ x \notin f..l
  <2>1. (\E q \in Subtract(ps, f, l) : q.first <= x /\ x <= q.last)
          <=> \E p \in ps : \E q \in Pieces(p, f, l) : q.first <= x /\ x <= q.last
    BY <1>1
  <2>2. \A p \in ps : (\E q \in Pieces(p, f, l) : q.first <= x /\ x <= q.last)
                        <=> (p.first <= x /\ x <= p.last /\ ~(f <= x /\ x <= l))
    BY PiecesPorts
  <2>3. x \in f..l <=> f <= x /\ x <= l
    OBVIOUS
  <2> QED
    BY <2>1, <2>2, <2>3
<1>4. 1..MaxPort \subseteq Int
  OBVIOUS
<1> QED
  BY <1>2, <1>3, <1>4 DEF PortsOf

\* Subtraction keeps intervals inside the spec and apart from each other.
LEMMA SubtractParts ==
  ASSUME cur \in RangeSpecs, parts \subseteq IntervalType, NEW f \in Int, NEW l \in Int, f <= l,
         \A p \in parts : Inside(p), \A p, q \in parts : p # q => Apart(p, q)
  PROVE  /\ \A p \in Subtract(parts, f, l) : Inside(p)
         /\ \A p, q \in Subtract(parts, f, l) : p # q => Apart(p, q)
<1>1. cur.first \in Int /\ LastPort(cur) \in Int
  BY SpecPorts
<1>2. \A q : q \in Subtract(parts, f, l) <=> \E p \in parts : q \in Pieces(p, f, l)
  BY DEF Subtract
<1>3. ASSUME NEW p \in parts, NEW q \in Pieces(p, f, l)
      PROVE  q.first \in Int /\ q.last \in Int /\ p.first \in Int /\ p.last \in Int
             /\ p.first <= q.first /\ q.first <= q.last /\ q.last <= p.last
  <2>1. p.first \in Int /\ p.last \in Int /\ p.first <= p.last
    BY <1>1 DEF IntervalType, Inside
  <2> QED
    BY <2>1 DEF Pieces, Interval
<1>4. ASSUME NEW p \in parts, NEW a \in Pieces(p, f, l), NEW b \in Pieces(p, f, l), a # b
      PROVE  Apart(a, b)
  <2>1. p.first \in Int /\ p.last \in Int
    BY DEF IntervalType
  <2> QED
    BY <2>1, <1>4 DEF Pieces, Interval, Apart
<1>5. \A q \in Subtract(parts, f, l) : Inside(q)
  BY <1>1, <1>2, <1>3 DEF Inside
<1>6. ASSUME NEW a \in Subtract(parts, f, l), NEW b \in Subtract(parts, f, l), a # b
      PROVE  Apart(a, b)
  <2>1. PICK p \in parts : a \in Pieces(p, f, l)
    BY <1>2
  <2>2. PICK q \in parts : b \in Pieces(q, f, l)
    BY <1>2
  <2>3. CASE p = q
    BY <1>4, <1>6, <2>1, <2>2, <2>3
  <2>4. CASE p # q
    <3>1. Apart(p, q)
      BY <2>4
    <3> QED
      BY <3>1, <2>1, <2>2, <1>3 DEF Apart
  <2> QED
    BY <2>3, <2>4
<1> QED
  BY <1>5, <1>6

-----------------------------------------------------------------------------

\* What nftSlicePorts changes and what it keeps.
LEMMA SliceFields ==
  ASSUME NEW s \in RangeSpecs, NEW p \in IntervalType,
         s.first <= p.first, p.first <= p.last, p.last <= LastPort(s)
  PROVE  LET c == Slice(s, p)
         IN  /\ c.first = p.first /\ c.last = p.last /\ LastPort(c) = p.last
             /\ c.target = s.target + p.first - s.first
             /\ c.targetLast = c.target + p.last - p.first
             /\ c.rule = s.rule /\ c.class = s.class /\ c.host = s.host /\ c.to = s.to
             /\ c.flow = s.flow
<1>1. s \in RangeSpecType
  BY RangeConstants
<1>2. s.first \in Int /\ 1 <= s.first /\ p.first \in Int /\ p.last \in Int
  BY SpecPorts DEF IntervalType
<1>3. LET c == Slice(s, p)
      IN  /\ c.first = p.first /\ c.last = p.last
          /\ c.target = s.target + p.first - s.first
          /\ c.targetLast = c.target + p.last - p.first
          /\ c.rule = s.rule /\ c.class = s.class /\ c.host = s.host /\ c.to = s.to
          /\ c.flow = s.flow
  BY <1>1 DEF RangeSpecType, Slice
<1>4. p.last # 0
  BY <1>2
<1> QED
  BY <1>3, <1>4 DEF LastPort

\* The loops start with one interval, the whole spec.
LEMMA InitInv == Init => RangeInv
<1> SUFFICES ASSUME Init PROVE RangeInv
  OBVIOUS
<1>1. cur \in RangeSpecs /\ cur.first \in Int /\ LastPort(cur) \in Int
      /\ 1 <= cur.first /\ cur.first <= LastPort(cur) /\ LastPort(cur) <= MaxPort
  BY SpecPorts DEF Init
<1>2. parts = {Interval(cur.first, LastPort(cur))}
  BY DEF Init, Whole
<1>3. TypeInv
  BY <1>1, <1>2, IntervalFields DEF Init, TypeInv
<1>4. PartsInv
  BY <1>1, <1>2, IntervalFields DEF Init, PartsInv, Inside
<1>5. PartsExact
  <2>1. PortsOf(parts) = Range(cur)
    BY <1>1, <1>2, IntervalFields, RangeConstants DEF PortsOf, Range
  <2>2. Touched = {}
    BY DEF Init, Touched
  <2>3. loop = kind /\ kind # "missing" /\ kind # "done"
    BY DEF Init
  <2> QED
    BY <2>1, <2>2, <2>3 DEF PartsExact
<1> QED
  BY <1>3, <1>4, <1>5 DEF RangeInv

\* Subtracting one visited spec keeps the intervals exact.
LEMMA VisitInv ==
  ASSUME RangeInv, NEW n \in RangeSpecs, Visit(n)
  PROVE  RangeInv'
<1>0. TypeInv /\ PartsInv /\ PartsExact
  BY DEF RangeInv
<1>1. n.first \in Int /\ LastPort(n) \in Int /\ n.first <= LastPort(n)
  BY SpecPorts
<1> DEFINE Cut == Subtract(parts, n.first, LastPort(n))
<1>2. /\ Cut \subseteq IntervalType /\ PortsOf(Cut) = PortsOf(parts) \ Range(n)
      /\ \A p \in Cut : Inside(p)
      /\ \A p, q \in Cut : p # q => Apart(p, q)
  BY <1>0, <1>1, SubtractPorts, SubtractParts DEF TypeInv, PartsInv, Range
<1>3. /\ seen' = seen \cup {n} /\ loop = kind
      /\ loop' = loop /\ kind' = kind /\ cur' = cur /\ todo' = todo /\ out' = out
      /\ parts' = IF Subtracts(kind, cur, n) THEN Cut ELSE parts
  BY DEF Visit
<1>4. kind # "missing" /\ kind # "done"
  BY <1>0 DEF TypeInv
<1> HIDE DEF Cut
<1>5. TypeInv'
  BY <1>0, <1>2, <1>3 DEF TypeInv
<1>6. PartsInv'
  BY <1>0, <1>2, <1>3, <1>4 DEF PartsInv, Inside
<1>7. Touched' = IF Subtracts(kind, cur, n) THEN Touched \cup Range(n) ELSE Touched
  <2>1. {m \in seen' : Subtracts(kind', cur', m)}
          = IF Subtracts(kind, cur, n) THEN {m \in seen : Subtracts(kind, cur, m)} \cup {n}
            ELSE {m \in seen : Subtracts(kind, cur, m)}
    BY <1>3
  <2> QED
    BY <2>1 DEF Touched
<1>8. PartsExact'
  BY <1>0, <1>2, <1>3, <1>4, <1>7 DEF PartsExact, Range
<1> QED
  BY <1>5, <1>6, <1>8 DEF RangeInv

\* The second loop of previouslyAdmittedNFT starts exact.
LEMMA StartMissingInv ==
  ASSUME RangeInv, StartMissing
  PROVE  RangeInv'
<1>0. TypeInv /\ PartsInv /\ PartsExact
  BY DEF RangeInv
<1>1. cur \in RangeSpecs /\ cur.first \in Int /\ LastPort(cur) \in Int
      /\ 1 <= cur.first /\ cur.first <= LastPort(cur) /\ LastPort(cur) <= MaxPort
  BY <1>0, SpecPorts DEF TypeInv
<1>2. /\ loop = kind /\ kind = "keep" /\ loop' = "missing"
      /\ kind' = kind /\ cur' = cur /\ seen' = seen /\ out' = out
      /\ todo' = Slices(cur, parts) /\ parts' = {Interval(cur.first, LastPort(cur))}
  BY <1>0 DEF StartMissing, TypeInv, Whole
<1>3. \A p \in parts : LET m == Slice(cur, p)
                       IN  /\ m.first = p.first /\ LastPort(m) = p.last
                           /\ m.class = cur.class /\ m.host = cur.host
                           /\ p.first \in Int /\ p.last \in Int /\ p.first <= p.last
                           /\ 1 <= p.first /\ p.last <= MaxPort
  BY <1>0, <1>1, SliceFields, RangeConstants DEF TypeInv, PartsInv, Inside, IntervalType
<1>4. TypeInv'
  <2>1. \A m \in todo' : /\ m.first \in Int /\ LastPort(m) \in Int /\ m.first <= LastPort(m)
                         /\ SharesIngress(cur, m)
    BY <1>2, <1>3 DEF Slices, SharesIngress
  <2> QED
    BY <2>1, <1>0, <1>1, <1>2, IntervalFields DEF TypeInv
<1>5. PartsInv'
  BY <1>0, <1>1, <1>2, IntervalFields DEF PartsInv, Inside
<1>6. PartsExact'
  <2>1. PortsOf(parts') = Range(cur)
    BY <1>1, <1>2, IntervalFields, RangeConstants DEF PortsOf, Range
  <2>2. UNION {Range(m) : m \in todo'} = PortsOf(parts)
    <3>1. ASSUME NEW x PROVE x \in UNION {Range(m) : m \in todo'} <=> x \in PortsOf(parts)
      <4>1. x \in UNION {Range(m) : m \in todo'} <=> \E p \in parts : x \in Range(Slice(cur, p))
        BY <1>2 DEF Slices
      <4>2. \A p \in parts : x \in Range(Slice(cur, p)) <=> x \in p.first..p.last
        BY <1>3 DEF Range
      <4>3. \A p \in parts : x \in p.first..p.last
                               <=> x \in 1..MaxPort /\ p.first <= x /\ x <= p.last
        BY <1>3, RangeConstants
      <4> QED
        BY <4>1, <4>2, <4>3 DEF PortsOf
    <3> QED
      BY <3>1
  <2>3. PortsOf(parts) = Range(cur) \ Touched
    BY <1>0, <1>2 DEF PartsExact
  <2>4. Touched' = Touched
    BY <1>2 DEF Touched
  <2>5. Range(cur') = Range(cur)
    BY <1>2
  <2> QED
    BY <1>2, <2>1, <2>2, <2>3, <2>4, <2>5 DEF PartsExact
<1> QED
  BY <1>4, <1>5, <1>6 DEF RangeInv

\* Subtracting one piece of the first result keeps them exact.
LEMMA VisitMissingInv ==
  ASSUME RangeInv, NEW m \in todo, VisitMissing(m)
  PROVE  RangeInv'
<1>0. TypeInv /\ PartsInv /\ PartsExact
  BY DEF RangeInv
<1>1. m.first \in Int /\ LastPort(m) \in Int /\ m.first <= LastPort(m) /\ SharesIngress(cur, m)
  BY <1>0 DEF TypeInv
<1> DEFINE Cut == Subtract(parts, m.first, LastPort(m))
<1>2. /\ Cut \subseteq IntervalType /\ PortsOf(Cut) = PortsOf(parts) \ Range(m)
      /\ \A p \in Cut : Inside(p)
      /\ \A p, q \in Cut : p # q => Apart(p, q)
  BY <1>0, <1>1, SubtractPorts, SubtractParts DEF TypeInv, PartsInv, Range
<1>3. /\ loop = "missing" /\ loop' = loop /\ kind' = kind /\ cur' = cur /\ seen' = seen
      /\ out' = out /\ todo' = todo \ {m} /\ parts' = Cut
  BY <1>1 DEF VisitMissing
<1>4. kind # "missing" /\ kind # "done"
  BY <1>0 DEF TypeInv
<1> HIDE DEF Cut
<1>5. TypeInv'
  BY <1>0, <1>2, <1>3 DEF TypeInv
<1>6. PartsInv'
  BY <1>0, <1>2, <1>3 DEF PartsInv, Inside
<1>7. PartsExact'
  <2>1. UNION {Range(k) : k \in todo} = Range(m) \cup UNION {Range(k) : k \in todo'}
    BY <1>3
  <2>2. Touched' = Touched
    BY <1>3 DEF Touched
  <2>3. Range(cur') = Range(cur)
    BY <1>3
  <2>4. PortsOf(parts) \ UNION {Range(k) : k \in todo} = Range(cur) \cap Touched
    BY <1>0, <1>3 DEF PartsExact
  <2>5. PortsOf(parts') \ UNION {Range(k) : k \in todo'} = Range(cur) \cap Touched
    BY <1>2, <1>3, <2>1, <2>4
  <2> QED
    BY <1>3, <1>4, <2>2, <2>3, <2>5 DEF PartsExact
<1> QED
  BY <1>5, <1>6, <1>7 DEF RangeInv

\* Every iteration keeps the invariant.
LEMMA NextInv == RangeInv /\ [Next]_vars => RangeInv'
<1> SUFFICES ASSUME RangeInv, [Next]_vars PROVE RangeInv'
  OBVIOUS
<1>0. TypeInv /\ PartsInv /\ PartsExact
  BY DEF RangeInv
<1>1. ASSUME Finish PROVE RangeInv'
  <2>1. /\ loop = kind /\ kind # "keep" /\ loop' = "done" /\ out' = Slices(cur, parts)
        /\ kind' = kind /\ cur' = cur /\ seen' = seen /\ todo' = todo /\ parts' = parts
    BY <1>1 DEF Finish
  <2>2. TypeInv' /\ PartsInv'
    BY <1>0, <2>1 DEF TypeInv, PartsInv, Inside
  <2>3. PartsExact'
    BY <1>0, <2>1 DEF PartsExact, Touched, TypeInv
  <2> QED
    BY <2>2, <2>3 DEF RangeInv
<1>2. ASSUME FinishMissing PROVE RangeInv'
  <2>1. /\ loop = "missing" /\ todo = {} /\ loop' = "done" /\ out' = Slices(cur, parts)
        /\ kind' = kind /\ cur' = cur /\ seen' = seen /\ todo' = todo /\ parts' = parts
    BY <1>2 DEF FinishMissing
  <2>2. TypeInv' /\ PartsInv'
    BY <1>0, <2>1 DEF TypeInv, PartsInv, Inside
  <2>3. PartsExact'
    <3>1. kind = "keep" /\ UNION {Range(m) : m \in todo} = {}
      BY <1>0, <2>1 DEF TypeInv
    <3>2. PortsOf(parts) = Range(cur) \cap Touched
      BY <1>0, <2>1, <3>1 DEF PartsExact
    <3>3. Touched' = Touched /\ Range(cur') = Range(cur) /\ PortsOf(parts') = PortsOf(parts)
      BY <2>1 DEF Touched
    <3> QED
      BY <2>1, <3>1, <3>2, <3>3 DEF PartsExact
  <2> QED
    BY <2>2, <2>3 DEF RangeInv
<1>3. CASE UNCHANGED vars
  BY <1>0, <1>3 DEF RangeInv, TypeInv, PartsInv, PartsExact, Touched, vars, Inside
<1> QED
  BY <1>1, <1>2, <1>3, VisitInv, StartMissingInv, VisitMissingInv DEF Next

-----------------------------------------------------------------------------

\* The interval loops leave exactly the right ports after every iteration.
THEOREM PartsExactAlways == RangeSpec => []PartsExact
<1>1. RangeInv => PartsExact
  BY DEF RangeInv
<1> QED
  BY <1>1, InitInv, NextInv, PTL DEF RangeSpec

\* Every slice a loop returns is disjoint from the others, keeps its flowtable
\* flag and passes validateRetirementSpec.
THEOREM SlicesAlwaysUsable == RangeSpec => []SlicesUsable
<1>1. ASSUME RangeInv PROVE SlicesUsable
  <2>1. cur \in RangeSpecs /\ parts \subseteq IntervalType
        /\ (\A p \in parts : Inside(p)) /\ (\A p, q \in parts : p # q => Apart(p, q))
        /\ (out = {} \/ out = Slices(cur, parts))
    BY <1>1 DEF RangeInv, TypeInv, PartsInv
  <2>2. ASSUME NEW p \in parts
        PROVE  LET c == Slice(cur, p)
               IN  /\ Valid(c) /\ c.flow = cur.flow /\ Range(c) = p.first..p.last
                   /\ p.first \in Int /\ p.last \in Int
    <3>1. p \in IntervalType /\ cur.first <= p.first /\ p.first <= p.last /\ p.last <= LastPort(cur)
      BY <2>1 DEF Inside
    <3>2. p.first \in Int /\ p.last \in Int
      BY <3>1 DEF IntervalType
    <3>3. /\ cur.first \in Int /\ cur.target \in Int /\ LastPort(cur) \in Int
          /\ 1 <= cur.first /\ LastPort(cur) <= MaxPort
          /\ 1 <= cur.target /\ cur.target + LastPort(cur) - cur.first <= MaxPort
          /\ LastPort(cur) - cur.first + 1 <= MaxWidth
      BY <2>1, SpecPorts
    <3> DEFINE c == Slice(cur, p)
    <3>4. /\ c.first = p.first /\ LastPort(c) = p.last
          /\ c.target = cur.target + p.first - cur.first
          /\ c.targetLast = c.target + p.last - p.first /\ c.flow = cur.flow
      BY <2>1, <3>1, SliceFields
    <3> HIDE DEF c
    <3>5. c.targetLast # 0 /\ LastTarget(c) = c.targetLast
      BY <3>1, <3>2, <3>3, <3>4 DEF LastTarget
    <3>6. Valid(c)
      BY <3>1, <3>2, <3>3, <3>4, <3>5, RangeConstants DEF Valid
    <3>7. Range(c) = p.first..p.last
      BY <3>4 DEF Range
    <3> QED
      BY <3>2, <3>4, <3>6, <3>7 DEF c
  <2>3. ASSUME NEW a \in out, NEW b \in out, a # b PROVE Range(a) \cap Range(b) = {}
    <3>1. PICK p \in parts : a = Slice(cur, p)
      BY <2>1 DEF Slices
    <3>2. PICK q \in parts : b = Slice(cur, q)
      BY <2>1 DEF Slices
    <3>3. Apart(p, q)
      BY <2>1, <2>3, <3>1, <3>2
    <3> QED
      BY <2>2, <3>1, <3>2, <3>3 DEF Apart
  <2>4. \A a \in out : Valid(a) /\ a.flow = cur.flow
    BY <2>1, <2>2 DEF Slices
  <2> QED
    BY <2>3, <2>4 DEF SlicesUsable
<1> QED
  BY <1>1, InitInv, NextInv, PTL DEF RangeSpec

-----------------------------------------------------------------------------

\* Two units are the same exactly when path, port and port offset agree.
LEMMA UnitEqual ==
  ASSUME NEW a \in RangeSpecs, NEW b \in RangeSpecs, NEW x \in Int, NEW y \in Int
  PROVE  Unit(a, x) = Unit(b, y) <=> x = y /\ SamePath(a, b)
<1>1. a.first \in Int /\ a.target \in Int /\ b.first \in Int /\ b.target \in Int
  BY SpecPorts
<1>2. Unit(a, x) = Unit(b, y) <=>
        /\ a.rule = b.rule /\ a.class = b.class /\ a.host = b.host /\ a.to = b.to
        /\ x = y /\ a.target + x - a.first = b.target + y - b.first
  BY DEF Unit
<1>3. x = y => (a.target + x - a.first = b.target + y - b.first
                  <=> a.target - a.first = b.target - b.first)
  BY <1>1
<1> QED
  BY <1>2, <1>3 DEF SamePath

\* A port of a spec is among the ports of S exactly if a spec of S has it.
LEMMA UnitMember ==
  ASSUME NEW a \in RangeSpecs, NEW S, S \subseteq RangeSpecs, NEW x \in Range(a)
  PROVE  Unit(a, x) \in UnitsOf(S) <=> \E n \in S : SamePath(a, n) /\ x \in Range(n)
<1>1. x \in Int /\ \A n \in S : \A y \in Range(n) : y \in Int
  BY SpecPorts DEF Range
<1>2. Unit(a, x) \in UnitsOf(S) <=> \E n \in S : \E y \in Range(n) : Unit(a, x) = Unit(n, y)
  BY DEF UnitsOf, Units
<1>3. \A n \in S : \A y \in Range(n) : Unit(a, x) = Unit(n, y) <=> x = y /\ SamePath(a, n)
  BY <1>1, UnitEqual
<1> QED
  BY <1>2, <1>3

\* A port of a spec overlaps S exactly if a spec of S shares its ingress there.
LEMMA OverlapMember ==
  ASSUME NEW a \in RangeSpecs, NEW S, S \subseteq RangeSpecs, NEW x \in Range(a)
  PROVE  (\E v \in UnitsOf(S) : UnitOverlap(Unit(a, x), v))
           <=> \E n \in S : SharesIngress(a, n) /\ x \in Range(n)
<1>1. (\E v \in UnitsOf(S) : UnitOverlap(Unit(a, x), v))
        <=> \E n \in S : \E y \in Range(n) : UnitOverlap(Unit(a, x), Unit(n, y))
  BY DEF UnitsOf, Units
<1>2. \A n \in S : \A y \in Range(n) :
        UnitOverlap(Unit(a, x), Unit(n, y)) <=> x = y /\ SharesIngress(a, n)
  BY DEF UnitOverlap, Unit, SharesIngress
<1> QED
  BY <1>1, <1>2

\* A slice forwards each of its ports where the whole spec did.
LEMMA SliceUnits ==
  ASSUME TypeInv, NEW p \in parts, Inside(p)
  PROVE  /\ Range(Slice(cur, p)) = p.first..p.last
         /\ \A x \in p.first..p.last : Unit(Slice(cur, p), x) = Unit(cur, x)
<1>1. cur \in RangeSpecs /\ p \in IntervalType
  BY DEF TypeInv
<1>2. cur.first \in Int /\ cur.target \in Int /\ p.first \in Int /\ p.last \in Int
  BY <1>1, SpecPorts DEF IntervalType
<1> DEFINE c == Slice(cur, p)
<1>3. /\ c.first = p.first /\ LastPort(c) = p.last
      /\ c.target = cur.target + p.first - cur.first
      /\ c.rule = cur.rule /\ c.class = cur.class /\ c.host = cur.host /\ c.to = cur.to
  BY <1>1, SliceFields DEF Inside
<1> HIDE DEF c
<1>4. \A x \in p.first..p.last : c.target + x - c.first = cur.target + x - cur.first
  BY <1>2, <1>3
<1>5. Range(c) = p.first..p.last
  BY <1>3 DEF Range
<1>6. \A x \in p.first..p.last : Unit(c, x) = Unit(cur, x)
  BY <1>3, <1>4 DEF Unit
<1> QED
  BY <1>5, <1>6 DEF c

\* What is returned covers the ports that are left.
LEMMA ReturnedUnits ==
  ASSUME RangeInv, loop = "done"
  PROVE  UnitsOf(out) = {Unit(cur, x) : x \in PortsOf(parts)}
<1>1. TypeInv /\ PartsInv /\ cur \in RangeSpecs /\ out = Slices(cur, parts)
  BY DEF RangeInv, TypeInv, PartsInv
<1>2. ASSUME NEW u
      PROVE  u \in UnitsOf(out) <=> \E p \in parts : \E x \in p.first..p.last : u = Unit(cur, x)
  <2>1. u \in UnitsOf(out)
          <=> \E p \in parts : \E x \in Range(Slice(cur, p)) : u = Unit(Slice(cur, p), x)
    BY <1>1 DEF UnitsOf, Units, Slices
  <2>2. \A p \in parts : /\ Range(Slice(cur, p)) = p.first..p.last
                         /\ \A x \in p.first..p.last : Unit(Slice(cur, p), x) = Unit(cur, x)
    BY <1>1, SliceUnits DEF PartsInv
  <2> QED
    BY <2>1, <2>2
<1>3. ASSUME NEW x PROVE (\E p \in parts : x \in p.first..p.last) <=> x \in PortsOf(parts)
  <2>1. \A p \in parts : p.first \in Int /\ p.last \in Int /\ 1 <= p.first /\ p.last <= MaxPort
    BY <1>1, SpecPorts, RangeConstants DEF TypeInv, PartsInv, Inside, IntervalType
  <2> QED
    BY <2>1, RangeConstants DEF PortsOf
<1> QED
  BY <1>2, <1>3

\* retiredNFTSpecs, gateNFTReplacements and previouslyAdmittedNFT answer the
\* single-port question of NftBackend exactly, for ranges of any shape.
THEOREM ExactUnitsAlways == RangeSpec => []ExactUnits
<1>1. ASSUME RangeInv PROVE ExactUnits
  <2> SUFFICES ASSUME loop = "done" PROVE UnitsOf(out) = Expected
    BY DEF ExactUnits
  <2>1. /\ cur \in RangeSpecs /\ seen \subseteq RangeSpecs /\ kind \in {"retire", "gate", "keep"}
        /\ PortsOf(parts) = IF kind = "keep" THEN Range(cur) \cap Touched ELSE Range(cur) \ Touched
    BY <1>1 DEF RangeInv, TypeInv, PartsExact
  <2>2. UnitsOf(out) = {Unit(cur, x) : x \in PortsOf(parts)}
    BY <1>1, ReturnedUnits
  <2>3. \A x : x \in Touched <=> \E n \in seen : Subtracts(kind, cur, n) /\ x \in Range(n)
    BY DEF Touched
  <2>4. CASE kind = "retire"
    <3>1. \A x \in Range(cur) : Unit(cur, x) \in UnitsOf(seen) <=> x \in Touched
      BY <2>1, <2>3, <2>4, UnitMember DEF Subtracts
    <3>2. Expected = {Unit(cur, x) : x \in Range(cur) \ Touched}
      BY <2>4, <3>1 DEF Expected, Units
    <3> QED
      BY <2>1, <2>2, <2>4, <3>2
  <2>5. CASE kind = "gate"
    <3>1. \A x \in Range(cur) :
            (\E v \in UnitsOf(seen) : UnitOverlap(Unit(cur, x), v)) <=> x \in Touched
      BY <2>1, <2>3, <2>5, OverlapMember DEF Subtracts
    <3>2. Expected = {Unit(cur, x) : x \in Range(cur) \ Touched}
      BY <2>5, <3>1 DEF Expected, Units
    <3> QED
      BY <2>1, <2>2, <2>5, <3>2
  <2>6. CASE kind = "keep"
    <3> DEFINE S == {n \in seen : cur.flow => n.flow}
    <3>1. S \subseteq RangeSpecs
      BY <2>1
    <3>2. \A x \in Range(cur) : Unit(cur, x) \in UnitsOf(S)
                                  <=> \E n \in S : SamePath(cur, n) /\ x \in Range(n)
      BY <2>1, <3>1, UnitMember
    <3>3. \A x \in Range(cur) : Unit(cur, x) \in UnitsOf(S) <=> x \in Touched
      BY <2>3, <2>6, <3>2 DEF Subtracts
    <3>4. Expected = Units(cur) \cap UnitsOf(S)
      BY <2>6 DEF Expected
    <3> HIDE DEF S
    <3>5. Expected = {Unit(cur, x) : x \in Range(cur) \cap Touched}
      BY <3>3, <3>4 DEF Units
    <3> QED
      BY <2>1, <2>2, <2>6, <3>5
  <2> QED
    BY <2>1, <2>4, <2>5, <2>6
<1> QED
  BY <1>1, InitInv, NextInv, PTL DEF RangeSpec

=============================================================================

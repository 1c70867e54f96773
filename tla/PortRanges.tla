------------------------------ MODULE PortRanges ------------------------------
(***************************************************************************)
(* The port-range algebra of nft_recovery.go.  retiredNFTSpecs,            *)
(* gateNFTReplacements and previouslyAdmittedNFT all take one range spec   *)
(* and subtract from its ports the ranges of other specs, one by one, then *)
(* cut the spec along the ports that are left.  One iteration of those     *)
(* loops is one step here, over specs that come in any order.              *)
(*                                                                         *)
(* The reference is the same question asked port by port, which is how     *)
(* NftBackend.tla poses it: a range spec stands for the set of its units.  *)
(***************************************************************************)
EXTENDS Integers, FiniteSets

CONSTANTS
  RangeSpecs,   \* the nftRuleSpecs the loops may meet
  Wildcard,     \* the unspecified listen address
  MaxPort,      \* 65535
  MaxWidth,     \* 4096, the widest range one spec may have
  MaxSeen       \* bound: how many specs one loop visits

\* nftLastPort: a ListenPortEnd of zero stands for a single port.
LastPort(s) == IF s.last = 0 THEN s.first ELSE s.last

\* The same convention for TargetPortEnd.
LastTarget(s) == IF s.targetLast = 0 THEN s.target ELSE s.targetLast

\* validateRetirementSpec: the port conditions.
Valid(s) ==
  /\ 1 <= s.first /\ s.first <= LastPort(s) /\ LastPort(s) <= MaxPort
  /\ 1 <= s.target /\ s.target <= LastTarget(s) /\ LastTarget(s) <= MaxPort
  /\ LastPort(s) - s.first = LastTarget(s) - s.target
  /\ LastPort(s) - s.first + 1 <= MaxWidth

\* The class of a spec is its family and its protocol; all specs of an instance
\* carry one conntrack mark, which replaceObjects checks.
RangeSpecType == [rule : STRING, class : STRING, host : STRING, to : STRING, flow : BOOLEAN,
                  first : Nat, last : Nat, target : Nat, targetLast : Nat]

ASSUME RangeConstants ==
  /\ MaxPort \in Nat /\ MaxWidth \in Nat /\ MaxSeen \in Nat
  /\ RangeSpecs \subseteq RangeSpecType /\ \A s \in RangeSpecs : Valid(s)

VARIABLES
  loop,    \* "retire", "gate" or "keep", "missing" (keep's second loop), "done"
  kind,    \* which of the three operations runs
  cur,     \* the spec being cut
  seen,    \* the specs the first loop has visited
  todo,    \* keep's second loop: the missing slices not yet subtracted
  parts,   \* the port intervals of cur that are left
  out      \* the slices returned

vars == <<loop, kind, cur, seen, todo, parts, out>>

-----------------------------------------------------------------------------

Interval(a, b) == [first |-> a, last |-> b]

\* Mutant: a hole at the low end of the interval is cut one port short.
PiecesOffByOne(p, first, last) ==
  IF last < p.first \/ first > p.last THEN {p}
  ELSE (IF first > p.first THEN {Interval(p.first, first - 1)} ELSE {})
       \cup (IF last <= p.last THEN {Interval(last, p.last)} ELSE {})

\* One interval minus first..last.
Pieces(p, first, last) ==
  IF last < p.first \/ first > p.last THEN {p}
  ELSE (IF first > p.first THEN {Interval(p.first, first - 1)} ELSE {})
       \cup (IF last < p.last THEN {Interval(last + 1, p.last)} ELSE {})

\* nftSubtractPortRange
Subtract(ps, first, last) == UNION {Pieces(p, first, last) : p \in ps}

\* Mutant: the slice keeps the last target port of the whole range.
SliceKeepsTargetLast(s, p) ==
  [s EXCEPT !.first = p.first, !.last = p.last, !.target = s.target + p.first - s.first]

\* nftSlicePorts: the target moves along with the listen port.
Slice(s, p) ==
  LET target == s.target + p.first - s.first
  IN  [s EXCEPT !.first = p.first, !.last = p.last,
                !.target = target, !.targetLast = target + p.last - p.first]

Whole(s) == {Interval(s.first, LastPort(s))}

\* retiredNFTSpecs: the same forwarding, whatever its acceleration.
SamePath(a, b) ==
  /\ a.rule = b.rule /\ a.class = b.class /\ a.host = b.host /\ a.to = b.to
  /\ a.target - a.first = b.target - b.first

\* Mutant: a wildcard listener is not seen to cover a specific address.
SharesIngressIgnoresWildcard(a, b) == a.class = b.class /\ a.host = b.host

\* gateNFTReplacements: the same ingress, a wildcard host meets every host.
SharesIngress(a, b) ==
  a.class = b.class /\ (a.host = b.host \/ a.host = Wildcard \/ b.host = Wildcard)

\* Mutant: newly enabled offload counts as already admitted.
SubtractsIgnoringOffload(k, s, n) ==
  IF k = "gate" THEN SharesIngress(s, n) ELSE SamePath(s, n)

\* Which visited specs have their ports subtracted.
Subtracts(k, s, n) ==
  CASE k = "retire" -> SamePath(s, n)
    [] k = "gate"   -> SharesIngress(s, n)
    [] k = "keep"   -> SamePath(s, n) /\ (s.flow => n.flow)

Slices(s, ps) == {Slice(s, p) : p \in ps}

Init ==
  /\ kind \in {"retire", "gate", "keep"} /\ loop = kind
  /\ cur \in RangeSpecs
  /\ seen = {} /\ todo = {} /\ out = {}
  /\ parts = Whole(cur)

\* One iteration of the loop over the other specs.
Visit(n) ==
  /\ loop = kind /\ n \notin seen /\ Cardinality(seen) < MaxSeen
  /\ seen' = seen \cup {n}
  /\ parts' = IF Subtracts(kind, cur, n) THEN Subtract(parts, n.first, LastPort(n)) ELSE parts
  /\ UNCHANGED <<loop, kind, cur, todo, out>>

\* The loop ends: cut the spec along what is left.
Finish ==
  /\ loop = kind /\ kind # "keep"
  /\ out' = Slices(cur, parts) /\ loop' = "done"
  /\ UNCHANGED <<kind, cur, seen, todo, parts>>

\* previouslyAdmittedNFT goes on to gate the spec by its own missing slices.
StartMissing ==
  /\ loop = "keep"
  /\ todo' = Slices(cur, parts) /\ parts' = Whole(cur) /\ loop' = "missing"
  /\ UNCHANGED <<kind, cur, seen, out>>

VisitMissing(m) ==
  /\ loop = "missing" /\ m \in todo
  /\ todo' = todo \ {m}
  /\ parts' = IF SharesIngress(cur, m) THEN Subtract(parts, m.first, LastPort(m)) ELSE parts
  /\ UNCHANGED <<loop, kind, cur, seen, out>>

FinishMissing ==
  /\ loop = "missing" /\ todo = {}
  /\ out' = Slices(cur, parts) /\ loop' = "done"
  /\ UNCHANGED <<kind, cur, seen, todo, parts>>

Next ==
  \/ \E n \in RangeSpecs : Visit(n)
  \/ Finish \/ StartMissing
  \/ \E m \in todo : VisitMissing(m)
  \/ FinishMissing

RangeSpec == Init /\ [][Next]_vars

-----------------------------------------------------------------------------
(***************************************************************************)
(* The reference: port by port.                                            *)
(***************************************************************************)

PortsOf(ps) == {x \in 1..MaxPort : \E p \in ps : p.first <= x /\ x <= p.last}
Range(s) == s.first..LastPort(s)

\* What one port of a spec forwards to.
Unit(s, x) == [rule |-> s.rule, class |-> s.class, host |-> s.host, port |-> x,
               to |-> s.to, target |-> s.target + x - s.first]
Units(s) == {Unit(s, x) : x \in Range(s)}
UnitsOf(S) == UNION {Units(s) : s \in S}

\* NftBackend's single-port questions.
UnitOverlap(u, v) == u.class = v.class /\ u.port = v.port
                     /\ (u.host = v.host \/ u.host = Wildcard \/ v.host = Wildcard)

Expected ==
  CASE kind = "retire" -> Units(cur) \ UnitsOf(seen)
    [] kind = "gate"   -> {u \in Units(cur) : \A v \in UnitsOf(seen) : ~UnitOverlap(u, v)}
    [] kind = "keep"   -> Units(cur) \cap UnitsOf({n \in seen : cur.flow => n.flow})

\* What retiredNFTSpecs, gateNFTReplacements and previouslyAdmittedNFT return
\* covers exactly the ports, forwarded to exactly the target ports, that the
\* single-port definitions of NftBackend give, in whatever order and however
\* the visited ranges overlap, touch or contain each other.
ExactUnits == loop = "done" => UnitsOf(out) = Expected

\* The slices returned never overlap each other, keep the flowtable flag and
\* pass validateRetirementSpec, so replaceObjects never rejects its own slices.
SlicesUsable ==
  \A a \in out :
    /\ Valid(a) /\ a.flow = cur.flow
    /\ \A b \in out : a # b => Range(a) \cap Range(b) = {}

\* The ports of the visited specs that matter to the operation.
Touched == UNION {Range(n) : n \in {m \in seen : Subtracts(kind, cur, m)}}

\* At every iteration the intervals left are the spec's ports minus those of
\* the visited specs that matter; the second loop of previouslyAdmittedNFT
\* turns the complement of a complement back into what was admitted.
PartsExact ==
  /\ loop = kind => PortsOf(parts) = Range(cur) \ Touched
  /\ loop = "missing" =>
       PortsOf(parts) \ UNION {Range(m) : m \in todo} = Range(cur) \cap Touched
  /\ loop = "done" =>
       PortsOf(parts) = IF kind = "keep" THEN Range(cur) \cap Touched ELSE Range(cur) \ Touched

=============================================================================

-------------------------- MODULE HookAdmissionProofs --------------------------
(***************************************************************************)
(* A path that may be offloaded is harmless to offload, for every ruleset, *)
(* every set of specs, every number of ports and every way other programs  *)
(* edit the ruleset during the check.                                      *)
(*                                                                         *)
(* The argument is local to one ruleset first: a match that holds for a    *)
(* view holds for its packets, the views of a spec cover the packets of    *)
(* every spec it covers, so a chain one of the two proofs accepts drops    *)
(* none of them.  The invariant then says of the state machine only what   *)
(* links the reads of one check: the passes found the chains that were     *)
(* listed, and the second agreed with the first.                           *)
(***************************************************************************)
EXTENDS HookAdmission, TLAPS

-----------------------------------------------------------------------------
\* Packets and views.

\* The packet is one of those the view describes.
InView(p, v) ==
  /\ p.fam = v.fam /\ p.proto = v.proto
  /\ v.src # NoAddr => p.src = v.src
  /\ v.dst # NoAddr => p.dst = v.dst
  /\ p.sport \in v.sport.first..v.sport.last
  /\ p.dport \in v.dport.first..v.dport.last

\* nftACLPortAlways is right for every port of the range.
LEMMA PortAlwaysSound ==
  ASSUME NEW d, d.first \in Int, d.last \in Int, NEW op, NEW value \in Int,
         NEW x \in d.first..d.last, ACLPortAlways(d, op, value)
  PROVE  Compare(op, x, value)
<1>1. CASE op = "=="
  BY <1>1 DEF ACLPortAlways, Compare
<1>2. CASE op = "!="
  BY <1>2 DEF ACLPortAlways, Compare
<1>3. CASE op = "<"
  BY <1>3 DEF ACLPortAlways, Compare
<1>4. CASE op = "<="
  BY <1>4 DEF ACLPortAlways, Compare
<1>5. CASE op = ">"
  BY <1>5 DEF ACLPortAlways, Compare
<1>6. CASE op = ">="
  BY <1>6 DEF ACLPortAlways, Compare
<1>7. CASE op \notin {"==", "!=", "<", "<=", ">", ">="}
  BY <1>7 DEF ACLPortAlways
<1> QED BY <1>1, <1>2, <1>3, <1>4, <1>5, <1>6, <1>7

\* nftACLMatchAlways is right for every packet of the view.
LEMMA MatchAlwaysSound ==
  ASSUME NEW m, NEW family, ACLMatch(m, family), NEW v, NEW p, InView(p, v),
         v.sport.first \in Int, v.sport.last \in Int,
         v.dport.first \in Int, v.dport.last \in Int,
         ACLMatchAlways(m, v)
  PROVE  PacketMatches(m, p)
<1>1. CASE m.sel = "nfproto"
  BY <1>1 DEF ACLMatchAlways, PacketMatches, InView
<1>2. CASE m.sel = "l4proto"
  BY <1>2 DEF ACLMatchAlways, PacketMatches, InView
<1>3. CASE m.sel = "sport"
  <2>1. m.of = v.proto /\ ACLPortAlways(v.sport, m.op, m.val)
    BY <1>3 DEF ACLMatchAlways
  <2>2. m.val \in Int
    BY <1>3, HookConstants DEF ACLMatch, TransparentMatch, Ports
  <2>3. Compare(m.op, p.sport, m.val)
    BY <2>1, <2>2, PortAlwaysSound DEF InView
  <2> QED BY <1>3, <2>1, <2>3 DEF PacketMatches, InView
<1>4. CASE m.sel = "dport"
  <2>1. m.of = v.proto /\ ACLPortAlways(v.dport, m.op, m.val)
    BY <1>4 DEF ACLMatchAlways
  <2>2. m.val \in Int
    BY <1>4, HookConstants DEF ACLMatch, TransparentMatch, Ports
  <2>3. Compare(m.op, p.dport, m.val)
    BY <2>1, <2>2, PortAlwaysSound DEF InView
  <2> QED BY <1>4, <2>1, <2>3 DEF PacketMatches, InView
<1>5. CASE m.sel = "saddr"
  BY <1>5 DEF ACLMatchAlways, PacketMatches, InView
<1>6. CASE m.sel = "daddr"
  BY <1>6 DEF ACLMatchAlways, PacketMatches, InView
<1> QED BY <1>1, <1>2, <1>3, <1>4, <1>5, <1>6 DEF ACLMatchAlways

\* The views of a spec cover every packet of every spec it covers, wherever
\* the chain sits relative to address translation.
LEMMA ViewsCover ==
  ASSUME NEW a \in Specs, NEW q \in Queries, ValidSpec(a), Covers(a, q),
         NEW l \in q.lfirst..q.llast, NEW x \in Addrs, NEW b \in Ports,
         NEW d \in Destinations(q), NEW hook, NEW prio \in Int,
         NEW p \in FlowPackets(q, l, x, b, d, hook, prio)
  PROVE  \E v \in ACLViews(a, hook, prio) :
            /\ InView(p, v)
            /\ v.sport.first \in Int /\ v.sport.last \in Int
            /\ v.dport.first \in Int /\ v.dport.last \in Int
<1>0. /\ MaxPort \in Nat /\ q.lfirst \in Int /\ q.llast \in Int /\ q.tfirst \in Int
      /\ a.lfirst \in Int /\ a.llast \in Int /\ a.tfirst \in Int /\ a.tlast \in Int
  BY HookConstants, SpecConstants DEF Ports
<1> DEFINE t == q.tfirst + (l - q.lfirst)
<1>1. /\ l \in Int /\ t \in Int /\ b \in 0..MaxPort
      /\ l \in a.lfirst..a.llast /\ t \in a.tfirst..a.tlast
  BY <1>0 DEF Covers, ValidSpec, Ports
<1>2. ListenAddr(a) # NoAddr => d = ListenAddr(a)
  BY DEF Covers, ListenAddr, Destinations
<1>3. a.fam = q.fam /\ a.proto = q.proto /\ a.target = q.target
  BY DEF Covers
<1> HIDE DEF t
<1>4. CASE p = Packet(q, x, d, b, l) /\ hook = "prerouting" /\ prio <= -100
  <2>1. InView(p, Before(a))
    BY <1>1, <1>2, <1>3, <1>4 DEF InView, Before, View, Packet, AnyPort, PortRange
  <2>2. Before(a) \in ACLViews(a, hook, prio)
    BY <1>4 DEF ACLViews
  <2> QED BY <1>0, <2>1, <2>2 DEF Before, View, AnyPort, PortRange
<1>5. CASE p = Packet(q, x, q.target, b, t) /\ ~(hook = "prerouting" /\ prio < -100)
  <2>1. InView(p, Original(a))
    BY <1>1, <1>3, <1>5 DEF InView, Original, View, Packet, AnyPort, PortRange
  <2>2. Original(a) \in ACLViews(a, hook, prio)
    BY <1>5 DEF ACLViews
  <2> QED BY <1>0, <2>1, <2>2 DEF Original, View, AnyPort, PortRange
<1>6. CASE p = Packet(q, q.target, x, t, b) /\ ~(hook = "postrouting" /\ prio > 100)
  <2>1. InView(p, Reply(a))
    BY <1>1, <1>3, <1>6 DEF InView, Reply, View, Packet, AnyPort, PortRange
  <2>2. Reply(a) \in ACLViews(a, hook, prio)
    BY <1>6 DEF ACLViews
  <2> QED BY <1>0, <2>1, <2>2 DEF Reply, View, AnyPort, PortRange
<1>7. CASE p = Packet(q, d, x, l, b) /\ hook = "postrouting" /\ prio >= 100
  <2>1. InView(p, After(a))
    BY <1>1, <1>2, <1>3, <1>7 DEF InView, After, View, Packet, AnyPort, PortRange
  <2>2. After(a) \in ACLViews(a, hook, prio)
    BY <1>7 DEF ACLViews
  <2> QED BY <1>0, <2>1, <2>2 DEF After, View, AnyPort, PortRange
<1> QED BY <1>4, <1>5, <1>6, <1>7 DEF FlowPackets, t

-----------------------------------------------------------------------------
\* One ruleset.

\* A chain whose policy and rules can only accept drops nothing.
LEMMA CompatibleNeverDrops ==
  ASSUME NEW c, Compatible(c), NEW s
  PROVE  NeverDrops(c, s)
BY DEF Compatible, TransparentAcceptRule, NeverDrops, MayDrop

\* A chain the selective proof accepts for a spec drops no packet of any
\* spec that one covers.
LEMMA ACLAcceptsNeverDrops ==
  ASSUME NEW c, c.prio \in Int, Conflicting(c),
         NEW a \in Specs, NEW q \in Queries, ValidSpec(a), Covers(a, q),
         ACLChainAccepts(c, a)
  PROVE  NeverDrops(c, q)
<1>1. CASE c.policy = "accept"
  <2>1. \A i \in DOMAIN c.rules : c.rules[i].then = "accept"
    BY DEF ACLChainAccepts, ACLRuleSyntax
  <2> QED BY <1>1, <2>1 DEF NeverDrops, MayDrop
<1>2. CASE c.policy # "accept"
  <2>1. /\ \A i \in DOMAIN c.rules : ACLRuleSyntax(c.rules[i], c.family)
        /\ \A v \in ACLViews(a, c.hook, c.prio) : AcceptsView(c, v)
    BY <1>2 DEF ACLChainAccepts
  <2> SUFFICES ASSUME NEW l \in q.lfirst..q.llast, NEW x \in Addrs, NEW b \in Ports,
                      NEW d \in Destinations(q),
                      NEW p \in FlowPackets(q, l, x, b, d, c.hook, c.prio)
               PROVE  ~MayDrop(c, p)
    BY DEF NeverDrops
  <2>2. PICK v \in ACLViews(a, c.hook, c.prio) :
          /\ InView(p, v)
          /\ v.sport.first \in Int /\ v.sport.last \in Int
          /\ v.dport.first \in Int /\ v.dport.last \in Int
    BY ViewsCover
  <2>3. PICK i \in DOMAIN c.rules :
          \A j \in DOMAIN c.rules[i].when : ACLMatchAlways(c.rules[i].when[j], v)
    BY <2>1 DEF AcceptsView
  <2>4. \A j \in DOMAIN c.rules[i].when : ACLMatch(c.rules[i].when[j], c.family)
    BY <2>1 DEF ACLRuleSyntax
  <2>5. RuleApplies(c.rules[i], p)
    BY <2>2, <2>3, <2>4, MatchAlwaysSound DEF RuleApplies
  <2>6. \A j \in DOMAIN c.rules : c.rules[j].then = "accept"
    BY <2>1 DEF ACLRuleSyntax
  <2> QED BY <2>5, <2>6 DEF MayDrop
<1> QED BY <1>1, <1>2

\* nftConflictingHooks finds every chain that an offloaded packet skips.
LEMMA SkippedConflicts ==
  ASSUME NEW k, WellFormed(k), NEW n \in Names, NEW f,
         Skipped(k[n]), f \in FamiliesOf(k[n].family)
  PROVE  n \in Conflicts(k) /\ f \in HookFamilies(k, Conflicts(k))
<1>1. k[n].family \in {"ip", "ip6", "inet"}
  BY DEF FamiliesOf
<1>2. Conflicting(k[n])
  BY <1>1, HookConstants DEF WellFormed, Skipped, Conflicting
<1> QED BY <1>2 DEF Conflicts, HookFamilies

\* A family without conflicting chains has nothing to be harmed.
LEMMA NoConflictHarmless ==
  ASSUME NEW k, WellFormed(k), NEW q, q.fam \notin HookFamilies(k, Conflicts(k))
  PROVE  Harmless(k, q)
BY SkippedConflicts DEF Harmless

\* One pass is right about the ruleset it read.
LEMMA PassSound ==
  ASSUME NEW k, WellFormed(k), NEW q \in Queries,
         \/ q.fam \notin HookFamilies(k, Remaining(k))
         \/ \E a \in Allowed(k) : Covers(a, q)
  PROVE  Harmless(k, q)
<1> SUFFICES ASSUME NEW n \in Names, Skipped(k[n]), q.fam \in FamiliesOf(k[n].family)
             PROVE  NeverDrops(k[n], q)
  BY DEF Harmless
<1>1. n \in Conflicts(k) /\ Conflicting(k[n])
  BY SkippedConflicts DEF Conflicts
<1>2. CASE Compatible(k[n])
  BY <1>2, CompatibleNeverDrops
<1>3. CASE ~Compatible(k[n])
  <2>1. n \in Remaining(k) /\ q.fam \in HookFamilies(k, Remaining(k))
    BY <1>1, <1>3 DEF Remaining, HookFamilies
  <2>2. PICK a \in Allowed(k) : Covers(a, q)
    BY <2>1
  <2>3. n \in Path(k, a)
    BY <1>1, <2>2 DEF Path, OnPath, Conflicting, Covers, FamiliesOf
  <2>4. a \in Specs /\ ValidSpec(a) /\ ACLChainAccepts(k[n], a)
    BY <2>3 DEF Allowed
  <2>5. k[n].prio \in Int
    BY DEF WellFormed
  <2> QED BY <1>1, <2>2, <2>4, <2>5, ACLAcceptsNeverDrops
<1> QED BY <1>2, <1>3

\* Chains with the same descriptors are of the same families.
LEMMA SameKeySameFamilies ==
  ASSUME NEW k1, WellFormed(k1), NEW k2, WellFormed(k2),
         NEW S1 \in SUBSET Names, NEW S2 \in SUBSET Names,
         InventoryKey(k1, S1) = InventoryKey(k2, S2)
  PROVE  HookFamilies(k1, S1) = HookFamilies(k2, S2)
<1>1. \A c, e : "family" \in DOMAIN c /\ "family" \in DOMAIN e /\ Descriptor(c) = Descriptor(e)
                  => c.family = e.family
  BY DEF Descriptor
<1>2. \A n \in S1 : n \in S2 /\ k1[n].family = k2[n].family
  <2> TAKE n \in S1
  <2>1. <<n, Descriptor(k1[n])>> \in InventoryKey(k2, S2)
    BY DEF InventoryKey
  <2>2. PICK e \in S2 : <<n, Descriptor(k1[n])>> = <<e, Descriptor(k2[e])>>
    BY <2>1 DEF InventoryKey
  <2>3. e = n /\ Descriptor(k1[n]) = Descriptor(k2[n])
    BY <2>2
  <2>4. "family" \in DOMAIN k1[n] /\ "family" \in DOMAIN k2[n]
    BY <2>3 DEF WellFormed
  <2> QED BY <1>1, <2>3, <2>4
<1>3. \A n \in S2 : n \in S1 /\ k1[n].family = k2[n].family
  <2> TAKE n \in S2
  <2>1. <<n, Descriptor(k2[n])>> \in InventoryKey(k1, S1)
    BY DEF InventoryKey
  <2>2. PICK e \in S1 : <<n, Descriptor(k2[n])>> = <<e, Descriptor(k1[e])>>
    BY <2>1 DEF InventoryKey
  <2>3. e = n /\ Descriptor(k2[n]) = Descriptor(k1[n])
    BY <2>2
  <2>4. "family" \in DOMAIN k1[n] /\ "family" \in DOMAIN k2[n]
    BY <2>3 DEF WellFormed
  <2> QED BY <1>1, <2>3, <2>4
<1> QED BY <1>2, <1>3 DEF HookFamilies

-----------------------------------------------------------------------------
\* The check.

Reading ==
  /\ WellFormed(kernel) /\ WellFormed(listed) /\ WellFormed(first)
  /\ \A k \in reads : WellFormed(k)
  /\ stage \in {"start", "first", "second", "decided"}
  /\ stage # "decided" => outcome = "none"
  /\ stage \in {"start", "first"} => reads = {}
  /\ stage = "second" =>
       /\ reads = {first}
       /\ InventoryKey(first, Conflicts(first)) = InventoryKey(listed, Conflicts(listed))

HookInv == Reading /\ SoundAdmission

\* The chain after a packet moved the counter of its rule i.
Counted(c, i) == [c EXCEPT !.rules = [c.rules EXCEPT ![i] = [c.rules[i] EXCEPT !.count = 1]]]

\* A counter that moves changes nothing else.
LEMMA CountedKeeps ==
  ASSUME NEW c, NEW i \in DOMAIN c.rules, {"family", "hook", "prio", "type", "own", "rules"} \subseteq DOMAIN c,
         \A j \in DOMAIN c.rules : {"when", "then"} \subseteq DOMAIN c.rules[j]
  PROVE  LET e == Counted(c, i)
         IN  /\ DOMAIN e = DOMAIN c /\ e.family = c.family /\ e.hook = c.hook /\ e.prio = c.prio
             /\ e.type = c.type /\ e.own = c.own /\ Descriptor(e) = Descriptor(c)
             /\ DOMAIN e.rules = DOMAIN c.rules
             /\ \A j \in DOMAIN c.rules : {"when", "then"} \subseteq DOMAIN e.rules[j]
             /\ e.rules[i].then = c.rules[i].then
<1> DEFINE r == [c.rules EXCEPT ![i] = [c.rules[i] EXCEPT !.count = 1]]
           e == [c EXCEPT !.rules = r]
<1>1. /\ DOMAIN r = DOMAIN c.rules /\ r[i].then = c.rules[i].then
      /\ \A j \in DOMAIN c.rules : {"when", "then"} \subseteq DOMAIN r[j]
  OBVIOUS
<1> HIDE DEF r
<1>2. /\ DOMAIN e = DOMAIN c /\ e.family = c.family /\ e.hook = c.hook /\ e.prio = c.prio
      /\ e.type = c.type /\ e.own = c.own /\ e.rules = r
  OBVIOUS
<1>3. Descriptor(e) = Descriptor(c)
  BY DEF Descriptor
<1> QED BY <1>1, <1>2, <1>3 DEF Counted, r

\* Rulesets stay well formed whatever other programs and packets do.
LEMMA NextWellFormed ==
  ASSUME WellFormed(kernel), Next PROVE WellFormed(kernel')
<1> DEFINE Fields == {"family", "hook", "prio", "type", "own", "rules"}
           Whole(c) == /\ Fields \subseteq DOMAIN c /\ c.prio \in Int
                       /\ \A i \in DOMAIN c.rules : {"when", "then"} \subseteq DOMAIN c.rules[i]
<1>0. \A k : WellFormed(k) <=> DOMAIN k = Names /\ \A n \in Names : Whole(k[n])
  BY DEF WellFormed
<1>1. ASSUME NEW n \in Names, ReplaceChain(n) \/ EditRules(n) PROVE WellFormed(kernel')
  <2>1. PICK c, g : c \in Candidates(n) /\ kernel' = [kernel EXCEPT ![n] = Edited(c, g)]
    BY <1>1 DEF ReplaceChain, EditRules
  <2>2. Whole(c)
    BY <2>1, <1>0, RulesetConstants DEF Candidates
  <2>3. Whole(Edited(c, g))
    BY <2>2 DEF Edited
  <2> HIDE DEF Whole
  <2> QED BY <1>0, <2>1, <2>3
<1>2. ASSUME NEW n \in Names, Traffic(n) PROVE WellFormed(kernel')
  <2>1. PICK i \in DOMAIN kernel[n].rules : kernel' = [kernel EXCEPT ![n] = Counted(kernel[n], i)]
    BY <1>2 DEF Traffic, Counted
  <2>2. Whole(kernel[n])
    BY <1>0
  <2>3. Whole(Counted(kernel[n], i))
    BY <2>1, <2>2, CountedKeeps
  <2> HIDE DEF Whole
  <2> QED BY <1>0, <2>1, <2>3
<1>3. CASE Again
  <2>1. DOMAIN kernel' = Names /\ \A n \in Names : kernel'[n] = [kernel[n] EXCEPT !.gen = 0, !.rgen = 0]
    BY <1>3 DEF Again
  <2>2. ASSUME NEW n \in Names PROVE Whole(kernel'[n])
    <3>1. Whole(kernel[n])
      BY <1>0
    <3>2. kernel'[n] = [kernel[n] EXCEPT !.gen = 0, !.rgen = 0]
      BY <2>1
    <3> QED BY <3>1, <3>2
  <2> HIDE DEF Whole
  <2> QED BY <1>0, <2>1, <2>2
<1>4. CASE Check
  BY <1>4 DEF Check, ReadChains, ChainsUnreadable, FirstPass, SecondPass,
              DescriptorsChanged, RulesChanged, PassFails
<1> QED BY <1>1, <1>2, <1>3, <1>4 DEF Next

\* The passes of one check find the chains that were listed.
LEMMA NextReading == Reading /\ [Next]_vars => Reading'
<1> SUFFICES ASSUME Reading, [Next]_vars PROVE Reading'
  OBVIOUS
<1> USE DEF Reading
<1>1. CASE UNCHANGED vars
  BY <1>1 DEF vars
<1>2. ASSUME Next PROVE WellFormed(kernel')
  BY <1>2, NextWellFormed
<1>3. ASSUME NEW n \in Names, ReplaceChain(n) \/ EditRules(n) \/ Traffic(n), WellFormed(kernel')
      PROVE  Reading'
  BY <1>3 DEF ReplaceChain, EditRules, Traffic
<1>4. CASE ReadChains
  BY <1>4 DEF ReadChains, Decide
<1>5. CASE ChainsUnreadable \/ PassFails
  BY <1>5 DEF ChainsUnreadable, PassFails, Decide
<1>6. CASE FirstPass
  BY <1>6 DEF FirstPass, SameInventory
<1>7. CASE SecondPass \/ DescriptorsChanged \/ RulesChanged
  BY <1>7 DEF SecondPass, DescriptorsChanged, RulesChanged, Decide
<1>8. CASE Again /\ WellFormed(kernel')
  BY <1>8 DEF Again
<1> QED BY <1>1, <1>2, <1>3, <1>4, <1>5, <1>6, <1>7, <1>8 DEF Next, Check

\* A decision is right about every ruleset it rests on.
LEMMA NextSound == HookInv /\ [Next]_vars => SoundAdmission'
<1> SUFFICES ASSUME Reading, SoundAdmission, [Next]_vars PROVE SoundAdmission'
  BY DEF HookInv
<1>0. \A q \in Queries : q.fam \in {4, 6}
  BY SpecConstants
<1>1. CASE UNCHANGED <<listed, reads, outcome, refused, permitted>>
  BY <1>1 DEF SoundAdmission, MayOffload, Affects, Evidence
<1>2. CASE outcome' \in {"none", "error"}
  BY <1>2 DEF SoundAdmission, MayOffload
<1>3. CASE ReadChains
  <2>1. CASE Conflicts(kernel) # {}
    <3>1. outcome' = "none"
      BY <1>3, <2>1 DEF ReadChains, Reading
    <3> QED BY <1>2, <3>1
  <2>2. CASE Conflicts(kernel) = {}
    <3>1. Evidence' = {kernel}
      BY <1>3 DEF ReadChains, Reading, Evidence
    <3>2. \A q \in Queries : Harmless(kernel, q)
      BY <2>2, NoConflictHarmless DEF Reading, HookFamilies
    <3> QED BY <3>1, <3>2 DEF SoundAdmission
  <2> QED BY <2>1, <2>2
<1>4. CASE SecondPass
  <2>1. /\ reads' = {first, kernel} /\ Evidence' = {first, kernel}
        /\ ProofKey(kernel) = ProofKey(first)
        /\ refused' = HookFamilies(kernel, Remaining(kernel)) /\ permitted' = Allowed(kernel)
    BY <1>4 DEF SecondPass, Decide, Reading, Evidence
  <2>2. /\ InventoryKey(kernel, Remaining(kernel)) = InventoryKey(first, Remaining(first))
        /\ Allowed(kernel) = Allowed(first)
    BY <2>1 DEF ProofKey
  <2>3. HookFamilies(kernel, Remaining(kernel)) = HookFamilies(first, Remaining(first))
    <3>1. Remaining(kernel) \subseteq Names /\ Remaining(first) \subseteq Names
      BY DEF Remaining, Conflicts
    <3> QED BY <2>2, <3>1, SameKeySameFamilies DEF Reading
  <2>4. ASSUME NEW q \in Queries, MayOffload(q)', NEW k \in {first, kernel}
        PROVE  Harmless(k, q)
    <3>1. \/ q.fam \notin HookFamilies(k, Remaining(k))
          \/ \E a \in Allowed(k) : Covers(a, q)
      BY <2>1, <2>2, <2>3, <2>4 DEF MayOffload, Affects
    <3>2. WellFormed(k)
      BY DEF Reading
    <3> QED BY <3>1, <3>2, PassSound
  <2> QED BY <2>1, <2>4 DEF SoundAdmission
<1>5. CASE DescriptorsChanged \/ RulesChanged
  <2>1. /\ reads' \subseteq {first, kernel} /\ Evidence' \subseteq {first, kernel}
        /\ permitted' = {} /\ HookFamilies(listed, Conflicts(listed)) \subseteq refused'
    BY <1>5 DEF DescriptorsChanged, RulesChanged, Decide, Reading, Evidence
  <2>2. HookFamilies(kernel, Conflicts(kernel)) \subseteq refused'
    <3>1. CASE DescriptorsChanged
      BY <3>1 DEF DescriptorsChanged, Decide
    <3>2. CASE RulesChanged
      <4>1. InventoryKey(kernel, Conflicts(kernel)) = InventoryKey(listed, Conflicts(listed))
        BY <3>2 DEF RulesChanged, SameInventory
      <4>2. Conflicts(kernel) \subseteq Names /\ Conflicts(listed) \subseteq Names
        BY DEF Conflicts
      <4> QED BY <2>1, <4>1, <4>2, SameKeySameFamilies DEF Reading
    <3> QED BY <1>5, <3>1, <3>2
  <2>3. first \in Evidence' => HookFamilies(first, Conflicts(first)) \subseteq refused' \/ first = kernel
    <3>1. CASE stage = "second"
      <4>1. Conflicts(first) \subseteq Names /\ Conflicts(listed) \subseteq Names
        BY DEF Conflicts
      <4> QED BY <2>1, <3>1, <4>1, SameKeySameFamilies DEF Reading
    <3>2. CASE stage = "first"
      <4>1. Evidence' = {kernel}
        BY <1>5, <3>2 DEF DescriptorsChanged, RulesChanged, Reading, Evidence
      <4> QED BY <4>1
    <3> QED BY <1>5, <3>1, <3>2 DEF DescriptorsChanged, RulesChanged
  <2>4. ASSUME NEW q \in Queries, MayOffload(q)', NEW k \in Evidence'
        PROVE  Harmless(k, q)
    <3>1. q.fam \notin HookFamilies(k, Conflicts(k))
      BY <2>1, <2>2, <2>3, <2>4 DEF MayOffload, Affects
    <3>2. WellFormed(k)
      BY <2>1 DEF Reading
    <3> QED BY <3>1, <3>2, NoConflictHarmless
  <2> QED BY <2>4 DEF SoundAdmission
<1>6. CASE PassFails
  <2>1. permitted' = {} /\ {4, 6} \subseteq refused'
    BY <1>6 DEF PassFails, Decide
  <2> QED BY <1>0, <2>1 DEF SoundAdmission, MayOffload, Affects
<1>7. Next => \/ UNCHANGED <<listed, reads, outcome, refused, permitted>>
              \/ outcome' \in {"none", "error"}
              \/ ReadChains \/ SecondPass \/ DescriptorsChanged \/ RulesChanged \/ PassFails
  BY DEF Next, Check, ReplaceChain, EditRules, Traffic, Again, ChainsUnreadable, FirstPass,
         Decide, Reading
<1> QED BY <1>1, <1>2, <1>3, <1>4, <1>5, <1>6, <1>7 DEF vars

\* checkAdmissionFor lets a path be offloaded only when no chain of another
\* program that its flows would skip can drop one of their packets, in any
\* ruleset the check has read.
THEOREM AlwaysSoundAdmission == HookSpec => []SoundAdmission
<1>1. Init => HookInv
  BY RulesetConstants DEF Init, HookInv, Reading, SoundAdmission, MayOffload
<1>2. HookInv /\ [Next]_vars => HookInv'
  BY NextReading, NextSound DEF HookInv
<1>3. HookInv => SoundAdmission
  BY DEF HookInv
<1> QED BY <1>1, <1>2, <1>3, PTL DEF HookSpec

\* The check is always in one of its stages, refuses real families only and
\* permits only specs it was made for.
THEOREM TypeAlwaysCorrect == HookSpec => []TypeOK
<1>1. Init => TypeOK
  BY HookConstants DEF Init, TypeOK
<1>2. TypeOK /\ [Next]_vars => TypeOK'
  <2> SUFFICES ASSUME TypeOK, [Next]_vars PROVE TypeOK'
    OBVIOUS
  <2> USE DEF TypeOK
  <2>0. \A k : /\ HookFamilies(k, Conflicts(k)) \subseteq {4, 6}
               /\ HookFamilies(k, Remaining(k)) \subseteq {4, 6}
               /\ Allowed(k) \subseteq Specs
    <3>1. \A family : FamiliesOf(family) \subseteq {4, 6}
      BY DEF FamiliesOf
    <3> QED BY <3>1 DEF HookFamilies, Allowed
  <2>1. CASE UNCHANGED vars
    BY <2>1 DEF vars
  <2>2. ASSUME NEW n \in Names, ReplaceChain(n) \/ EditRules(n) PROVE TypeOK'
    <3>1. /\ edits < MaxEdits /\ edits' = edits + 1
          /\ UNCHANGED <<stage, listed, first, reads, outcome, refused, permitted, proofErr>>
      BY <2>2 DEF ReplaceChain, EditRules
    <3>2. edits' \in 0..MaxEdits
      BY <3>1, HookConstants
    <3> QED BY <3>1, <3>2
  <2>3. ASSUME NEW n \in Names, Traffic(n) PROVE TypeOK'
    BY <2>3 DEF Traffic
  <2>4. CASE ReadChains \/ ChainsUnreadable \/ FirstPass
    BY <2>4 DEF ReadChains, ChainsUnreadable, FirstPass, Decide
  <2>5. CASE SecondPass
    <3>1. stage' = "decided" /\ outcome' \in {"clear", "limited"}
      BY <2>5 DEF SecondPass, Decide
    <3>2. /\ refused' = HookFamilies(kernel, Remaining(kernel)) /\ permitted' = Allowed(kernel)
          /\ proofErr' = "none" /\ UNCHANGED edits
      BY <2>5 DEF SecondPass, Decide
    <3> QED BY <2>0, <3>1, <3>2
  <2>6. CASE DescriptorsChanged \/ RulesChanged \/ PassFails
    BY <2>0, <2>6 DEF DescriptorsChanged, RulesChanged, PassFails, Decide
  <2>7. CASE Again
    <3>1. /\ stage' = "start" /\ reads' = {} /\ outcome' = "none" /\ refused' = {}
          /\ permitted' = {} /\ proofErr' = "none" /\ edits' = 0
      BY <2>7 DEF Again
    <3>2. 0 \in 0..MaxEdits
      BY HookConstants
    <3> QED BY <3>1, <3>2
  <2> QED BY <2>1, <2>2, <2>3, <2>4, <2>5, <2>6, <2>7 DEF Next, Check
<1> QED BY <1>1, <1>2, PTL DEF HookSpec

-----------------------------------------------------------------------------
\* Counters.

\* The same chain but for the counters of rules outside the grammar.
Twins(c, e) ==
  \/ c = e
  \/ /\ c.family = e.family /\ c.hook = e.hook /\ c.prio = e.prio /\ c.type = e.type /\ c.own = e.own
     /\ Descriptor(c) = Descriptor(e)
     /\ \E i \in DOMAIN c.rules : c.rules[i].then = "other"
     /\ \E i \in DOMAIN e.rules : e.rules[i].then = "other"

\* Until another program edits the ruleset, the kernel's chains are those that
\* were listed and those that the first pass read, but for their counters.
CountInv ==
  /\ edits = 0 => /\ proofErr # "changed"
                  /\ \A n \in Names : Twins(listed[n], kernel[n])
                  /\ stage = "second" => \A n \in Names : Twins(first[n], kernel[n])
  /\ edits \in Nat

\* A rule outside the grammar keeps its chain out of both proofs.
LEMMA OtherIsUnproved ==
  ASSUME NEW c, NEW i \in DOMAIN c.rules, c.rules[i].then = "other"
  PROVE  ~Compatible(c) /\ \A s : ~ACLChainAccepts(c, s)
<1>1. c.rules # <<>>
  OBVIOUS
<1> QED BY <1>1 DEF Compatible, TransparentAcceptRule, ACLChainAccepts, ACLRuleSyntax

\* What the two passes compare does not depend on counters.
LEMMA CountersKeepKeys ==
  ASSUME NEW k1, NEW k2, \A n \in Names : Twins(k1[n], k2[n])
  PROVE  /\ InventoryKey(k1, Conflicts(k1)) = InventoryKey(k2, Conflicts(k2))
         /\ ProofKey(k1) = ProofKey(k2)
<1>1. \A n \in Names : /\ Conflicting(k1[n]) <=> Conflicting(k2[n])
                       /\ Descriptor(k1[n]) = Descriptor(k2[n])
                       /\ k1[n].family = k2[n].family
                       /\ \A f : OnPath(k1[n], f) <=> OnPath(k2[n], f)
  BY DEF Twins, Conflicting, OnPath
<1>2. \A n \in Names : k1[n] = k2[n] \/ /\ ~Compatible(k1[n]) /\ ~Compatible(k2[n])
                                        /\ \A s : ~ACLChainAccepts(k1[n], s) /\ ~ACLChainAccepts(k2[n], s)
  BY OtherIsUnproved DEF Twins
<1>3. Conflicts(k1) = Conflicts(k2)
  BY <1>1 DEF Conflicts
<1>4. Remaining(k1) = Remaining(k2)
  BY <1>2, <1>3 DEF Remaining, Conflicts
<1>5. \A S \in SUBSET Names : /\ InventoryKey(k1, S) = InventoryKey(k2, S)
                              /\ HookFamilies(k1, S) = HookFamilies(k2, S)
  BY <1>1 DEF InventoryKey, HookFamilies
<1>6. \A S \in SUBSET Names : (\A n \in S : k1[n] = k2[n]) => FullKey(k1, S) = FullKey(k2, S)
  BY DEF FullKey
<1>7. Conflicts(k1) \in SUBSET Names /\ Remaining(k1) \in SUBSET Names
  BY DEF Conflicts, Remaining
<1>8. \A s : Path(k1, s) = Path(k2, s)
  BY <1>1 DEF Path
<1>9. \A s : \A n \in Path(k1, s) : ACLChainAccepts(k1[n], s) <=> ACLChainAccepts(k2[n], s)
  BY <1>2 DEF Path
<1>10. Allowed(k1) = Allowed(k2)
  <2>1. HookFamilies(k1, Remaining(k1)) = HookFamilies(k2, Remaining(k2))
    BY <1>4, <1>5, <1>7
  <2>2. \A s : \A n \in Path(k1, s) : k1[n].family = k2[n].family
    BY <1>1 DEF Path
  <2>3. \A s \in Specs :
          (\A n \in Path(k1, s) : k1[n].family \in {"ip", "ip6", "inet"} /\ ACLChainAccepts(k1[n], s))
          <=> (\A n \in Path(k2, s) : k2[n].family \in {"ip", "ip6", "inet"} /\ ACLChainAccepts(k2[n], s))
    BY <1>8, <1>9, <2>2
  <2> QED BY <2>1, <2>3 DEF Allowed
<1>11. FullKey(k1, Conflicts(k1) \ Remaining(k1)) = FullKey(k2, Conflicts(k2) \ Remaining(k2))
  <2>1. \A n \in Conflicts(k1) \ Remaining(k1) : k1[n] = k2[n]
    BY <1>2 DEF Remaining, Conflicts
  <2> QED BY <1>3, <1>4, <1>6, <1>7, <2>1
<1> DEFINE P(k) == UNION {Path(k, s) : s \in Allowed(k)}
<1>12. FullKey(k1, P(k1)) = FullKey(k2, P(k2))
  <2>1. P(k1) = P(k2)
    BY <1>8, <1>10
  <2>2. P(k1) \in SUBSET Names
    BY DEF Path
  <2>3. \A n \in P(k1) : k1[n] = k2[n]
    BY <1>2, <2>2 DEF Allowed
  <2> HIDE DEF P
  <2> QED BY <1>6, <2>1, <2>2, <2>3
<1> QED BY <1>3, <1>4, <1>5, <1>7, <1>10, <1>11, <1>12 DEF ProofKey

\* Packets keep the kernel's chains twins of what was read.
LEMMA NextCounts == WellFormed(kernel) /\ CountInv /\ [Next]_vars => CountInv'
<1> SUFFICES ASSUME WellFormed(kernel), CountInv, [Next]_vars PROVE CountInv'
  OBVIOUS
<1>0. \A c : Twins(c, c)
  BY DEF Twins
<1>1. CASE UNCHANGED vars
  BY <1>1 DEF vars, CountInv
<1>2. ASSUME NEW n \in Names, ReplaceChain(n) \/ EditRules(n) PROVE CountInv'
  <2>1. edits' = edits + 1 /\ edits \in Nat
    BY <1>2 DEF ReplaceChain, EditRules, CountInv
  <2>2. edits' \in Nat /\ edits' # 0
    BY <2>1
  <2> QED BY <2>2 DEF CountInv
<1>3. ASSUME NEW n \in Names, Traffic(n) PROVE CountInv'
  <2>1. PICK i \in DOMAIN kernel[n].rules :
          kernel[n].rules[i].then = "other" /\ kernel' = [kernel EXCEPT ![n] = Counted(kernel[n], i)]
    BY <1>3 DEF Traffic, Counted
  <2> DEFINE c == kernel[n]
             e == Counted(c, i)
  <2>2. DOMAIN kernel = Names /\ kernel'[n] = e /\ \A m \in Names \ {n} : kernel'[m] = kernel[m]
    BY <2>1 DEF WellFormed
  <2>3. /\ e.family = c.family /\ e.hook = c.hook /\ e.prio = c.prio /\ e.type = c.type /\ e.own = c.own
        /\ Descriptor(e) = Descriptor(c) /\ i \in DOMAIN e.rules /\ e.rules[i].then = "other"
    BY <2>1, CountedKeeps DEF WellFormed
  <2> HIDE DEF e
  <2>4. \A b : Twins(b, c) => Twins(b, e)
    BY <2>1, <2>3 DEF Twins
  <2>5. UNCHANGED <<stage, listed, first, proofErr, edits>>
    BY <1>3 DEF Traffic
  <2> QED BY <2>2, <2>4, <2>5 DEF CountInv
<1>4. CASE ReadChains
  BY <1>0, <1>4 DEF ReadChains, Decide, CountInv
<1>5. CASE ChainsUnreadable \/ PassFails
  BY <1>5 DEF ChainsUnreadable, PassFails, Decide, CountInv
<1>6. CASE FirstPass
  BY <1>0, <1>6 DEF FirstPass, CountInv
<1>7. CASE SecondPass
  <2>1. stage' = "decided" /\ proofErr' = "none" /\ UNCHANGED <<kernel, listed, edits>>
    BY <1>7 DEF SecondPass, Decide
  <2> QED BY <2>1 DEF CountInv
<1>8. CASE DescriptorsChanged \/ RulesChanged
  <2>1. edits # 0
    <3>1. CASE DescriptorsChanged
      BY <3>1, CountersKeepKeys DEF DescriptorsChanged, SameInventory, CountInv
    <3>2. CASE RulesChanged
      BY <3>2, CountersKeepKeys DEF RulesChanged, CountInv
    <3> QED BY <1>8, <3>1, <3>2
  <2>2. edits' = edits
    BY <1>8 DEF DescriptorsChanged, RulesChanged
  <2> QED BY <2>1, <2>2 DEF CountInv
<1>9. CASE Again
  BY <1>0, <1>9 DEF Again, CountInv
<1> QED BY <1>1, <1>2, <1>3, <1>4, <1>5, <1>6, <1>7, <1>8, <1>9 DEF Next, Check

\* Two passes disagree, or the inventory differs from the list, only when
\* another program edited the ruleset during the check: the counters that
\* nftProofInventoryKey leaves out never refuse an offload.
THEOREM CountersNeverAChange == HookSpec => []CountersAreNoChange
<1> DEFINE Inv == WellFormed(kernel) /\ CountInv
<1>1. Init => Inv
  BY RulesetConstants DEF Init, CountInv, Twins
<1>2. Inv /\ [Next]_vars => Inv'
  BY NextWellFormed, NextCounts DEF vars
<1>3. Inv => CountersAreNoChange
  BY DEF CountInv, CountersAreNoChange
<1> QED BY <1>1, <1>2, <1>3, PTL DEF HookSpec

=============================================================================

----------------------------- MODULE HookAdmission -----------------------------
(***************************************************************************)
(* The external-hook proof of PortBridge (internal/proxy/nft_firewall.go,  *)
(* nft_empty_hooks_linux.go, nft_transparent_accept_linux.go,              *)
(* nft_selective_acl_linux.go).  An offloaded flow skips the chains other  *)
(* programs hooked behind PortBridge's own, so a path may only be          *)
(* offloaded when those chains would have accepted every packet of it.     *)
(* One check reads the list of chains, and if some are in the way, the     *)
(* whole ruleset twice, while the other programs keep editing it and       *)
(* traffic moves its counters.                                             *)
(*                                                                         *)
(* Data abstraction.  A chain is its descriptor and the sequence of its    *)
(* rules.  A rule is a conjunction of matches and an accept, or "other":   *)
(* any drop, jump, set, statement or attribute outside the grammar, with   *)
(* the counter it may carry.  `gen' stands for the handle of a chain and   *)
(* `rgen' for those of its rules: the kernel gives new ones to whatever is *)
(* added.  Ranges and numbers are kept, JSON is not: an inventory that     *)
(* cannot be decoded, that holds an object outside the grammar or a        *)
(* duplicate identity, that exceeds the work limit, or a namespace that    *)
(* cannot be verified, is the action PassFails.                            *)
(***************************************************************************)
EXTENDS Integers, Sequences

CONSTANTS
  Names,            \* names of chains, with family and table
  Rulesets,         \* the rulesets other programs may have set up
  Specs,            \* the specs the check is made for
  Queries,          \* the specs its result is asked about
  Addrs4, Addrs6,   \* addresses
  NoAddr,           \* netip.Addr{}: an address the proof knows nothing about
  AnyHost,          \* the unspecified address of a wildcard listener
  MaxPort,          \* 65535
  ForwardPriority,  \* nftForwardPriority: where PortBridge's own chain sits
  MaxMatches,       \* nftTransparentMaxMatches
  MaxEdits          \* bound: edits of the ruleset during one check

Ports == 0..MaxPort
Addrs == Addrs4 \cup Addrs6

ASSUME HookConstants ==
  /\ MaxPort \in Nat /\ ForwardPriority \in Int /\ MaxMatches \in Nat /\ MaxEdits \in Nat
  /\ NoAddr \notin Addrs /\ AnyHost \in Addrs
  /\ Addrs4 \cap Addrs6 = {}

\* What the proof needs of a spec: its ports are numbers and its length fits.
ASSUME SpecConstants ==
  \A s \in Specs \cup Queries :
    /\ s.fam \in {4, 6} /\ s.proto \in {"tcp", "udp"} /\ s.flow \in BOOLEAN
    /\ s.listen \in Addrs /\ s.target \in Addrs
    /\ s.lfirst \in Ports /\ s.llast \in Ports /\ s.tfirst \in Ports /\ s.tlast \in Ports

\* A ruleset gives every chain its fields, a numeric priority among them, and
\* every rule its matches and what it does.
WellFormed(k) ==
  /\ DOMAIN k = Names
  /\ \A n \in Names :
       /\ {"family", "hook", "prio", "type", "own", "rules"} \subseteq DOMAIN k[n] /\ k[n].prio \in Int
       /\ \A i \in DOMAIN k[n].rules : {"when", "then"} \subseteq DOMAIN k[n].rules[i]

ASSUME RulesetConstants == \A k \in Rulesets : WellFormed(k)

VARIABLES
  kernel,    \* kernel[n]: the chain n of the ruleset
  stage,     \* where the running check is
  listed,    \* the ruleset when Chains was read
  first,     \* the ruleset the first pass read; the code keeps its key
  reads,     \* history: the rulesets the passes have read so far
  outcome,   \* "none", "clear", "limited" (nftAdmissionError) or "error"
  refused,   \* nftAdmissionError.families
  permitted, \* nftAdmissionError.permitted
  proofErr,  \* why the narrowing proof failed: "none", "failed" or "changed"
  edits      \* edits since the check began

vars == <<kernel, stage, listed, first, reads, outcome, refused, permitted, proofErr, edits>>

-----------------------------------------------------------------------------
(***************************************************************************)
(* The grammar of the two proofs.                                          *)
(***************************************************************************)

\* How meta nfproto and meta l4proto are written: a symbol or the UAPI number.
NFProtoNames(family) == IF family = 6 THEN {"ipv6", "10"} ELSE {"ipv4", "2"}
L4ProtoNames(protocol) == IF protocol = "udp" THEN {"udp", "17"} ELSE {"tcp", "6"}

\* nftTransparentSelector and nftTransparentConstant: what may be compared
\* with what in a chain of the given family.
TransparentMatch(m, family) ==
  \/ /\ m.sel \in {"sport", "dport"} /\ m.of \in {"tcp", "udp"}
     /\ m.op \in {"==", "!=", "<", "<=", ">", ">="} /\ m.val \in Ports
  \/ /\ m.op \in {"==", "!="}
     /\ \/ m.sel = "nfproto" /\ m.val \in NFProtoNames(4) \cup NFProtoNames(6)
        \/ m.sel = "l4proto" /\ m.val \in L4ProtoNames("tcp") \cup L4ProtoNames("udp")
        \/ m.sel \in {"saddr", "daddr"} /\ m.of = "ip" /\ family # "ip6" /\ m.val \in Addrs4
        \/ m.sel \in {"saddr", "daddr"} /\ m.of = "ip6" /\ family # "ip" /\ m.val \in Addrs6

\* nftACLRuleSyntax also lets a rule name another IP protocol.
ACLMatch(m, family) ==
  \/ TransparentMatch(m, family)
  \/ m.sel = "l4proto" /\ m.op \in {"==", "!="} /\ m.val \in {"icmp", "ipv6-icmp", "1", "58"}

\* nftTransparentAcceptRule
TransparentAcceptRule(r, family) ==
  /\ family \in {"ip", "ip6", "inet"}
  /\ r.then = "accept" /\ Len(r.when) <= MaxMatches
  /\ \A i \in DOMAIN r.when : TransparentMatch(r.when[i], family)

ACLRuleSyntax(r, family) ==
  /\ family \in {"ip", "ip6", "inet"}
  /\ r.then = "accept" /\ Len(r.when) <= MaxMatches
  /\ \A i \in DOMAIN r.when : ACLMatch(r.when[i], family)

-----------------------------------------------------------------------------
(***************************************************************************)
(* Chains in the way.                                                      *)
(***************************************************************************)

\* The numeric families a chain's family stands for.
FamiliesOf(family) == CASE family = "ip" -> {4} [] family = "ip6" -> {6}
                        [] family = "inet" -> {4, 6} [] OTHER -> {}

\* nftConflictingHooks: a chain that an offloaded packet would skip.
Conflicting(c) ==
  /\ c.family \in {"inet", "ip", "ip6"} /\ ~c.own
  /\ \/ c.hook = "forward" /\ c.prio >= ForwardPriority
     \/ c.hook = "postrouting" /\ c.type # "nat"

Conflicts(k) == {n \in Names : Conflicting(k[n])}

\* nftHookFamilies
HookFamilies(k, S) == UNION {FamiliesOf(k[n].family) : n \in S}

\* The descriptor of a chain in the inventory; the rules are objects of their own.
Descriptor(c) == [c EXCEPT !.rules = <<>>, !.rgen = 0]

\* nftProofInventoryKey of some chains without their rules.
InventoryKey(k, S) == {<<n, Descriptor(k[n])>> : n \in S}

\* The same with their rules: nftCompatibleHookKey.
FullKey(k, S) == {<<n, k[n]>> : n \in S}

\* nftProvablyCompatibleHooks: nothing in the chain can do anything but accept.
Compatible(c) ==
  /\ c.plain /\ c.policy = "accept" /\ c.type = "filter" /\ c.hook \in {"forward", "postrouting"}
  /\ \A i \in DOMAIN c.rules : TransparentAcceptRule(c.rules[i], c.family)

\* The conflicts that stay in the way.
Remaining(k) == {n \in Conflicts(k) : ~Compatible(k[n])}

-----------------------------------------------------------------------------
(***************************************************************************)
(* The selective proof: every packet of one spec's flows is accepted.      *)
(***************************************************************************)

PortRange(lo, hi) == [first |-> lo, last |-> hi]
AnyPort == PortRange(0, MaxPort)
View(s, src, dst, sport, dport) ==
  [fam |-> s.fam, proto |-> s.proto, src |-> src, dst |-> dst, sport |-> sport, dport |-> dport]

\* The address of a wildcard listener is not known.
ListenAddr(s) == IF s.listen = AnyHost THEN NoAddr ELSE s.listen

Original(s) == View(s, NoAddr, s.target, AnyPort, PortRange(s.tfirst, s.tlast))
Reply(s)    == View(s, s.target, NoAddr, PortRange(s.tfirst, s.tlast), AnyPort)
Before(s)   == View(s, NoAddr, ListenAddr(s), AnyPort, PortRange(s.lfirst, s.llast))
After(s)    == View(s, ListenAddr(s), NoAddr, PortRange(s.lfirst, s.llast), AnyPort)

\* Mutant: at the priority of the NAT hook only one order is considered.
ACLViewsOneOrder(s, hook, prio) ==
  CASE hook = "prerouting" /\ prio <= -100 -> {Before(s), Reply(s)}
    [] hook = "postrouting" /\ prio >= 100 -> {Original(s), After(s)}
    [] OTHER -> {Original(s), Reply(s)}

\* nftACLViews: what the packets of both directions look like at a hook.
ACLViews(s, hook, prio) ==
  CASE hook = "prerouting" /\ prio < -100 -> {Before(s), Reply(s)}
    [] hook = "prerouting" /\ prio = -100 -> {Before(s), Original(s), Reply(s)}
    [] hook = "postrouting" /\ prio > 100 -> {Original(s), After(s)}
    [] hook = "postrouting" /\ prio = 100 -> {Original(s), Reply(s), After(s)}
    [] OTHER -> {Original(s), Reply(s)}

\* nftACLPortAlways: the comparison holds for every port of the range.
ACLPortAlways(d, op, value) ==
  CASE op = "==" -> d.first = value /\ d.last = value
    [] op = "!=" -> value < d.first \/ value > d.last
    [] op = "<"  -> d.last < value
    [] op = "<=" -> d.last <= value
    [] op = ">"  -> d.first > value
    [] op = ">=" -> d.first >= value
    [] OTHER -> FALSE

Holds(op, equal) == IF op = "!=" THEN ~equal ELSE equal

\* nftACLMatchAlways: every packet of the view satisfies the match.
ACLMatchAlways(m, v) ==
  \/ m.sel = "nfproto" /\ Holds(m.op, m.val \in NFProtoNames(v.fam))
  \/ m.sel = "l4proto" /\ Holds(m.op, m.val \in L4ProtoNames(v.proto))
  \/ /\ m.sel \in {"sport", "dport"} /\ m.of = v.proto
     /\ ACLPortAlways(IF m.sel = "sport" THEN v.sport ELSE v.dport, m.op, m.val)
  \/ /\ m.sel \in {"saddr", "daddr"} /\ m.of = (IF v.fam = 4 THEN "ip" ELSE "ip6")
     /\ LET address == IF m.sel = "saddr" THEN v.src ELSE v.dst
        IN  address # NoAddr /\ Holds(m.op, address = m.val)

\* Some rule accepts the whole view; no rule of the chain does anything else.
AcceptsView(c, v) ==
  \E i \in DOMAIN c.rules : \A j \in DOMAIN c.rules[i].when : ACLMatchAlways(c.rules[i].when[j], v)

\* nftACLChainAccepts
ACLChainAccepts(c, s) ==
  /\ c.plain
  /\ IF c.type = "filter" /\ c.hook \in {"prerouting", "forward", "postrouting"}
       THEN /\ c.policy \in {"accept", "drop"}
            /\ \A i \in DOMAIN c.rules : ACLRuleSyntax(c.rules[i], c.family)
            /\ c.policy = "accept" \/ \A v \in ACLViews(s, c.hook, c.prio) : AcceptsView(c, v)
       ELSE c.rules = <<>> /\ c.policy = "accept"

\* The chains of others that a flow of this family may meet.  A family whose
\* translation is not modelled counts for every spec.
OnPath(c, family) ==
  /\ c.hook \notin {"absent", "none", "input", "output"} /\ ~c.own
  /\ c.family \in {"ip", "ip6"} => family \in FamiliesOf(c.family)

Path(k, s) == {n \in Names : OnPath(k[n], s.fam)}

\* validateRetirementSpec
ValidSpec(s) ==
  /\ s.lfirst >= 1 /\ s.llast >= s.lfirst /\ s.tfirst >= 1 /\ s.tlast >= s.tfirst
  /\ s.llast - s.lfirst = s.tlast - s.tfirst

\* nftProveSelectiveScopes
Allowed(k) ==
  {s \in Specs :
     /\ s.flow /\ s.fam \in HookFamilies(k, Remaining(k)) /\ ValidSpec(s)
     /\ \A n \in Path(k, s) : /\ k[n].family \in {"ip", "ip6", "inet"}
                              /\ ACLChainAccepts(k[n], s)}

\* Mutant: the packet counters of the unproved chains are part of the key.
ProofKeyWithCounters(k) ==
  <<FullKey(k, Remaining(k)), FullKey(k, Conflicts(k) \ Remaining(k)), Allowed(k),
    FullKey(k, UNION {Path(k, s) : s \in Allowed(k)})>>

\* The key the two passes must agree on: whatever the result rests on.
ProofKey(k) ==
  <<InventoryKey(k, Remaining(k)), FullKey(k, Conflicts(k) \ Remaining(k)), Allowed(k),
    FullKey(k, UNION {Path(k, s) : s \in Allowed(k)})>>

-----------------------------------------------------------------------------
(***************************************************************************)
(* The check.                                                              *)
(***************************************************************************)

Init ==
  /\ kernel \in Rulesets
  /\ stage = "start" /\ listed = kernel /\ first = kernel /\ reads = {}
  /\ outcome = "none" /\ refused = {} /\ permitted = {} /\ proofErr = "none" /\ edits = 0

\* What another program may turn chain n into.
Candidates(n) == {k[n] : k \in Rulesets}

\* The kernel's chain n after an edit that keeps the chain's handle or not.
Edited(c, gen) == [c EXCEPT !.gen = gen, !.rgen = IF c.rules = <<>> THEN 0 ELSE edits + 1]

\* Another program adds, deletes or replaces a chain.
ReplaceChain(n) ==
  /\ edits < MaxEdits /\ edits' = edits + 1
  /\ \E c \in Candidates(n) : kernel' = [kernel EXCEPT ![n] = Edited(c, edits + 1)]
  /\ UNCHANGED <<stage, listed, first, reads, outcome, refused, permitted, proofErr>>

\* Another program edits the rules of a chain, or its policy.
EditRules(n) ==
  /\ edits < MaxEdits /\ edits' = edits + 1
  /\ \E c \in Candidates(n) :
       /\ c.hook = kernel[n].hook /\ c.prio = kernel[n].prio
       /\ c.family = kernel[n].family /\ c.type = kernel[n].type /\ c.plain = kernel[n].plain
       /\ kernel' = [kernel EXCEPT ![n] = Edited(c, kernel[n].gen)]
  /\ UNCHANGED <<stage, listed, first, reads, outcome, refused, permitted, proofErr>>

\* Packets move the counter of a rule outside the grammar, PortBridge's own
\* rules included.
Traffic(n) ==
  /\ \E i \in DOMAIN kernel[n].rules :
       /\ kernel[n].rules[i].then = "other" /\ kernel[n].rules[i].count = 0
       /\ kernel' = [kernel EXCEPT ![n].rules[i].count = 1]
  /\ UNCHANGED <<stage, listed, first, reads, outcome, refused, permitted, proofErr, edits>>

Decide(result, families, specs, why) ==
  /\ stage' = "decided" /\ outcome' = result
  /\ refused' = families /\ permitted' = specs /\ proofErr' = why

\* Chains, then nftConflictingHooks: nothing in the way, nothing to prove.
ReadChains ==
  /\ stage = "start" /\ listed' = kernel
  /\ IF Conflicts(kernel) = {}
       THEN Decide("clear", {}, {}, "none")
       ELSE stage' = "first" /\ UNCHANGED <<outcome, refused, permitted, proofErr>>
  /\ UNCHANGED <<kernel, first, reads, edits>>

\* The list cannot be read, or a descriptor is incomplete.
ChainsUnreadable ==
  /\ stage = "start" /\ Decide("error", {}, {}, "none")
  /\ UNCHANGED <<kernel, listed, first, reads, edits>>

SameInventory == InventoryKey(kernel, Conflicts(kernel)) = InventoryKey(listed, Conflicts(listed))

FirstPass ==
  /\ stage = "first" /\ SameInventory
  /\ first' = kernel /\ reads' = {kernel} /\ stage' = "second"
  /\ UNCHANGED <<kernel, listed, outcome, refused, permitted, proofErr, edits>>

\* The second pass agrees with the first.
SecondPass ==
  /\ stage = "second" /\ SameInventory /\ ProofKey(kernel) = ProofKey(first)
  /\ reads' = reads \cup {kernel}
  /\ LET families == HookFamilies(kernel, Remaining(kernel))
     IN  Decide(IF families = {} THEN "clear" ELSE "limited", families, Allowed(kernel), "none")
  /\ UNCHANGED <<kernel, listed, first, edits>>

\* A chain appeared, went away or was replaced since it was listed.
DescriptorsChanged ==
  /\ stage \in {"first", "second"} /\ ~SameInventory
  /\ reads' = reads \cup {kernel}
  /\ Decide("limited", HookFamilies(listed, Conflicts(listed)) \cup HookFamilies(kernel, Conflicts(kernel)),
            {}, "changed")
  /\ UNCHANGED <<kernel, listed, first, edits>>

\* Mutant: the second pass is repeated until it agrees with the first.
RulesChangedRetries ==
  /\ stage = "second" /\ SameInventory /\ ProofKey(kernel) # ProofKey(first)
  /\ reads' = reads \cup {kernel}
  /\ UNCHANGED <<kernel, stage, listed, first, outcome, refused, permitted, proofErr, edits>>

\* What the two passes would rest on is not the same.
RulesChanged ==
  /\ stage = "second" /\ SameInventory /\ ProofKey(kernel) # ProofKey(first)
  /\ reads' = reads \cup {kernel}
  /\ Decide("limited", HookFamilies(listed, Conflicts(listed)), {}, "changed")
  /\ UNCHANGED <<kernel, listed, first, edits>>

\* A pass ends in an error: both families are refused.
PassFails ==
  /\ stage \in {"first", "second"}
  /\ Decide("limited", HookFamilies(listed, Conflicts(listed)) \cup {4, 6}, {}, "failed")
  /\ UNCHANGED <<kernel, listed, first, reads, edits>>

\* The next check starts with nothing remembered.
Again ==
  /\ stage = "decided"
  /\ kernel' = [n \in Names |-> [kernel[n] EXCEPT !.gen = 0, !.rgen = 0]]
  /\ stage' = "start" /\ listed' = kernel' /\ first' = kernel' /\ reads' = {}
  /\ outcome' = "none" /\ refused' = {} /\ permitted' = {} /\ proofErr' = "none" /\ edits' = 0

Check == \/ ReadChains \/ ChainsUnreadable \/ FirstPass \/ SecondPass
         \/ DescriptorsChanged \/ RulesChanged \/ PassFails

Next == Check \/ Again \/ \E n \in Names : ReplaceChain(n) \/ EditRules(n) \/ Traffic(n)

HookSpec == Init /\ [][Next]_vars

\* nftSelectiveScopeCovers: the query is a part of the allowed spec.
Covers(a, q) ==
  /\ a.flow /\ a.id = q.id /\ a.fam = q.fam /\ a.proto = q.proto /\ a.mark = q.mark
  /\ a.listen = q.listen /\ a.target = q.target
  /\ a.lfirst <= q.lfirst /\ a.llast >= q.llast
  /\ a.tfirst - a.lfirst = q.tfirst - q.lfirst

\* nftAdmissionError.affects
Affects(q) == q.flow /\ q.fam \in refused /\ \A a \in permitted : ~Covers(a, q)

\* The spec may be installed with its flows offloaded.
MayOffload(q) == q.flow /\ outcome \in {"clear", "limited"} /\ ~Affects(q)

-----------------------------------------------------------------------------
(***************************************************************************)
(* The reference: what the kernel does with the packets of a flow.  DNAT   *)
(* runs in prerouting at -100, its inverse for replies in postrouting at   *)
(* 100, and two chains of the same priority run in either order.           *)
(***************************************************************************)

Compare(op, x, value) ==
  CASE op = "==" -> x = value [] op = "!=" -> x # value [] op = "<" -> x < value
    [] op = "<=" -> x <= value [] op = ">" -> x > value [] op = ">=" -> x >= value
    [] OTHER -> FALSE

\* A match that reads a header the packet does not have fails.
PacketMatches(m, p) ==
  \/ m.sel = "nfproto" /\ Holds(m.op, m.val \in NFProtoNames(p.fam))
  \/ m.sel = "l4proto" /\ Holds(m.op, m.val \in L4ProtoNames(p.proto))
  \/ m.sel = "sport" /\ m.of = p.proto /\ Compare(m.op, p.sport, m.val)
  \/ m.sel = "dport" /\ m.of = p.proto /\ Compare(m.op, p.dport, m.val)
  \/ /\ m.of = (IF p.fam = 4 THEN "ip" ELSE "ip6")
     /\ \/ m.sel = "saddr" /\ Holds(m.op, p.src = m.val)
        \/ m.sel = "daddr" /\ Holds(m.op, p.dst = m.val)

RuleApplies(r, p) == \A i \in DOMAIN r.when : PacketMatches(r.when[i], p)

\* The first rule that applies decides, then the policy; a rule of which
\* nothing is known may drop.
MayDrop(c, p) ==
  \/ \E i \in DOMAIN c.rules :
       /\ c.rules[i].then # "accept" /\ RuleApplies(c.rules[i], p)
       /\ \A j \in DOMAIN c.rules : j < i => ~RuleApplies(c.rules[j], p)
  \/ c.policy # "accept" /\ \A i \in DOMAIN c.rules : ~RuleApplies(c.rules[i], p)

Packet(s, src, dst, sport, dport) ==
  [fam |-> s.fam, proto |-> s.proto, src |-> src, dst |-> dst, sport |-> sport, dport |-> dport]

\* The addresses a client may have connected to.
Destinations(s) == IF s.listen = AnyHost THEN Addrs ELSE {s.listen}

\* The packets of a flow of s, whose listen port is l, to and from client a at
\* its port b, that a chain at this hook and priority may see.
FlowPackets(s, l, a, b, d, hook, prio) ==
  LET t == s.tfirst + (l - s.lfirst)
  IN  {p \in {Packet(s, a, d, b, l)} : hook = "prerouting" /\ prio <= -100}
      \cup {p \in {Packet(s, a, s.target, b, t)} : ~(hook = "prerouting" /\ prio < -100)}
      \cup {p \in {Packet(s, s.target, a, t, b)} : ~(hook = "postrouting" /\ prio > 100)}
      \cup {p \in {Packet(s, d, a, l, b)} : hook = "postrouting" /\ prio >= 100}

\* No packet of a flow of s can be dropped in chain c.
NeverDrops(c, s) ==
  \A l \in s.lfirst..s.llast, a \in Addrs, b \in Ports, d \in Destinations(s) :
    \A p \in FlowPackets(s, l, a, b, d, c.hook, c.prio) : ~MayDrop(c, p)

\* A packet that PortBridge's forward chain offloads takes none of the steps
\* behind that chain: the rest of forward, and the filters of postrouting.
Skipped(c) ==
  /\ ~c.own
  /\ \/ c.hook = "forward" /\ ~(c.prio < ForwardPriority)
     \/ c.hook = "postrouting" /\ c.type # "nat"

\* None of the chains a flow of s would skip can drop a packet of it.
Harmless(k, s) ==
  \A n \in Names :
    Skipped(k[n]) /\ s.fam \in FamiliesOf(k[n].family) => NeverDrops(k[n], s)

\* The rulesets the decision rests on.
Evidence == IF reads = {} THEN {listed} ELSE reads

-----------------------------------------------------------------------------

\* The program counters and the kernel's chains stay what they are meant to
\* be: a decision is made exactly in stage "decided", and the second pass knows of one earlier one.
TypeOK ==
  /\ stage \in {"start", "first", "second", "decided"}
  /\ outcome \in {"none", "clear", "limited", "error"}
  /\ outcome = "none" <=> stage # "decided"
  /\ refused \subseteq {4, 6} /\ permitted \subseteq Specs
  /\ proofErr \in {"none", "failed", "changed"} /\ edits \in 0..MaxEdits
  /\ stage = "second" => reads = {first}

\* A spec that may be offloaded is harmless to offload: in every ruleset the
\* decision rests on, no chain of another program that its flows would skip
\* could have dropped a packet of them, in either direction, before or after
\* address translation, whatever the client's address and port.
SoundAdmission ==
  \A q \in Queries : MayOffload(q) => \A k \in Evidence : Harmless(k, q)

\* Traffic alone never makes the two passes disagree: only an edit of the
\* ruleset during the check is reported as a change.
CountersAreNoChange == proofErr = "changed" => edits > 0

=============================================================================

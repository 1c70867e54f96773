---------------------------- MODULE MCHookAdmission ----------------------------
(***************************************************************************)
(* One chain of another program in forward, one in postrouting at the      *)
(* priority of reverse NAT, one in prerouting, and PortBridge's own chain. *)
(* Four ports are enough for a range, its neighbours on both sides and a   *)
(* part of it.                                                             *)
(***************************************************************************)
EXTENDS HookAdmission

Match(of, sel, op, val) == [of |-> of, sel |-> sel, op |-> op, val |-> val]
Accept(when) == [when |-> when, then |-> "accept", count |-> 0]
Other == [when |-> <<>>, then |-> "other", count |-> 0]

Chain(family, hook, prio, type, policy, rules) ==
  [family |-> family, hook |-> hook, prio |-> prio, type |-> type, policy |-> policy,
   rules |-> rules, own |-> FALSE, plain |-> TRUE, gen |-> 0, rgen |-> 0]

Absent == Chain("ip", "absent", 0, "filter", "accept", <<>>)
Own == [Chain("inet", "forward", 9, "filter", "accept", <<Other>>) EXCEPT !.own = TRUE]

Anything == Accept(<<>>)
ToPorts   == Accept(<<Match("tcp", "dport", ">=", 2)>>)
FromPorts == Accept(<<Match("meta", "l4proto", "==", "6"), Match("tcp", "sport", ">", 1)>>)
ToTarget   == Accept(<<Match("ip", "daddr", "==", "t4")>>)
FromTarget == Accept(<<Match("ip", "saddr", "==", "t4")>>)
FromListen == Accept(<<Match("ip", "saddr", "==", "l4")>>)
NotStranger == Accept(<<Match("ip", "saddr", "!=", "c4")>>)
LowerPort  == Accept(<<Match("tcp", "dport", "<=", 2)>>)
V6Only     == Accept(<<Match("meta", "nfproto", "==", "10")>>)
TooLong    == Accept(<<Match("meta", "l4proto", "!=", "icmp"), Match("tcp", "dport", "!=", 0),
                       Match("tcp", "dport", "!=", 1)>>)

Forward == {Absent}
  \cup {Chain("inet", "forward", 9, "filter", "accept", r) :
           r \in {<<>>, <<ToPorts>>, <<Other, Anything>>}}
  \cup {Chain("inet", "forward", 9, "filter", "drop", r) :
           r \in {<<ToPorts, FromPorts, V6Only>>, <<LowerPort, FromPorts>>, <<NotStranger>>,
                  <<TooLong, FromPorts>>}}
  \cup {[Chain("inet", "forward", 9, "filter", "accept", <<>>) EXCEPT !.plain = FALSE],
        Chain("inet", "forward", 8, "filter", "drop", <<>>),
        Chain("inet", "forward", 8, "filter", "accept", <<>>)}

Postrouting == {Absent, Chain("ip", "postrouting", 100, "nat", "accept", <<Other>>)}
  \cup {Chain("ip", "postrouting", p, "filter", "drop", r) :
           p \in {100, 101}, r \in {<<ToTarget, FromListen>>, <<ToTarget, FromTarget, FromListen>>}}

Prerouting == {Absent, Chain("bridge", "prerouting", 0, "filter", "accept", <<>>)}
  \cup {Chain("ip", "prerouting", p, "filter", "drop", <<ToPorts, FromTarget>>) : p \in {-100, 0}}

MCNames == {"fwd", "post", "pre", "own"}
MCRulesets == [fwd : Forward, post : Postrouting, pre : Prerouting, own : {Own}]

Wide == [id |-> "a", fam |-> 4, proto |-> "tcp", mark |-> 1, flow |-> TRUE, listen |-> "l4",
         target |-> "t4", lfirst |-> 1, llast |-> 2, tfirst |-> 2, tlast |-> 3]
Wild == [id |-> "b", fam |-> 6, proto |-> "udp", mark |-> 1, flow |-> TRUE, listen |-> "any",
         target |-> "t6", lfirst |-> 1, llast |-> 1, tfirst |-> 1, tlast |-> 1]
Part == [Wide EXCEPT !.lfirst = 2, !.tfirst = 3]
Shifted == [Wide EXCEPT !.lfirst = 2, !.tfirst = 1, !.tlast = 1]

MCSpecs == {Wide, Wild}
MCQueries == {Wide, Wild, Part, Shifted}
=============================================================================

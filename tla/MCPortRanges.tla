----------------------------- MODULE MCPortRanges -----------------------------
(***************************************************************************)
(* Ports 1..5.  Every range of the base path, and for the full range and a *)
(* middle one every way of differing from it: rule, class, wildcard host,  *)
(* other host, target, port offset, offload, and the zero end of a single  *)
(* port.                                                                   *)
(***************************************************************************)
EXTENDS PortRanges

MCMaxPort == 5

Base(a, b) == [rule |-> "A", class |-> "tcp4", host |-> "h1", to |-> "x", flow |-> FALSE,
               first |-> a, last |-> b, target |-> a, targetLast |-> b]

Bases == {Base(a, b) : a \in 1..4, b \in 1..4}
Variants(s) ==
  {[s EXCEPT !.rule = "B"], [s EXCEPT !.class = "udp4"], [s EXCEPT !.host = "any"],
   [s EXCEPT !.host = "h2"], [s EXCEPT !.to = "y"], [s EXCEPT !.flow = TRUE],
   [s EXCEPT !.target = @ + 1, !.targetLast = @ + 1]}

MCRangeSpecs ==
  {s \in Bases : s.first <= s.last}
  \cup Variants(Base(1, 4)) \cup Variants(Base(2, 3))
  \cup {[Base(3, 0) EXCEPT !.targetLast = 0], [Base(1, 4) EXCEPT !.host = "any", !.flow = TRUE]}
=============================================================================

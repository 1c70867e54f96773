---------------------------- MODULE MCControlPlane ----------------------------
(***************************************************************************)
(* Two requests at a time on one rule; an automatic, an explicit and a     *)
(* strict access list.                                                     *)
(***************************************************************************)
EXTENDS ControlPlane

MCSettings == {[list |-> "lan", auto |-> TRUE, strict |-> FALSE, dns |-> 1],
               [list |-> "lan2", auto |-> TRUE, strict |-> FALSE, dns |-> 1],
               [list |-> "only", auto |-> FALSE, strict |-> TRUE, dns |-> 2]}
=============================================================================

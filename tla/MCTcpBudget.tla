------------------------------ MODULE MCTcpBudget ------------------------------
(***************************************************************************)
(* Up to five connections: two of one source and one of another on the     *)
(* first rule, two on the second.  Every limit can be the one that refuses *)
(* while the others have room.                                             *)
(***************************************************************************)
EXTENDS TcpBudget

MCRuleOf == [c \in Conns |-> IF c \in {"c4", "c5"} THEN "r2" ELSE "r1"]
MCSourceOf == [c \in Conns |-> IF c \in {"c3", "c5"} THEN "s2" ELSE "s1"]
MCRuleMax == [r1 |-> 2, r2 |-> 1]
MCSourceMax == [r1 |-> 1, r2 |-> 1]
=============================================================================

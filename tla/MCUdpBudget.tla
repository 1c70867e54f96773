------------------------------ MODULE MCUdpBudget ------------------------------
(***************************************************************************)
(* Two workers of one rule and one of another.  Two flows of one source    *)
(* meet at different workers; the limits of the entry table (during a      *)
(* sweep), the source, the rule, the process and the memory can each be    *)
(* the one that refuses.                                                   *)
(***************************************************************************)
EXTENDS UdpBudget

MCRuleOf   == [s \in Sources |-> IF s = "s3" THEN "r2" ELSE "r1"]
MCSourceOf == [f \in Flows |-> CASE f \in {"f1", "f2"} -> "s1" [] f = "f3" -> "s2" [] OTHER -> "s3"]
MCWorkerOf == [f \in Flows |-> CASE f = "f1" -> "w1" [] f \in {"f2", "f3"} -> "w2" [] OTHER -> "w3"]
MCWorkerRule == [w \in Workers |-> IF w = "w3" THEN "r2" ELSE "r1"]
MCRuleMax    == [r \in Rules |-> IF r = "r1" THEN 2 ELSE 1]
MCSourceMax  == [r \in Rules |-> 1]
MCMaxTracked == [r \in Rules |-> 2]
=============================================================================

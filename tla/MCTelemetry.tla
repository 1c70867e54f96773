------------------------------ MODULE MCTelemetry ------------------------------
(***************************************************************************)
(* Rule "A" has the flow; rule "B" has no traffic: it is there to be       *)
(* suspended and retired, which rewrites the journal and keeps the rules.  *)
(* IPv4 is read first, so a dump can fail before and after that.           *)
(***************************************************************************)
EXTENDS Telemetry

\* Rule "A" is anything; "B" is suspended by a policy, or removed.
MCRequests ==
  {q \in [want : [Rules -> {"nft", "go", "none"}], rej : SUBSET Rules] :
     /\ \A r \in q.rej : q.want[r] = "nft"
     /\ q.want["B"] = "none" \/ "B" \in q.rej}

MCRuleOf == [f \in Flows |-> "A"]
MCFamilyOf == [f \in Flows |-> 6]
MCMaxBytes == [f \in Flows |-> 2]
=============================================================================

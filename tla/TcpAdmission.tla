------------------------------ MODULE TcpAdmission ------------------------------
(***************************************************************************)
(* What the TCP budgets promise, without counters or intermediate steps:   *)
(* a set of forwarded connections that one atomic step enlarges only when  *)
(* all limits leave room, and that one atomic step makes smaller.  It is   *)
(* silent about refusals: reserveTCP may refuse a connection because of a  *)
(* slot that another refused connection is about to give back.             *)
(***************************************************************************)
EXTENDS Integers, FiniteSets

CONSTANTS Conns, Rules, Sources, RuleOf, SourceOf, MaxTCP, RuleMax, SourceMax

VARIABLE admitted   \* the connections that are being forwarded

\* A limit of zero or less admits nothing; nobody is no breach of any limit.
Respects(S, maximum) == S = {} \/ Cardinality(S) <= maximum

Fits(S) ==
  /\ Respects(S, MaxTCP)
  /\ \A r \in Rules : Respects({c \in S : RuleOf[c] = r}, RuleMax[r])
  /\ \A r \in Rules, s \in Sources :
       Respects({c \in S : RuleOf[c] = r /\ SourceOf[c] = s}, SourceMax[r])

Init == admitted = {}

\* reserveTCP returned true.
Admit(c) ==
  /\ c \notin admitted
  /\ admitted' = admitted \cup {c}
  /\ Fits(admitted')

\* releaseTCP was called.
Release(c) ==
  /\ c \in admitted
  /\ admitted' = admitted \ {c}

Next == \E c \in Conns : Admit(c) \/ Release(c)

AdmissionSpec == Init /\ [][Next]_admitted

=============================================================================

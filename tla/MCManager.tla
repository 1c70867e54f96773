------------------------------- MODULE MCManager -------------------------------
(***************************************************************************)
(* One rule that is a wildcard path of the kernel with its loopback        *)
(* listener in Go, a Go proxy forced by hand or by an answer of the other  *)
(* family, the same rule with another option, disabled, or absent.  The    *)
(* ingress points are one address of the host and its loopback address.    *)
(***************************************************************************)
EXTENDS Manager

MCPoints == {"hp", "lop"}
MCCovers == [any |-> {"hp"}]
MCGoPoints == [any |-> {"hp", "lop"}, lo |-> {"lop"}]
MCListen == [any |-> [fam |-> 4, host |-> "any", port |-> "p"],
             lo |-> [fam |-> 4, host |-> "lo", port |-> "p"]]
MCLoopback == [any |-> "lo"]

MCPaths == {[rule |-> "A", in |-> "any", to |-> "x", fam |-> 4]}

Answer(t4, t6) == [f \in {4, 6} |-> IF f = 4 THEN t4 ELSE t6]
MCLiterals == [x |-> Answer("x", "none")]
MCAnswers == {Answer("x", "none"), Answer("none", "z")}

Rule(host, go, on, opt) ==
  [id |-> "A", ins |-> {"any"}, host |-> host, go |-> go, on |-> on, opt |-> opt]
MCConfigs == {{}, {Rule("name", FALSE, TRUE, 1)}, {Rule("name", TRUE, TRUE, 1)},
              {Rule("x", FALSE, TRUE, 2)}, {Rule("x", FALSE, FALSE, 2)}}

\* Two rules at two ports, for what one rule cannot show: a transaction that
\* adds the second while the first is confirmed.
TwoPoints == {"hp", "lop", "hq", "loq"}
TwoCovers == [any |-> {"hp"}, anyq |-> {"hq"}]
TwoGoPoints == [any |-> {"hp", "lop"}, lo |-> {"lop"}, anyq |-> {"hq", "loq"}, loq |-> {"loq"}]
TwoListen == [any |-> [fam |-> 4, host |-> "any", port |-> "p"],
              lo |-> [fam |-> 4, host |-> "lo", port |-> "p"],
              anyq |-> [fam |-> 4, host |-> "any", port |-> "q"],
              loq |-> [fam |-> 4, host |-> "lo", port |-> "q"]]
TwoLoopback == [any |-> "lo", anyq |-> "loq"]
TwoPaths == {[rule |-> "A", in |-> "any", to |-> "x", fam |-> 4],
             [rule |-> "B", in |-> "anyq", to |-> "x", fam |-> 4]}
TwoAnswers == {Answer("x", "none")}
First == Rule("x", FALSE, TRUE, 1)
Second == [First EXCEPT !.id = "B", !.ins = {"anyq"}]
TwoConfigs == {{}, {First}, {First, Second}}

\* Both rules in the kernel, then the first one moved to Go by hand.
HookConfigs == {{}, {First, Second}, {[First EXCEPT !.go = TRUE], Second}}
=============================================================================

----------------------------- MODULE MCNftBackend -----------------------------
(***************************************************************************)
(* A small instance: one port of two addresses plus a second port.  Rule A *)
(* listens on the wildcard or on one address and moves between two         *)
(* targets, with and without flowtable offload; rule B is a bystander of   *)
(* the other family.                                                       *)
(***************************************************************************)
EXTENDS NftBackend

MCPoints == {"h1p", "h2p", "q"}
MCCovers == [any |-> {"h1p", "h2p"}, h1 |-> {"h1p"}, q |-> {"q"}]

A(i, t) == [rule |-> "A", in |-> i, to |-> t, fam |-> 4]
B == [rule |-> "B", in |-> "q", to |-> "x", fam |-> 6]

MCPaths == {A("h1", "x"), A("any", "y"), B}
MCPlans == {{}, {A("h1", "x")}, {A("h1", "x"), B}, {A("any", "y"), B}}
=============================================================================

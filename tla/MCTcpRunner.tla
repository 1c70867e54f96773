------------------------------ MODULE MCTcpRunner ------------------------------
(***************************************************************************)
(* Two endpoints with one connection each, so that a closer runs while the *)
(* other endpoint still accepts and forwards.                              *)
(***************************************************************************)
EXTENDS TcpRunner

MCEndpointOf == [c \in Conns |-> IF c = "c2" THEN "e2" ELSE "e1"]
=============================================================================

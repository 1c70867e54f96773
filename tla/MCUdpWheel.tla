------------------------------ MODULE MCUdpWheel ------------------------------
(***************************************************************************)
(* A wheel of four slots, idle times below and above one turn, and a clock *)
(* that may be set back by more than the shorter idle time.                *)
(***************************************************************************)
EXTENDS UdpWheel
=============================================================================

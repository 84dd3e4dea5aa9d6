----------------------------- MODULE MCTcpConn -----------------------------
(***************************************************************************)
(* Instances of TcpConn for TLC: two outputs, so that the walk that starts *)
(* over at the second one passes over the first.                           *)
(***************************************************************************)
EXTENDS TcpConn

NoCurl    == {}
=============================================================================

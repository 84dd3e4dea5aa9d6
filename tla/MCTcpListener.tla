---------------------------- MODULE MCTcpListener ----------------------------
(***************************************************************************)
(* An instance of TcpListener for TLC: one listener that is switched off   *)
(* and on again, changed, or replaced by another one.                      *)
(***************************************************************************)
EXTENDS TcpListener

L(id, on, tag) == [id |-> id, c |-> [on |-> on, tag |-> tag]]

On    == <<L("a", TRUE, 1)>>
Off   == <<L("a", FALSE, 1)>>
Other == <<L("b", TRUE, 1)>>
Contents == {On, Off, Other}
=============================================================================

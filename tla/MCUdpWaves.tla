----------------------------- MODULE MCUdpWaves -----------------------------
(***************************************************************************)
(* Instances of UdpWaves for TLC.  Contents: a wave of two threads with a  *)
(* quota of one packet, and what an edit turns it into: fewer threads      *)
(* without a quota, switched off, or replaced by another wave.             *)
(***************************************************************************)
EXTENDS UdpWaves

W(id, on, par, quota, tune) ==
    [id |-> id, c |-> [on |-> on, par |-> par, quota |-> quota, tune |-> tune]]

One   == <<W("a", TRUE, 1, 0, 1)>>
Two   == <<W("a", TRUE, 2, 1, 2)>>
Off   == <<W("a", FALSE, 2, 1, 2)>>
Other == <<W("b", TRUE, 1, 0, 1)>>
Contents == {One, Two, Off, Other}
=============================================================================

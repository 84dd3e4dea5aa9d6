----------------------------- MODULE MCMpmcRing -----------------------------
(***************************************************************************)
(* An instance of MpmcRing for TLC: a ring of two slots that goes round    *)
(* more than once.                                                         *)
(***************************************************************************)
EXTENDS MpmcRing
=============================================================================

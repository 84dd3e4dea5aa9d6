---------------------------- MODULE MCPacketMngr ----------------------------
(***************************************************************************)
(* Instances of PacketMngr for TLC: three packets in segments of two, so   *)
(* that one segment can overflow while another is sent or evacuated.       *)
(***************************************************************************)
EXTENDS PacketMngr

NoPostEnter  == {}
=============================================================================

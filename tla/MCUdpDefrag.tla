---------------------------- MODULE MCUdpDefrag ----------------------------
(***************************************************************************)
(* Instances of UdpDefrag for TLC.  Three datagrams: two of them share an  *)
(* IP id, one fragmented and one not, so that an id is used again while    *)
(* its record is in use; the third fills the ring from another id.  The    *)
(* ring holds two pairs and a half, so that a payload can be refused       *)
(* behind its header.                                                      *)
(***************************************************************************)
EXTENDS UdpDefrag

SharedIds == [d \in Datagrams |-> IF d = "e" THEN 2 ELSE 1]
Mixed     == [d \in Datagrams |-> CASE d = "a" -> 3 [] d = "b" -> 1 [] d = "e" -> 1]
=============================================================================

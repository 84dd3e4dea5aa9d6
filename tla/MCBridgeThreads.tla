-------------------------- MODULE MCBridgeThreads --------------------------
(***************************************************************************)
(* Instances of BridgeThreads for TLC: a capture bridge and a socket       *)
(* bridge, so that the shutdown meets a bridge with and one without a      *)
(* forwarding thread, and pm_lock is asked for twice.                      *)
(***************************************************************************)
EXTENDS BridgeThreads

OneOfEach  == [b \in Bridges |-> IF b = 1 THEN "pcap" ELSE "krnl"]

\* Two packets for a capture bridge, so that one can follow the answer that
\* it stopped; one for a socket bridge.
Packets    == [b \in Bridges |-> IF Kind[b] = "pcap" THEN 2 ELSE 1]
=============================================================================

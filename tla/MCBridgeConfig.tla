--------------------------- MODULE MCBridgeConfig ---------------------------
(***************************************************************************)
(* BridgeConfig for TLC: two names, so that entries may change places.     *)
(***************************************************************************)
EXTENDS BridgeConfig
=============================================================================

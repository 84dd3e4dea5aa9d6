------------------------- MODULE MCPagestackGateway -------------------------
(* Small instances of PagestackGateway for TLC: two segments, two stored   *)
(* packets and a semaphore of two are enough for a close that overtakes an *)
(* open and for tokens that outlive the opening they were posted for.      *)
EXTENDS PagestackGateway
=============================================================================

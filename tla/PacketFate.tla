----------------------------- MODULE PacketFate -----------------------------
(***************************************************************************)
(* What the packet manager promises for a packet: it is accepted or        *)
(* refused, in the order of arrival; an accepted packet is held until it   *)
(* is delivered, once, or, in a configuration that samples or whose disk   *)
(* may refuse packets, dropped. A fate is never revised.                   *)
(***************************************************************************)
EXTENDS Integers

CONSTANTS
    N,          \* number of packets
    Lossy       \* whether an accepted packet may be dropped

VARIABLE fate

Fate == {"unseen", "held", "delivered", "dropped"}

Init == fate = [p \in 1..N |-> "unseen"]

\* The next packet arrives: taken, or refused because the memory is full.
Arrive ==
    \E p \in 1..N, f \in {"held", "dropped"} :
        /\ fate[p] = "unseen"
        /\ \A q \in 1..N : q < p => fate[q] # "unseen"
        /\ fate' = [fate EXCEPT ![p] = f]

Deliver ==
    \E p \in 1..N :
        /\ fate[p] = "held"
        /\ fate' = [fate EXCEPT ![p] = "delivered"]

\* The packets of a segment may be dropped together.
Drop ==
    /\ Lossy
    /\ fate' \in [1..N -> Fate]
    /\ \A p \in 1..N : fate'[p] = fate[p]
                         \/ (fate[p] = "held" /\ fate'[p] = "dropped")

Next == Arrive \/ Deliver \/ Drop

Spec == Init /\ [][Next]_fate
=============================================================================

------------------------------ MODULE RingFifo ------------------------------
(***************************************************************************)
(* What the ring buffer of tst_MPMC_ring_buffer promises its users: one    *)
(* queue, into which every producer puts its items in order, and from      *)
(* which every item goes, in the order of the queue, to one consumer.      *)
(***************************************************************************)
EXTENDS Naturals, Sequences

CONSTANTS
    NP,         \* NUM_PRODUCERS
    Consumers,  \* the consumer threads
    PerProducer \* ITEMS_PER_PRODUCER

VARIABLES
    q,          \* the items in the queue
    sent,       \* how many items each producer has put in
    got         \* the item each consumer has taken out and works on

vars == <<q, sent, got>>

Producers  == 0..NP-1
Item(p, i) == p * PerProducer + i
Items      == 0..NP * PerProducer - 1
NoItem     == NP * PerProducer

Init ==
    /\ q = << >>
    /\ sent = [p \in Producers |-> 0]
    /\ got = [c \in Consumers |-> NoItem]

Enqueue(p) ==
    /\ sent[p] < PerProducer
    /\ q' = Append(q, Item(p, sent[p]))
    /\ sent' = [sent EXCEPT ![p] = @ + 1]
    /\ UNCHANGED got

Dequeue(c) ==
    /\ q # << >> /\ got[c] = NoItem
    /\ q' = Tail(q)
    /\ got' = [got EXCEPT ![c] = Head(q)]
    /\ UNCHANGED sent

Consume(c) ==
    /\ got[c] # NoItem
    /\ got' = [got EXCEPT ![c] = NoItem]
    /\ UNCHANGED <<q, sent>>

Next ==
    \/ \E p \in Producers : Enqueue(p)
    \/ \E c \in Consumers : Dequeue(c) \/ Consume(c)

Spec == Init /\ [][Next]_vars
=============================================================================

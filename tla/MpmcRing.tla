------------------------------ MODULE MpmcRing ------------------------------
(***************************************************************************)
(* The multi-producer multi-consumer ring buffer (tst_MPMC_ring_buffer)    *)
(* and the program that exercises it: producers that retry until their     *)
(* item is in, consumers that mark every item in a shared bitmap, and main *)
(* that joins them and looks for items without a mark.                     *)
(*                                                                         *)
(* A thread's accesses of shared memory are steps of their own, in the     *)
(* order of the code: the load of tail (head), the load of the slot's seq, *)
(* the compare-and-exchange, the access of the data and the store of seq.  *)
(* The exchange does not fail without a reason.  The counters of retries   *)
(* are left out.                                                           *)
(***************************************************************************)
EXTENDS Naturals, Sequences, FiniteSets

CONSTANTS
    Cap,        \* RING_CAPACITY
    NP,         \* NUM_PRODUCERS
    Consumers,  \* the consumer threads (NUM_CONSUMERS)
    PerProducer \* ITEMS_PER_PRODUCER

ASSUME RingAssumption ==
    /\ NP \in Nat \ {0} /\ PerProducer \in Nat \ {0} /\ IsFiniteSet(Consumers)
    /\ Cap \in Nat /\ Cap >= 2 /\ \E k \in 1..Cap : Cap = 2^k

Producers  == 0..NP-1
Total      == NP * PerProducer
Items      == 0..Total-1
NoItem     == Total
Slots      == 0..Cap-1
BitsPerByte == 8

VARIABLES
    seq, data,      \* ring_slot_t, for every slot
    head, tail,     \* consumer index, producer index
    prod,           \* the producers: [at, i, pos]
    cons,           \* the consumers: [at, pos, val, byte]
    produced_count, consumed_count,
    bitmap,         \* for every byte the items whose bit is set
    main            \* "join", or what main has printed at its end

ring    == <<seq, data, head, tail>>
results == <<consumed_count, bitmap>>
vars    == <<ring, prod, cons, produced_count, results, main>>

ByteOf(v) == v \div BitsPerByte
Bytes     == {ByteOf(v) : v \in Items}
Slot(pos) == pos % Cap
Item(p)   == p * PerProducer + prod[p].i

TypeOK ==
    /\ seq \in [Slots -> 0..Total+Cap] /\ data \in [Slots -> Items \cup {NoItem}]
    /\ head \in 0..tail /\ tail \in 0..Total
    /\ prod \in [Producers -> [at : {"load", "check", "claim", "write", "publish", "count", "gone"},
                               i : 0..PerProducer, pos : 0..Total]]
    /\ cons \in [Consumers -> [at : {"top", "load", "check", "claim", "read", "release",
                                     "test", "mark", "count", "gone"},
                               pos : 0..Total, val : Items \cup {NoItem}, byte : SUBSET Items]]
    /\ produced_count \in 0..Total /\ consumed_count \in 0..Total
    /\ bitmap \in [Bytes -> SUBSET Items]
    /\ main \in {"join", "passed", "failed"}

Init ==
    /\ seq = [s \in Slots |-> s] /\ data = [s \in Slots |-> NoItem]
    /\ head = 0 /\ tail = 0
    /\ prod = [p \in Producers |-> [at |-> "load", i |-> 0, pos |-> 0]]
    /\ cons = [c \in Consumers |-> [at |-> "top", pos |-> 0, val |-> NoItem, byte |-> {}]]
    /\ produced_count = 0 /\ consumed_count = 0
    /\ bitmap = [b \in Bytes |-> {}]
    /\ main = "join"

(***************************************************************************)
(* mpmc_ring_enqueue, called by producer until it returns true.            *)
(***************************************************************************)
EnqFrame == UNCHANGED <<cons, results, main>>

EnqLoad(p) ==
    /\ prod[p].at = "load"
    /\ prod' = [prod EXCEPT ![p].at = "check", ![p].pos = tail]
    /\ EnqFrame /\ UNCHANGED <<ring, produced_count>>

\* Mutant: a full queue is not told from a free slot (dif <= 0).
SlotFreeOrFull(p) == seq[Slot(prod[p].pos)] <= prod[p].pos

SlotFree(p) == seq[Slot(prod[p].pos)] = prod[p].pos

\* A slot that is free is claimed; a full queue returns false and is tried
\* again, as is a position that another producer has taken.
EnqCheck(p) ==
    /\ prod[p].at = "check"
    /\ prod' = [prod EXCEPT ![p].at = IF SlotFree(p) THEN "claim" ELSE "load"]
    /\ EnqFrame /\ UNCHANGED <<ring, produced_count>>

\* Mutant: a store in place of the exchange.
TailStillThere(p) == TRUE

TailUnmoved(p) == tail = prod[p].pos

EnqClaim(p) ==
    /\ prod[p].at = "claim"
    /\ \/ /\ TailUnmoved(p)
          /\ tail' = prod[p].pos + 1
          /\ prod' = [prod EXCEPT ![p].at = "write"]
       \/ /\ ~TailUnmoved(p)
          /\ prod' = [prod EXCEPT ![p].at = "load"] /\ UNCHANGED tail
    /\ EnqFrame /\ UNCHANGED <<seq, data, head, produced_count>>

EnqWrite(p) ==
    /\ prod[p].at = "write"
    /\ data' = [data EXCEPT ![Slot(prod[p].pos)] = Item(p)]
    /\ prod' = [prod EXCEPT ![p].at = "publish"]
    /\ EnqFrame /\ UNCHANGED <<seq, head, tail, produced_count>>

EnqPublish(p) ==
    /\ prod[p].at = "publish"
    /\ seq' = [seq EXCEPT ![Slot(prod[p].pos)] = prod[p].pos + 1]
    /\ prod' = [prod EXCEPT ![p].at = "count"]
    /\ EnqFrame /\ UNCHANGED <<data, head, tail, produced_count>>

\* Mutant: the loop makes one item too many.
ProducedOneMore(p) ==
    /\ prod[p].at = "count"
    /\ produced_count' = produced_count + 1
    /\ prod' = [prod EXCEPT ![p].i = @ + 1, ![p].pos = 0,
                            ![p].at = IF prod[p].i < PerProducer THEN "load" ELSE "gone"]
    /\ EnqFrame /\ UNCHANGED ring

\* The producer counts its item and goes on to the next one.
Produced(p) ==
    /\ prod[p].at = "count"
    /\ produced_count' = produced_count + 1
    /\ prod' = [prod EXCEPT ![p].i = @ + 1, ![p].pos = 0,
                            ![p].at = IF prod[p].i + 1 < PerProducer THEN "load" ELSE "gone"]
    /\ EnqFrame /\ UNCHANGED ring

(***************************************************************************)
(* consumer and mpmc_ring_dequeue.                                         *)
(***************************************************************************)
DeqFrame == UNCHANGED <<prod, produced_count, main>>

ConsumerTop(c) ==
    /\ cons[c].at = "top"
    /\ cons' = [cons EXCEPT ![c].at = IF consumed_count < Total THEN "load" ELSE "gone"]
    /\ DeqFrame /\ UNCHANGED <<ring, results>>

DeqLoad(c) ==
    /\ cons[c].at = "load"
    /\ cons' = [cons EXCEPT ![c].at = "check", ![c].pos = head]
    /\ DeqFrame /\ UNCHANGED <<ring, results>>

\* Mutant: an empty queue is tried again inside mpmc_ring_dequeue.
WaitsForItem(s, pos) == IF s = pos + 1 THEN "claim" ELSE "load"

\* A slot with data is claimed; an empty queue returns false; a position
\* that another consumer has taken is loaded again.
Verdict(s, pos) ==
    IF s = pos + 1 THEN "claim" ELSE IF s < pos + 1 THEN "top" ELSE "load"

DeqCheck(c) ==
    /\ cons[c].at = "check"
    /\ cons' = [cons EXCEPT ![c].at = Verdict(seq[Slot(cons[c].pos)], cons[c].pos)]
    /\ DeqFrame /\ UNCHANGED <<ring, results>>

HeadUnmoved(c) == head = cons[c].pos

DeqClaim(c) ==
    /\ cons[c].at = "claim"
    /\ \/ /\ HeadUnmoved(c)
          /\ head' = cons[c].pos + 1
          /\ cons' = [cons EXCEPT ![c].at = "read"]
       \/ /\ ~HeadUnmoved(c)
          /\ cons' = [cons EXCEPT ![c].at = "load"] /\ UNCHANGED head
    /\ DeqFrame /\ UNCHANGED <<seq, data, tail, results>>

DeqRead(c) ==
    /\ cons[c].at = "read"
    /\ cons' = [cons EXCEPT ![c].at = "release", ![c].val = data[Slot(cons[c].pos)]]
    /\ DeqFrame /\ UNCHANGED <<ring, results>>

DeqRelease(c) ==
    /\ cons[c].at = "release"
    /\ seq' = [seq EXCEPT ![Slot(cons[c].pos)] = cons[c].pos + Cap]
    /\ cons' = [cons EXCEPT ![c].at = "test"]
    /\ DeqFrame /\ UNCHANGED <<data, head, tail, results>>

\* get_bit reports a duplicate, set_bit reads the byte ...
TestBit(c) ==
    /\ cons[c].at = "test"
    /\ cons' = [cons EXCEPT ![c].at = "mark", ![c].byte = bitmap[ByteOf(cons[c].val)]]
    /\ DeqFrame /\ UNCHANGED <<ring, results>>

\* ... and writes it back with the bit of its own item.
SetBit(c) ==
    /\ cons[c].at = "mark"
    /\ bitmap' = [bitmap EXCEPT ![ByteOf(cons[c].val)] = cons[c].byte \cup {cons[c].val}]
    /\ cons' = [cons EXCEPT ![c].at = "count", ![c].byte = {}]
    /\ DeqFrame /\ UNCHANGED <<ring, consumed_count>>

Consumed(c) ==
    /\ cons[c].at = "count"
    /\ consumed_count' = consumed_count + 1
    /\ cons' = [cons EXCEPT ![c].at = "top", ![c].val = NoItem, ![c].pos = 0]
    /\ DeqFrame /\ UNCHANGED <<ring, bitmap>>

(***************************************************************************)
(* main, after every thread has been joined.                               *)
(***************************************************************************)
Joined ==
    /\ \A p \in Producers : prod[p].at = "gone"
    /\ \A c \in Consumers : cons[c].at = "gone"

Verify ==
    /\ main = "join" /\ Joined
    /\ main' = IF \A v \in Items : v \in bitmap[ByteOf(v)] THEN "passed" ELSE "failed"
    /\ UNCHANGED <<ring, prod, cons, produced_count, results>>

producer(p) ==
    EnqLoad(p) \/ EnqCheck(p) \/ EnqClaim(p) \/ EnqWrite(p) \/ EnqPublish(p) \/ Produced(p)

consumer(c) ==
    \/ ConsumerTop(c) \/ DeqLoad(c) \/ DeqCheck(c) \/ DeqClaim(c) \/ DeqRead(c)
    \/ DeqRelease(c) \/ TestBit(c) \/ SetBit(c) \/ Consumed(c)

Next ==
    \/ \E p \in Producers : producer(p)
    \/ \E c \in Consumers : consumer(c)
    \/ Verify

\* Every thread is scheduled.
Spec ==
    /\ Init /\ [][Next]_vars
    /\ \A p \in Producers : WF_vars(producer(p))
    /\ \A c \in Consumers : WF_vars(consumer(c))
    /\ WF_vars(Verify)

(***************************************************************************)
(* Properties.                                                             *)
(***************************************************************************)

\* The position a thread has claimed and not given back, if any.
Holds(t) == t.at \in {"write", "publish", "read", "release"}

\* A slot is never in the hands of two threads, whichever laps around the
\* ring they are on: between the exchange and the store of seq the slot
\* belongs to the thread that won the exchange (mpmc_ring_enqueue,
\* mpmc_ring_dequeue).
SlotExclusive ==
    /\ \A p \in Producers, c \in Consumers :
        Holds(prod[p]) /\ Holds(cons[c]) => Slot(prod[p].pos) # Slot(cons[c].pos)
    /\ \A p1, p2 \in Producers :
        p1 # p2 /\ Holds(prod[p1]) /\ Holds(prod[p2]) => Slot(prod[p1].pos) # Slot(prod[p2].pos)
    /\ \A c1, c2 \in Consumers :
        c1 # c2 /\ Holds(cons[c1]) /\ Holds(cons[c2]) => Slot(cons[c1].pos) # Slot(cons[c2].pos)

\* The queue that the slots, the two indexes and the threads at work make up.
ItemAt(pos) ==
    LET writer == {p \in Producers : prod[p].at = "write" /\ prod[p].pos = pos}
    IN  IF writer # {} THEN Item(CHOOSE p \in writer : TRUE) ELSE data[Slot(pos)]
Queue == [n \in 1..tail-head |-> ItemAt(head + n - 1)]
Sent  == [p \in Producers |->
             prod[p].i + IF prod[p].at \in {"write", "publish", "count"} THEN 1 ELSE 0]
Got   == [c \in Consumers |->
             IF cons[c].at = "read" THEN data[Slot(cons[c].pos)] ELSE cons[c].val]

Fifo == INSTANCE RingFifo WITH q <- Queue, sent <- Sent, got <- Got

\* The ring is one first-in first-out queue: every item goes in once, in the
\* order of its producer, and comes out once, in the order of the queue.
IsFifo == Fifo!Spec

\* Every item is consumed and the program ends: no producer waits for ever on
\* a full ring, and no consumer is left waiting after the last item.
Terminates == <>(main # "join" /\ produced_count = Total /\ consumed_count = Total)
=============================================================================

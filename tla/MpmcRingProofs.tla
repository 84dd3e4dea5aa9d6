--------------------------- MODULE MpmcRingProofs ---------------------------
(***************************************************************************)
(* Proofs about MpmcRing, for every capacity, any number of producers and  *)
(* consumers and any number of items.                                      *)
(*                                                                         *)
(* The positions from head to head + Cap - 1 are one window in which every *)
(* slot occurs once.  Those below tail are in the queue: their slot says   *)
(* "claimed" (seq = x) or "published" (seq = x + 1).  The others are free  *)
(* (seq = x) or still with a consumer of the lap before (seq = x+1-Cap).   *)
(* That no thread is mistaken about a slot follows from where the thread's *)
(* position is in the window.                                              *)
(***************************************************************************)
EXTENDS MpmcRing, Integers, FiniteSetTheorems, SequenceTheorems, TLAPS

\* The part of TypeOK that does not depend on how many items there are.
RingType ==
    /\ seq \in [Slots -> Nat] /\ data \in [Slots -> Items \cup {NoItem}]
    /\ head \in Nat /\ tail \in Nat
    /\ prod \in [Producers -> [at : {"load", "check", "claim", "write", "publish", "count", "gone"},
                               i : 0..PerProducer, pos : Nat]]
    /\ cons \in [Consumers -> [at : {"top", "load", "check", "claim", "read", "release",
                                     "test", "mark", "count", "gone"},
                               pos : Nat, val : Items \cup {NoItem}, byte : SUBSET Items]]
    /\ produced_count \in Nat /\ consumed_count \in Nat
    /\ bitmap \in [Bytes -> SUBSET Items]
    /\ main \in {"join", "passed", "failed"}

\* What seq says of the slots of the window, and that what is published is an
\* item.
Window ==
    /\ head <= tail /\ tail <= head + Cap
    /\ \A x \in Nat : head <= x /\ x < tail =>
          /\ seq[Slot(x)] = x \/ seq[Slot(x)] = x + 1
          /\ seq[Slot(x)] = x + 1 => data[Slot(x)] \in Items
    /\ \A x \in Nat : tail <= x /\ x < head + Cap =>
          seq[Slot(x)] = x \/ seq[Slot(x)] + Cap = x + 1

\* A producer's view of the ring: what it found in "check" still holds in
\* "claim" unless tail has moved, and a position it claimed is its own.
Writers ==
    \A p \in Producers :
        /\ prod[p].at # "gone" => prod[p].i < PerProducer
        /\ prod[p].pos <= tail
        /\ prod[p].at = "claim" /\ prod[p].pos = tail => seq[Slot(tail)] = tail
        /\ prod[p].at \in {"write", "publish"} =>
              /\ head <= prod[p].pos /\ prod[p].pos < tail
              /\ seq[Slot(prod[p].pos)] = prod[p].pos
              /\ \A q \in Producers : prod[q].at \in {"write", "publish"} /\ q # p =>
                    prod[q].pos # prod[p].pos
        /\ prod[p].at = "publish" => data[Slot(prod[p].pos)] \in Items

\* The same for a consumer, and what it holds once it has read.
Readers ==
    \A c \in Consumers :
        /\ cons[c].pos <= head
        /\ cons[c].at = "claim" /\ cons[c].pos = head => seq[Slot(head)] = head + 1
        /\ cons[c].at \in {"read", "release"} =>
              /\ cons[c].pos < head /\ tail <= cons[c].pos + Cap
              /\ seq[Slot(cons[c].pos)] = cons[c].pos + 1
              /\ \A d \in Consumers : cons[d].at \in {"read", "release"} /\ d # c =>
                    cons[d].pos # cons[c].pos
        /\ cons[c].at = "read" => data[Slot(cons[c].pos)] \in Items
        /\ cons[c].val \in Items <=> cons[c].at \in {"release", "test", "mark", "count"}

RingInv == RingType /\ Window /\ Writers /\ Readers

-----------------------------------------------------------------------------
(***************************************************************************)
(* Arithmetic of the positions.                                            *)
(***************************************************************************)
LEMMA CapFacts == Cap \in Nat /\ Cap >= 2
  BY RingAssumption

LEMMA DivMod ==
    ASSUME NEW a \in Nat
    PROVE  /\ a % Cap \in 0..Cap-1 /\ a \div Cap \in Nat
           /\ a = Cap * (a \div Cap) + (a % Cap)
  BY CapFacts

LEMMA ModOfSum ==
    ASSUME NEW q \in Nat, NEW r \in 0..Cap-1
    PROVE  (Cap * q + r) % Cap = r
  BY CapFacts

LEMMA MultipleOfCap ==
    ASSUME NEW k \in Int, k # 0
    PROVE  Cap * k >= Cap \/ Cap * k <= -Cap
  BY CapFacts

\* A slot comes back after Cap positions and not before.
LEMMA SlotFacts ==
    /\ \A x \in Nat : Slot(x) \in Slots /\ Slot(x + Cap) = Slot(x)
    /\ \A x, y \in Nat : Slot(x) = Slot(y) /\ x < y => y >= x + Cap
<1>1. ASSUME NEW x \in Nat PROVE Slot(x) \in Slots
  BY DivMod DEF Slot, Slots
<1>2. ASSUME NEW x \in Nat PROVE Slot(x + Cap) = Slot(x)
  <2> DEFINE q == (x \div Cap) + 1
             r == x % Cap
  <2>1. q \in Nat /\ r \in 0..Cap-1
    BY DivMod
  <2>2. x + Cap = Cap * q + r
    BY DivMod, CapFacts
  <2>3. (Cap * q + r) % Cap = r
    BY <2>1, ModOfSum
  <2> QED
    BY <2>2, <2>3 DEF Slot
<1>3. ASSUME NEW x \in Nat, NEW y \in Nat, Slot(x) = Slot(y), x < y
      PROVE  y >= x + Cap
  <2>1. y - x = Cap * ((y \div Cap) - (x \div Cap))
    BY <1>3, DivMod, CapFacts DEF Slot
  <2> QED
    BY <1>3, <2>1, MultipleOfCap, DivMod, CapFacts
<1> QED
  BY <1>1, <1>2, <1>3

LEMMA SlotOfSmall ==
    ASSUME NEW x \in Slots
    PROVE  Slot(x) = x
  BY CapFacts DEF Slot, Slots

\* What a producer puts in is an item.
LEMMA ItemRange ==
    ASSUME NEW p \in Producers, NEW i \in 0..PerProducer-1
    PROVE  p * PerProducer + i \in Items
<1>1. (p + 1) * PerProducer <= NP * PerProducer
  BY RingAssumption DEF Producers
<1>2. p * PerProducer \in Nat /\ (p + 1) * PerProducer = p * PerProducer + PerProducer
  BY RingAssumption DEF Producers
<1> QED
  BY <1>1, <1>2, RingAssumption DEF Items, Total, Producers

LEMMA NoItemFacts == NoItem \notin Items /\ Total \in Nat
  BY RingAssumption DEF NoItem, Items, Total

-----------------------------------------------------------------------------
(***************************************************************************)
(* The invariant is inductive.                                             *)
(***************************************************************************)
LEMMA RingInit == Init => RingInv
<1> SUFFICES ASSUME Init PROVE RingInv
  OBVIOUS
<1>1. RingType
  BY RingAssumption, CapFacts DEF Init, RingType, Slots, Producers
<1>2. Window
  BY SlotOfSmall, CapFacts DEF Init, Window, Slots
<1>3. Writers
  BY RingAssumption DEF Init, Writers
<1>4. Readers
  BY NoItemFacts DEF Init, Readers
<1> QED
  BY <1>1, <1>2, <1>3, <1>4 DEF RingInv

LEMMA TypeFacts ==
    ASSUME RingType
    PROVE  /\ head \in Nat /\ tail \in Nat
           /\ \A s \in Slots : seq[s] \in Nat
           /\ \A p \in Producers : prod[p].pos \in Nat /\ prod[p].i \in 0..PerProducer
           /\ \A c \in Consumers : cons[c].pos \in Nat
  BY DEF RingType

\* The states of the producers and of the consumers, and setting a field.
ProducerStates ==
    [Producers -> [at : {"load", "check", "claim", "write", "publish", "count", "gone"},
                   i : 0..PerProducer, pos : Nat]]
ConsumerStates ==
    [Consumers -> [at : {"top", "load", "check", "claim", "read", "release",
                         "test", "mark", "count", "gone"},
                   pos : Nat, val : Items \cup {NoItem}, byte : SUBSET Items]]

LEMMA StateFacts == RingType => prod \in ProducerStates /\ cons \in ConsumerStates
  BY DEF RingType, ProducerStates, ConsumerStates

LEMMA ProducerField ==
    ASSUME NEW f \in ProducerStates, NEW p \in Producers
    PROVE  /\ \A a \in {"load", "check", "claim", "write", "publish", "count", "gone"} :
                 [f EXCEPT ![p].at = a] \in ProducerStates
           /\ \A n \in Nat : [f EXCEPT ![p].pos = n] \in ProducerStates
<1>1. f[p] \in [at : {"load", "check", "claim", "write", "publish", "count", "gone"},
                i : 0..PerProducer, pos : Nat]
  BY DEF ProducerStates
<1>2. \A a \in {"load", "check", "claim", "write", "publish", "count", "gone"} :
         [f EXCEPT ![p].at = a] \in ProducerStates
  BY <1>1 DEF ProducerStates
<1>3. \A n \in Nat : [f EXCEPT ![p].pos = n] \in ProducerStates
  BY <1>1 DEF ProducerStates
<1> QED
  BY <1>2, <1>3

LEMMA ConsumerField ==
    ASSUME NEW f \in ConsumerStates, NEW c \in Consumers
    PROVE  /\ \A a \in {"top", "load", "check", "claim", "read", "release",
                         "test", "mark", "count", "gone"} :
                 [f EXCEPT ![c].at = a] \in ConsumerStates
           /\ \A n \in Nat : [f EXCEPT ![c].pos = n] \in ConsumerStates
           /\ \A v \in Items \cup {NoItem} : [f EXCEPT ![c].val = v] \in ConsumerStates
           /\ \A b \in SUBSET Items : [f EXCEPT ![c].byte = b] \in ConsumerStates
<1>1. f[c] \in [at : {"top", "load", "check", "claim", "read", "release",
                      "test", "mark", "count", "gone"},
                pos : Nat, val : Items \cup {NoItem}, byte : SUBSET Items]
  BY DEF ConsumerStates
<1>2. \A a \in {"top", "load", "check", "claim", "read", "release",
                "test", "mark", "count", "gone"} :
         [f EXCEPT ![c].at = a] \in ConsumerStates
  BY <1>1 DEF ConsumerStates
<1>3. \A n \in Nat : [f EXCEPT ![c].pos = n] \in ConsumerStates
  BY <1>1 DEF ConsumerStates
<1>4. \A v \in Items \cup {NoItem} : [f EXCEPT ![c].val = v] \in ConsumerStates
  BY <1>1 DEF ConsumerStates
<1>5. \A b \in SUBSET Items : [f EXCEPT ![c].byte = b] \in ConsumerStates
  BY <1>1 DEF ConsumerStates
<1> QED
  BY <1>2, <1>3, <1>4, <1>5

\* A step that changes nothing but where one producer is, with its view.
LEMMA ProducerMoves ==
    ASSUME RingInv, NEW p \in Producers, UNCHANGED <<ring, cons>>, RingType',
           \A q \in Producers : q # p => prod'[q] = prod[q],
           prod'[p].at \notin {"write", "publish"},
           prod'[p].pos <= tail, prod'[p].at # "gone" => prod'[p].i < PerProducer,
           prod'[p].at = "claim" /\ prod'[p].pos = tail => seq[Slot(tail)] = tail
    PROVE  RingInv'
<1>1. Window' /\ Readers'
  BY DEF RingInv, Window, Readers, ring
<1>2. Writers'
  BY DEF RingInv, Writers, ring
<1> QED
  BY <1>1, <1>2 DEF RingInv

LEMMA EnqLoadStep ==
    ASSUME RingInv, NEW p \in Producers, EnqLoad(p)
    PROVE  RingInv'
<1>1. /\ prod[p].at = "load" /\ UNCHANGED <<ring, cons, produced_count, results, main>>
      /\ prod' = [[prod EXCEPT ![p].at = "check"] EXCEPT ![p].pos = tail]
  BY DEF EnqLoad, EnqFrame
<1>2. prod \in ProducerStates /\ tail \in Nat
  BY StateFacts, TypeFacts DEF RingInv
<1>3. prod' \in ProducerStates
  BY <1>1, <1>2, ProducerField
<1>4. RingType'
  BY <1>1, <1>3 DEF RingInv, RingType, ProducerStates, ring, results
<1>5. /\ prod'[p].at = "check" /\ prod'[p].pos = tail /\ prod'[p].i = prod[p].i
      /\ \A q \in Producers : q # p => prod'[q] = prod[q]
  BY <1>1, <1>2 DEF ProducerStates
<1>6. prod[p].i < PerProducer /\ tail <= tail
  BY <1>1, <1>2 DEF RingInv, Writers
<1> QED
  BY <1>1, <1>4, <1>5, <1>6, ProducerMoves

LEMMA EnqCheckStep ==
    ASSUME RingInv, NEW p \in Producers, EnqCheck(p)
    PROVE  RingInv'
<1>1. /\ prod[p].at = "check" /\ UNCHANGED <<ring, cons, produced_count, results, main>>
      /\ prod' = [prod EXCEPT ![p].at = IF SlotFree(p) THEN "claim" ELSE "load"]
  BY DEF EnqCheck, EnqFrame
<1>2. prod \in ProducerStates
  BY StateFacts DEF RingInv
<1>3. prod' \in ProducerStates
  BY <1>1, <1>2, ProducerField
<1>4. RingType'
  BY <1>1, <1>3 DEF RingInv, RingType, ProducerStates, ring, results
<1>5. /\ prod'[p].at = IF SlotFree(p) THEN "claim" ELSE "load"
      /\ prod'[p].pos = prod[p].pos /\ prod'[p].i = prod[p].i
      /\ \A q \in Producers : q # p => prod'[q] = prod[q]
  BY <1>1, <1>2 DEF ProducerStates
<1>6. prod[p].i < PerProducer /\ prod[p].pos <= tail
  BY <1>1 DEF RingInv, Writers
<1>7. prod'[p].at = "claim" /\ prod'[p].pos = tail => seq[Slot(tail)] = tail
  BY <1>5 DEF SlotFree
<1> QED
  BY <1>1, <1>4, <1>5, <1>6, <1>7, ProducerMoves

LEMMA ProducedStep ==
    ASSUME RingInv, NEW p \in Producers, Produced(p)
    PROVE  RingInv'
<1>1. RingType'
  BY RingAssumption DEF RingInv, RingType, Writers, Produced, EnqFrame, ring, results
<1>2. /\ prod'[p].at = IF prod[p].i + 1 < PerProducer THEN "load" ELSE "gone"
      /\ prod'[p].i = prod[p].i + 1 /\ prod'[p].pos = 0
      /\ \A q \in Producers : q # p => prod'[q] = prod[q]
  BY DEF RingInv, RingType, Produced
<1>3. UNCHANGED <<ring, cons>>
  BY DEF Produced, EnqFrame
<1> QED
  BY <1>1, <1>2, <1>3, ProducerMoves, TypeFacts DEF RingInv

\* The exchange: the slot of tail is free, so that tail is inside the window.
LEMMA EnqClaimStep ==
    ASSUME RingInv, NEW p \in Producers, EnqClaim(p)
    PROVE  RingInv'
<1>1. RingType
  BY DEF RingInv
<1>2. CASE ~TailUnmoved(p)
  <2>1. /\ prod' = [prod EXCEPT ![p].at = "load"] /\ UNCHANGED <<ring, cons>>
        /\ UNCHANGED <<produced_count, consumed_count, bitmap, main>>
    BY <1>2 DEF EnqClaim, EnqFrame, ring, results
  <2>2. RingType'
    BY <1>1, <2>1 DEF RingType, ring
  <2>3. /\ prod'[p].at = "load" /\ prod'[p].i = prod[p].i /\ prod'[p].pos = prod[p].pos
        /\ \A q \in Producers : q # p => prod'[q] = prod[q]
    BY <1>1, <2>1 DEF RingType
  <2>4. prod[p].pos <= tail /\ prod[p].i < PerProducer
    BY DEF RingInv, Writers, EnqClaim
  <2> QED
    BY <2>1, <2>2, <2>3, <2>4, ProducerMoves
<1>3. CASE TailUnmoved(p)
  <2>1. /\ prod[p].at = "claim" /\ prod[p].pos = tail /\ seq[Slot(tail)] = tail
        /\ tail' = tail + 1 /\ UNCHANGED <<seq, data, head, cons>>
        /\ prod' = [prod EXCEPT ![p].at = "write"]
        /\ UNCHANGED <<produced_count, consumed_count, bitmap, main>>
    BY <1>3 DEF RingInv, Writers, EnqClaim, EnqFrame, TailUnmoved, results
  <2>2. tail < head + Cap
    <3> SUFFICES ASSUME tail = head + Cap PROVE FALSE
      BY <1>1, TypeFacts, CapFacts DEF RingInv, Window
    <3>1. head \in Nat /\ Slot(tail) = Slot(head)
      BY <1>1, TypeFacts, SlotFacts
    <3>2. seq[Slot(head)] = head \/ seq[Slot(head)] = head + 1
      BY <3>1, CapFacts DEF RingInv, Window
    <3> QED
      BY <2>1, <3>1, <3>2, CapFacts
  <2>3. RingType'
    BY <1>1, <2>1 DEF RingType
  <2>4. Window'
    BY <1>1, <2>1, <2>2, TypeFacts, CapFacts DEF RingInv, Window
  <2>5. /\ prod'[p].at = "write" /\ prod'[p].i = prod[p].i /\ prod'[p].pos = tail
        /\ \A q \in Producers : q # p => prod'[q] = prod[q]
    BY <1>1, <2>1 DEF RingType
  <2>6. Writers'
    <3> SUFFICES ASSUME NEW q \in Producers PROVE Writers!(q)'
      BY DEF Writers
    <3>1. CASE q = p
      BY <1>1, <2>1, <2>5, <3>1, TypeFacts DEF RingInv, Window, Writers
    <3>2. CASE q # p
      BY <1>1, <2>1, <2>5, <3>2, TypeFacts DEF RingInv, Writers
    <3> QED
      BY <3>1, <3>2
  <2>7. Readers'
    <3>1. ASSUME NEW c \in Consumers, cons[c].at \in {"read", "release"}
          PROVE  tail + 1 <= cons[c].pos + Cap
      <4>1. /\ cons[c].pos \in Nat /\ tail \in Nat /\ tail <= cons[c].pos + Cap
            /\ seq[Slot(cons[c].pos)] = cons[c].pos + 1
        BY <1>1, <3>1, TypeFacts DEF RingInv, Readers
      <4>2. tail # cons[c].pos + Cap
        BY <2>1, <4>1, SlotFacts, CapFacts
      <4> QED
        BY <4>1, <4>2, CapFacts
    <3> QED
      BY <2>1, <3>1 DEF RingInv, Readers
  <2> QED
    BY <2>3, <2>4, <2>6, <2>7 DEF RingInv
<1> QED
  BY <1>2, <1>3

LEMMA EnqWriteStep ==
    ASSUME RingInv, NEW p \in Producers, EnqWrite(p)
    PROVE  RingInv'
<1>1. /\ prod[p].at = "write" /\ UNCHANGED <<seq, head, tail, cons>>
      /\ prod' = [prod EXCEPT ![p].at = "publish"]
      /\ data' = [data EXCEPT ![Slot(prod[p].pos)] = Item(p)]
  BY DEF EnqWrite, EnqFrame
<1>2. Item(p) \in Items /\ Slot(prod[p].pos) \in Slots
  <2>1. /\ prod[p].pos \in Nat /\ prod[p].i \in 0..PerProducer /\ prod[p].i < PerProducer
    BY <1>1, TypeFacts DEF RingInv, Writers
  <2>2. prod[p].i \in 0..PerProducer-1
    BY <2>1, RingAssumption
  <2> QED
    BY <2>1, <2>2, ItemRange, SlotFacts DEF Item
<1>3. RingType'
  BY <1>2 DEF RingInv, RingType, EnqWrite, EnqFrame, results
<1>4. \A s \in Slots : data'[s] = data[s] \/ data'[s] \in Items
  BY <1>1, <1>2 DEF RingInv, RingType
<1>5. Window'
  BY <1>1, <1>4, SlotFacts DEF RingInv, RingType, Window
<1>6. Writers'
  BY <1>1, <1>2, <1>4, SlotFacts DEF RingInv, RingType, Writers
<1>7. Readers'
  BY <1>1, <1>4, SlotFacts DEF RingInv, RingType, Readers
<1> QED
  BY <1>3, <1>5, <1>6, <1>7 DEF RingInv

LEMMA EnqPublishStep ==
    ASSUME RingInv, NEW p \in Producers, EnqPublish(p)
    PROVE  RingInv'
<1> DEFINE x == prod[p].pos
<1>1. /\ prod[p].at = "publish" /\ UNCHANGED <<data, head, tail, cons>>
      /\ prod' = [prod EXCEPT ![p].at = "count"]
      /\ seq' = [seq EXCEPT ![Slot(x)] = x + 1]
  BY DEF EnqPublish, EnqFrame
<1>2. /\ x \in Nat /\ Slot(x) \in Slots /\ seq[Slot(x)] = x /\ data[Slot(x)] \in Items
      /\ head <= x /\ x < tail
  BY <1>1, SlotFacts DEF RingInv, RingType, Writers
<1>3. RingType'
  BY <1>2 DEF RingInv, RingType, EnqPublish, EnqFrame, results
<1>4. \A s \in Slots : s # Slot(x) => seq'[s] = seq[s]
  BY <1>1, <1>2 DEF RingInv, RingType
<1>5. seq'[Slot(x)] = x + 1
  BY <1>1, <1>2 DEF RingInv, RingType
<1>6. Window'
  <2>1. ASSUME NEW y \in Nat, head <= y, y < head + Cap, y # x
        PROVE  Slot(y) # Slot(x)
    <3>1. head \in Nat /\ tail \in Nat /\ tail <= head + Cap /\ Cap \in Nat
      BY CapFacts, TypeFacts DEF RingInv, Window
    <3>2. Slot(y) = Slot(x) /\ x < y => y >= x + Cap
      BY <1>2, SlotFacts
    <3>3. Slot(y) = Slot(x) /\ y < x => x >= y + Cap
      BY <1>2, SlotFacts
    <3> QED
      BY <1>2, <2>1, <3>1, <3>2, <3>3
  <2>2. ASSUME NEW y \in Nat, head <= y, y < head + Cap, y # x
        PROVE  seq'[Slot(y)] = seq[Slot(y)]
    BY <1>4, <2>1, <2>2, SlotFacts
  <2>3. head \in Nat /\ tail \in Nat /\ tail <= head + Cap
    BY TypeFacts DEF RingInv, Window
  <2> QED
    BY <1>1, <1>2, <1>5, <2>2, <2>3, CapFacts DEF RingInv, Window
<1>7. Writers'
  BY <1>1, <1>2, <1>4, SlotFacts, CapFacts DEF RingInv, RingType, Window, Writers
<1>8. Readers'
  BY <1>1, <1>2, <1>4, SlotFacts, CapFacts DEF RingInv, RingType, Window, Readers
<1> QED
  BY <1>3, <1>6, <1>7, <1>8 DEF RingInv

\* The same for a consumer: a step that changes nothing of the ring and
\* neither claims nor reads.
LEMMA ConsumerMoves ==
    ASSUME RingInv, NEW c \in Consumers, UNCHANGED <<ring, prod>>, RingType',
           \A d \in Consumers : d # c => cons'[d] = cons[d],
           cons'[c].at \notin {"read", "release"}, cons'[c].pos <= head,
           cons'[c].at = "claim" /\ cons'[c].pos = head => seq[Slot(head)] = head + 1,
           cons'[c].val \in Items <=> cons'[c].at \in {"release", "test", "mark", "count"}
    PROVE  RingInv'
<1>1. Window' /\ Writers'
  BY DEF RingInv, Window, Writers, ring
<1>2. Readers'
  BY DEF RingInv, Readers, ring
<1> QED
  BY <1>1, <1>2 DEF RingInv

LEMMA ConsumerTopStep ==
    ASSUME RingInv, NEW c \in Consumers, ConsumerTop(c)
    PROVE  RingInv'
<1>1. RingType'
  BY DEF RingInv, RingType, ConsumerTop, DeqFrame, ring, results
<1>2. /\ cons'[c].at \in {"load", "gone"}
      /\ cons'[c].pos = cons[c].pos /\ cons'[c].val = cons[c].val
      /\ \A d \in Consumers : d # c => cons'[d] = cons[d]
  BY DEF RingInv, RingType, ConsumerTop
<1>3. UNCHANGED <<ring, prod>> /\ cons[c].pos <= head /\ cons[c].val \notin Items
  BY DEF RingInv, Readers, ConsumerTop, DeqFrame
<1> QED
  BY <1>1, <1>2, <1>3, ConsumerMoves

LEMMA DeqLoadStep ==
    ASSUME RingInv, NEW c \in Consumers, DeqLoad(c)
    PROVE  RingInv'
<1>1. RingType'
  <2>1. /\ cons' = [[cons EXCEPT ![c].at = "check"] EXCEPT ![c].pos = head]
        /\ UNCHANGED <<ring, prod, produced_count, results, main>>
    BY DEF DeqLoad, DeqFrame
  <2>2. cons \in ConsumerStates /\ head \in Nat
    BY StateFacts, TypeFacts DEF RingInv
  <2>3. cons' \in ConsumerStates
    BY <2>1, <2>2, ConsumerField
  <2> QED
    BY <2>1, <2>3 DEF RingInv, RingType, ConsumerStates, ring, results
<1>2. /\ cons'[c].at = "check" /\ cons'[c].pos = head /\ cons'[c].val = cons[c].val
      /\ \A d \in Consumers : d # c => cons'[d] = cons[d]
  BY DEF RingInv, RingType, DeqLoad
<1>3. UNCHANGED <<ring, prod>> /\ cons[c].val \notin Items /\ head <= head
  BY TypeFacts DEF RingInv, Readers, DeqLoad, DeqFrame
<1> QED
  BY <1>1, <1>2, <1>3, ConsumerMoves

LEMMA DeqCheckStep ==
    ASSUME RingInv, NEW c \in Consumers, DeqCheck(c)
    PROVE  RingInv'
<1>1. /\ cons[c].at = "check" /\ UNCHANGED <<ring, prod>>
      /\ cons' = [cons EXCEPT ![c].at = Verdict(seq[Slot(cons[c].pos)], cons[c].pos)]
      /\ UNCHANGED <<produced_count, consumed_count, bitmap, main>>
  BY DEF DeqCheck, DeqFrame, results
<1>2. Verdict(seq[Slot(cons[c].pos)], cons[c].pos) \in {"claim", "top", "load"}
  BY DEF Verdict
<1>3. RingType'
  BY <1>1, <1>2 DEF RingInv, RingType, ring
<1>4. /\ cons'[c].at \in {"claim", "top", "load"}
      /\ cons'[c].at = "claim" => seq[Slot(cons[c].pos)] = cons[c].pos + 1
      /\ cons'[c].pos = cons[c].pos /\ cons'[c].val = cons[c].val
      /\ \A d \in Consumers : d # c => cons'[d] = cons[d]
  BY <1>1, <1>2 DEF RingInv, RingType, Verdict
<1>5. cons[c].pos <= head /\ cons[c].val \notin Items
  BY <1>1 DEF RingInv, Readers
<1> QED
  BY <1>1, <1>3, <1>4, <1>5, ConsumerMoves

LEMMA TestBitStep ==
    ASSUME RingInv, NEW c \in Consumers, TestBit(c)
    PROVE  RingInv'
<1>1. /\ cons[c].at = "test" /\ UNCHANGED <<ring, prod>>
      /\ cons' = [cons EXCEPT ![c].at = "mark", ![c].byte = bitmap[ByteOf(cons[c].val)]]
      /\ UNCHANGED <<produced_count, consumed_count, bitmap, main>>
  BY DEF TestBit, DeqFrame, results
<1>2. cons[c].pos <= head /\ cons[c].val \in Items
  BY <1>1 DEF RingInv, Readers
<1>3. bitmap[ByteOf(cons[c].val)] \in SUBSET Items
  BY <1>2 DEF RingInv, RingType, Bytes
<1>4. RingType'
  <2>1. cons \in ConsumerStates
    BY StateFacts DEF RingInv
  <2>2. [cons EXCEPT ![c].at = "mark"] \in ConsumerStates
    BY <2>1, ConsumerField
  <2>3. cons' = [[cons EXCEPT ![c].at = "mark"]
                    EXCEPT ![c].byte = bitmap[ByteOf(cons[c].val)]]
    BY <1>1
  <2>4. cons' \in ConsumerStates
    BY <1>3, <2>2, <2>3, ConsumerField
  <2> QED
    BY <1>1, <2>4 DEF RingInv, RingType, ConsumerStates, ring
<1>5. /\ cons'[c].at = "mark" /\ cons'[c].pos = cons[c].pos /\ cons'[c].val = cons[c].val
      /\ \A d \in Consumers : d # c => cons'[d] = cons[d]
  BY <1>1 DEF RingInv, RingType
<1> QED
  BY <1>1, <1>2, <1>4, <1>5, ConsumerMoves

LEMMA SetBitStep ==
    ASSUME RingInv, NEW c \in Consumers, SetBit(c)
    PROVE  RingInv'
<1>1. /\ cons[c].at = "mark" /\ UNCHANGED <<ring, prod>>
      /\ bitmap' = [bitmap EXCEPT ![ByteOf(cons[c].val)] = cons[c].byte \cup {cons[c].val}]
      /\ cons' = [cons EXCEPT ![c].at = "count", ![c].byte = {}]
      /\ UNCHANGED <<produced_count, consumed_count, main>>
  BY DEF SetBit, DeqFrame
<1>2. cons[c].pos <= head /\ cons[c].val \in Items
  BY <1>1 DEF RingInv, Readers
<1>3. cons[c].byte \cup {cons[c].val} \in SUBSET Items
  BY <1>2 DEF RingInv, RingType
<1>4. RingType'
  <2>1. cons \in ConsumerStates
    BY StateFacts DEF RingInv
  <2>2. [cons EXCEPT ![c].at = "count"] \in ConsumerStates
    BY <2>1, ConsumerField
  <2>3. cons' = [[cons EXCEPT ![c].at = "count"] EXCEPT ![c].byte = {}]
    BY <1>1
  <2>4. cons' \in ConsumerStates
    BY <2>2, <2>3, ConsumerField
  <2>5. bitmap' \in [Bytes -> SUBSET Items]
    BY <1>1, <1>3 DEF RingInv, RingType
  <2> QED
    BY <1>1, <2>4, <2>5 DEF RingInv, RingType, ConsumerStates, ring
<1>5. /\ cons'[c].at = "count" /\ cons'[c].pos = cons[c].pos /\ cons'[c].val = cons[c].val
      /\ \A d \in Consumers : d # c => cons'[d] = cons[d]
  BY <1>1 DEF RingInv, RingType
<1> QED
  BY <1>1, <1>2, <1>4, <1>5, ConsumerMoves

LEMMA ConsumedStep ==
    ASSUME RingInv, NEW c \in Consumers, Consumed(c)
    PROVE  RingInv'
<1>1. RingType'
  <2>1. /\ cons' = [cons EXCEPT ![c].at = "top", ![c].val = NoItem, ![c].pos = 0]
        /\ consumed_count' = consumed_count + 1
        /\ UNCHANGED <<ring, prod, produced_count, bitmap, main>>
    BY DEF Consumed, DeqFrame
  <2>2. cons \in ConsumerStates /\ 0 \in Nat
    BY StateFacts DEF RingInv
  <2>3. [cons EXCEPT ![c].at = "top"] \in ConsumerStates
    BY <2>2, ConsumerField
  <2>4. [[cons EXCEPT ![c].at = "top"] EXCEPT ![c].val = NoItem] \in ConsumerStates
    BY <2>3, ConsumerField
  <2>5. cons' = [[[cons EXCEPT ![c].at = "top"] EXCEPT ![c].val = NoItem] EXCEPT ![c].pos = 0]
    BY <2>1
  <2>6. cons' \in ConsumerStates
    BY <2>2, <2>4, <2>5, ConsumerField
  <2> QED
    BY <2>1, <2>6 DEF RingInv, RingType, ConsumerStates, ring
<1>2. /\ cons'[c].at = "top" /\ cons'[c].pos = 0 /\ cons'[c].val = NoItem
      /\ \A d \in Consumers : d # c => cons'[d] = cons[d]
  BY DEF RingInv, RingType, Consumed
<1>3. UNCHANGED <<ring, prod>> /\ 0 <= head
  BY TypeFacts DEF RingInv, Consumed, DeqFrame
<1> QED
  BY <1>1, <1>2, <1>3, NoItemFacts, ConsumerMoves

\* The exchange of a consumer: the slot of head is published, so that head is
\* in the queue and no producer is on it.
LEMMA HeadPublished ==
    ASSUME RingInv, seq[Slot(head)] = head + 1
    PROVE  /\ head < tail /\ data[Slot(head)] \in Items
           /\ \A p \in Producers : prod[p].at \in {"write", "publish"} => prod[p].pos > head
<1>1. head \in Nat /\ tail \in Nat /\ head <= tail
  BY TypeFacts DEF RingInv, Window
<1>2. head < tail
  BY <1>1, CapFacts DEF RingInv, Window
<1>3. data[Slot(head)] \in Items
  BY <1>1, <1>2 DEF RingInv, Window
<1>4. ASSUME NEW p \in Producers, prod[p].at \in {"write", "publish"}
      PROVE  prod[p].pos > head
  BY <1>1, <1>4, TypeFacts DEF RingInv, Writers
<1> QED
  BY <1>2, <1>3, <1>4

LEMMA DeqClaimStep ==
    ASSUME RingInv, NEW c \in Consumers, DeqClaim(c)
    PROVE  RingInv'
<1>1. RingType /\ cons[c].at = "claim" /\ cons[c].pos <= head /\ cons[c].val \notin Items
  BY DEF RingInv, Readers, DeqClaim
<1>2. CASE ~HeadUnmoved(c)
  <2>1. /\ cons' = [cons EXCEPT ![c].at = "load"] /\ UNCHANGED <<ring, prod>>
        /\ UNCHANGED <<produced_count, consumed_count, bitmap, main>>
    BY <1>2 DEF DeqClaim, DeqFrame, ring, results
  <2>2. RingType'
    BY <1>1, <2>1 DEF RingType, ring
  <2>3. /\ cons'[c].at = "load" /\ cons'[c].val = cons[c].val /\ cons'[c].pos = cons[c].pos
        /\ \A d \in Consumers : d # c => cons'[d] = cons[d]
    BY <1>1, <2>1 DEF RingType
  <2> QED
    BY <1>1, <2>1, <2>2, <2>3, ConsumerMoves
<1>3. CASE HeadUnmoved(c)
  <2>1. /\ cons[c].pos = head /\ seq[Slot(head)] = head + 1
        /\ head' = head + 1 /\ UNCHANGED <<seq, data, tail, prod>>
        /\ cons' = [cons EXCEPT ![c].at = "read"]
        /\ UNCHANGED <<produced_count, consumed_count, bitmap, main>>
    BY <1>3 DEF RingInv, Readers, DeqClaim, DeqFrame, HeadUnmoved, results
  <2>2. /\ head \in Nat /\ tail \in Nat /\ head < tail /\ data[Slot(head)] \in Items
        /\ \A p \in Producers : prod[p].at \in {"write", "publish"} => prod[p].pos > head
    BY <1>1, <2>1, TypeFacts, HeadPublished
  <2>3. RingType'
    BY <1>1, <2>1 DEF RingType
  <2>4. Window'
    <3>1. seq[Slot(head + Cap)] + Cap = (head + Cap) + 1
      <4>1. Slot(head + Cap) = Slot(head)
        BY <2>2, SlotFacts
      <4> QED
        BY <2>1, <2>2, <4>1, CapFacts
    <3> QED
      BY <2>1, <2>2, <3>1, CapFacts DEF RingInv, Window
  <2>5. Writers'
    BY <1>1, <2>1, <2>2, TypeFacts DEF RingInv, Writers
  <2>6. /\ cons'[c].at = "read" /\ cons'[c].val = cons[c].val /\ cons'[c].pos = head
        /\ \A d \in Consumers : d # c => cons'[d] = cons[d]
    BY <1>1, <2>1 DEF RingType
  <2>7. Readers'
    <3> SUFFICES ASSUME NEW d \in Consumers PROVE Readers!(d)'
      BY DEF Readers
    <3>1. CASE d = c
      BY <1>1, <2>1, <2>2, <2>6, <3>1, TypeFacts DEF RingInv, Window, Readers
    <3>2. CASE d # c
      BY <1>1, <2>1, <2>2, <2>6, <3>2, TypeFacts DEF RingInv, Readers
    <3> QED
      BY <3>1, <3>2
  <2> QED
    BY <2>3, <2>4, <2>5, <2>7 DEF RingInv
<1> QED
  BY <1>2, <1>3

LEMMA DeqReadStep ==
    ASSUME RingInv, NEW c \in Consumers, DeqRead(c)
    PROVE  RingInv'
<1>1. /\ cons[c].at = "read" /\ UNCHANGED <<ring, prod>>
      /\ cons' = [cons EXCEPT ![c].at = "release", ![c].val = data[Slot(cons[c].pos)]]
      /\ UNCHANGED <<produced_count, consumed_count, bitmap, main>>
  BY DEF DeqRead, DeqFrame, results
<1>2. data[Slot(cons[c].pos)] \in Items
  BY <1>1 DEF RingInv, Readers
<1>3. RingType'
  <2>1. cons \in ConsumerStates
    BY StateFacts DEF RingInv
  <2>2. [cons EXCEPT ![c].at = "release"] \in ConsumerStates
    BY <2>1, ConsumerField
  <2>3. cons' = [[cons EXCEPT ![c].at = "release"] EXCEPT ![c].val = data[Slot(cons[c].pos)]]
    BY <1>1
  <2>4. cons' \in ConsumerStates
    BY <1>2, <2>2, <2>3, ConsumerField
  <2> QED
    BY <1>1, <2>4 DEF RingInv, RingType, ConsumerStates, ring
<1>4. /\ cons'[c].at = "release" /\ cons'[c].pos = cons[c].pos /\ cons'[c].val \in Items
      /\ \A d \in Consumers : d # c => cons'[d] = cons[d]
  BY <1>1, <1>2 DEF RingInv, RingType
<1>5. Window' /\ Writers'
  BY <1>1 DEF RingInv, Window, Writers, ring
<1>6. Readers'
  <2> SUFFICES ASSUME NEW d \in Consumers PROVE Readers!(d)'
    BY DEF Readers
  <2>0. /\ \A e \in Consumers :
              /\ cons'[e].pos = cons[e].pos
              /\ cons'[e].at \in {"read", "release"} <=> cons[e].at \in {"read", "release"}
        /\ seq' = seq /\ data' = data /\ head' = head /\ tail' = tail
    BY <1>1, <1>4 DEF ring
  <2>1. CASE d = c
    BY <1>4, <2>0, <2>1 DEF RingInv, Readers
  <2>2. CASE d # c
    BY <1>4, <2>0, <2>2 DEF RingInv, Readers
  <2> QED
    BY <2>1, <2>2
<1> QED
  BY <1>3, <1>5, <1>6 DEF RingInv

\* The slot goes to the next lap; no other thread looks at it.
LEMMA DeqReleaseStep ==
    ASSUME RingInv, NEW c \in Consumers, DeqRelease(c)
    PROVE  RingInv'
<1> DEFINE x == cons[c].pos
<1>1. /\ cons[c].at = "release" /\ UNCHANGED <<data, head, tail, prod>>
      /\ seq' = [seq EXCEPT ![Slot(x)] = x + Cap]
      /\ cons' = [cons EXCEPT ![c].at = "test"]
      /\ UNCHANGED <<produced_count, consumed_count, bitmap, main>>
  BY DEF DeqRelease, DeqFrame, results
<1>2. /\ x \in Nat /\ Slot(x) \in Slots /\ seq[Slot(x)] = x + 1 /\ Slot(x + Cap) = Slot(x)
      /\ x < head /\ tail <= x + Cap /\ head \in Nat /\ tail \in Nat
      /\ head <= tail /\ tail <= head + Cap
  BY <1>1, SlotFacts, TypeFacts DEF RingInv, Readers, Window
<1>3. RingType'
  BY <1>1, <1>2, CapFacts DEF RingInv, RingType
<1>4. \A s \in Slots : s # Slot(x) => seq'[s] = seq[s]
  BY <1>1, <1>2 DEF RingInv, RingType
<1>5. seq'[Slot(x)] = x + Cap
  BY <1>1, <1>2 DEF RingInv, RingType
<1>6. ASSUME NEW y \in Nat, head <= y, y < head + Cap, y # x + Cap
      PROVE  Slot(y) # Slot(x) /\ seq'[Slot(y)] = seq[Slot(y)]
  <2>1. Slot(y) # Slot(x + Cap)
    <3>1. x + Cap \in Nat /\ head <= x + Cap /\ x + Cap < head + Cap
      BY <1>2, CapFacts
    <3>2. ~(y >= x + Cap + Cap) /\ ~(x + Cap >= y + Cap)
      BY <1>2, <1>6, <3>1, CapFacts
    <3>3. y < x + Cap \/ x + Cap < y
      BY <1>6, <3>1
    <3> QED
      BY <3>1, <3>2, <3>3, SlotFacts
  <2> QED
    BY <1>2, <1>4, <2>1, SlotFacts
<1>7. Window'
  BY <1>1, <1>2, <1>5, <1>6, CapFacts DEF RingInv, Window
<1>8. Writers'
  <2>1. ASSUME NEW p \in Producers, prod[p].at \in {"write", "publish"}
        PROVE  seq'[Slot(prod[p].pos)] = prod[p].pos
    BY <1>2, <1>6, <2>1, TypeFacts, CapFacts DEF RingInv, Writers
  <2>2. ASSUME seq[Slot(tail)] = tail PROVE seq'[Slot(tail)] = tail
    BY <1>2, <1>4, <2>2, SlotFacts, CapFacts
  <2> QED
    BY <1>1, <2>1, <2>2 DEF RingInv, Writers
<1>9. Readers'
  <2>1. /\ cons'[c].at = "test" /\ cons'[c].pos = cons[c].pos /\ cons'[c].val = cons[c].val
        /\ \A d \in Consumers : d # c => cons'[d] = cons[d]
    BY <1>1 DEF RingInv, RingType
  <2>2. ASSUME NEW d \in Consumers, d # c, cons[d].at \in {"read", "release"}
        PROVE  seq'[Slot(cons[d].pos)] = cons[d].pos + 1
    <3>1. cons[d].pos \in Nat /\ seq[Slot(cons[d].pos)] = cons[d].pos + 1 /\ cons[d].pos # x
      BY <1>1, <2>2, TypeFacts DEF RingInv, Readers
    <3> QED
      BY <1>2, <1>4, <3>1, SlotFacts
  <2>3. ASSUME seq[Slot(head)] = head + 1 PROVE seq'[Slot(head)] = head + 1
    BY <1>2, <1>4, <2>3, SlotFacts
  <2> QED
    BY <1>1, <2>1, <2>2, <2>3 DEF RingInv, Readers
<1> QED
  BY <1>3, <1>7, <1>8, <1>9 DEF RingInv

LEMMA VerifyStep == RingInv /\ Verify => RingInv'
<1> SUFFICES ASSUME RingInv, Verify PROVE RingInv'
  OBVIOUS
<1>1. RingType'
  BY DEF RingInv, RingType, Verify, ring, results
<1>2. Window' /\ Writers' /\ Readers'
  BY DEF RingInv, Window, Writers, Readers, Verify, ring
<1> QED
  BY <1>1, <1>2 DEF RingInv

LEMMA RingStep == RingInv /\ [Next]_vars => RingInv'
<1> SUFFICES ASSUME RingInv, [Next]_vars PROVE RingInv'
  OBVIOUS
<1>1. ASSUME NEW p \in Producers, producer(p) PROVE RingInv'
  BY <1>1, EnqLoadStep, EnqCheckStep, EnqClaimStep, EnqWriteStep, EnqPublishStep, ProducedStep
  DEF producer
<1>2. ASSUME NEW c \in Consumers, consumer(c) PROVE RingInv'
  BY <1>2, ConsumerTopStep, DeqLoadStep, DeqCheckStep, DeqClaimStep, DeqReadStep,
     DeqReleaseStep, TestBitStep, SetBitStep, ConsumedStep
  DEF consumer
<1>3. CASE UNCHANGED vars
  <2>1. RingType'
    BY <1>3 DEF RingInv, RingType, vars, ring, results
  <2>2. Window' /\ Writers' /\ Readers'
    BY <1>3 DEF RingInv, Window, Writers, Readers, vars, ring
  <2> QED
    BY <2>1, <2>2 DEF RingInv
<1> QED
  BY <1>1, <1>2, <1>3, VerifyStep DEF Next

THEOREM RingInvariant == Spec => []RingInv
<1> QED
  BY RingInit, RingStep, PTL DEF Spec

\* A slot is never in the hands of two threads.
THEOREM Exclusive == Spec => []SlotExclusive
<1>1. RingInv => SlotExclusive
  <2> SUFFICES ASSUME RingInv PROVE SlotExclusive
    OBVIOUS
  <2>1. ASSUME NEW p \in Producers, Holds(prod[p])
        PROVE  /\ prod[p].pos \in Nat /\ seq[Slot(prod[p].pos)] = prod[p].pos
               /\ prod[p].at \in {"write", "publish"}
    <3>1. prod[p].at \in {"write", "publish"}
      BY <2>1 DEF Holds, RingInv, RingType
    <3> QED
      BY <3>1, TypeFacts DEF RingInv, Writers
  <2>2. ASSUME NEW c \in Consumers, Holds(cons[c])
        PROVE  /\ cons[c].pos \in Nat /\ seq[Slot(cons[c].pos)] = cons[c].pos + 1
               /\ cons[c].at \in {"read", "release"}
    <3>1. cons[c].at \in {"read", "release"}
      BY <2>2 DEF Holds, RingInv, RingType
    <3> QED
      BY <3>1, TypeFacts DEF RingInv, Readers
  <2>3. ASSUME NEW p \in Producers, NEW c \in Consumers, Holds(prod[p]), Holds(cons[c])
        PROVE  Slot(prod[p].pos) # Slot(cons[c].pos)
    BY <2>1, <2>2, <2>3, SlotFacts, CapFacts
  <2>4. ASSUME NEW p \in Producers, NEW q \in Producers, p # q, Holds(prod[p]), Holds(prod[q])
        PROVE  Slot(prod[p].pos) # Slot(prod[q].pos)
    BY <2>1, <2>4 DEF RingInv, Writers
  <2>5. ASSUME NEW c \in Consumers, NEW d \in Consumers, c # d, Holds(cons[c]), Holds(cons[d])
        PROVE  Slot(cons[c].pos) # Slot(cons[d].pos)
    BY <2>2, <2>5 DEF RingInv, Readers
  <2> QED
    BY <2>3, <2>4, <2>5 DEF SlotExclusive
<1> QED
  BY <1>1, RingInvariant, PTL

-----------------------------------------------------------------------------
(***************************************************************************)
(* How many items there are at each place, which bounds every counter.     *)
(***************************************************************************)
Sending == {"write", "publish", "count"}
Working == {"read", "release", "test", "mark", "count"}

\* Producers that have claimed a position for an item they have not counted;
\* the consumers likewise; and the items that were given a position.
Writing == {p \in Producers : prod[p].at \in Sending}
Reading == {c \in Consumers : cons[c].at \in Working}
Entered == {e \in Producers \X (0..PerProducer-1) : e[2] < Sent[e[1]]}

Tally ==
    /\ produced_count + Cardinality(Writing) = tail
    /\ consumed_count + Cardinality(Reading) = head
    /\ Cardinality(Entered) = tail
    /\ \A s \in Slots : seq[s] <= tail + Cap

LEMMA Finite ==
    /\ IsFiniteSet(Writing) /\ IsFiniteSet(Reading) /\ IsFiniteSet(Entered)
    /\ Cardinality(Writing) \in Nat /\ Cardinality(Reading) \in Nat
    /\ Cardinality(Entered) \in Nat /\ Cardinality(Entered) <= Total
<1>1. /\ IsFiniteSet(Producers) /\ Cardinality(Producers) = NP
      /\ IsFiniteSet(0..PerProducer-1) /\ Cardinality(0..PerProducer-1) = PerProducer
  BY RingAssumption, FS_Interval DEF Producers
<1>2. /\ IsFiniteSet(Producers \X (0..PerProducer-1))
      /\ Cardinality(Producers \X (0..PerProducer-1)) = Total
  BY <1>1, FS_Product DEF Total
<1>3. /\ Writing \in SUBSET Producers /\ Reading \in SUBSET Consumers
      /\ Entered \in SUBSET (Producers \X (0..PerProducer-1))
  BY DEF Writing, Reading, Entered
<1>4. IsFiniteSet(Writing) /\ IsFiniteSet(Reading) /\ IsFiniteSet(Entered)
  BY <1>1, <1>2, <1>3, FS_Subset, RingAssumption
<1>5. Cardinality(Entered) <= Total
  BY <1>2, <1>3, FS_Subset
<1> QED
  BY <1>4, <1>5, FS_CardinalityType

LEMMA TallyInit == Init => Tally
<1> SUFFICES ASSUME Init PROVE Tally
  OBVIOUS
<1>1. Writing = {} /\ Reading = {}
  BY DEF Init, Writing, Reading, Sending, Working
<1>2. Entered = {}
  BY RingAssumption DEF Init, Entered, Sent, Producers
<1>3. \A s \in Slots : seq[s] <= tail + Cap
  BY CapFacts DEF Init, Slots
<1> QED
  BY <1>1, <1>2, <1>3, FS_EmptySet DEF Tally, Init

\* What a producer's step does to the counts of the producers, given its own
\* record before and after.
LEMMA WritingStep ==
    ASSUME RingInv, NEW p \in Producers,
           \A q \in Producers : q # p => prod'[q] = prod[q],
           prod[p].at \in Sending <=> prod'[p].at \in Sending,
           prod'[p].i = prod[p].i
    PROVE  UNCHANGED <<Writing, Entered>>
<1>1. Writing' = Writing
  BY DEF Writing
<1>2. Sent' = Sent
  BY DEF Sent, Sending
<1> QED
  BY <1>1, <1>2 DEF Entered

LEMMA ClaimTally ==
    ASSUME RingInv, Tally, NEW p \in Producers, EnqClaim(p), TailUnmoved(p)
    PROVE  Tally'
<1>1. /\ prod[p].at = "claim" /\ tail' = tail + 1
      /\ UNCHANGED <<seq, head, cons, produced_count, consumed_count>>
      /\ prod' = [prod EXCEPT ![p].at = "write"]
      /\ tail \in Nat /\ prod[p].i \in 0..PerProducer /\ prod[p].i < PerProducer
  BY TypeFacts DEF RingInv, Writers, EnqClaim, EnqFrame, results, TailUnmoved
<1>2. /\ prod'[p].at = "write" /\ prod'[p].i = prod[p].i
      /\ \A q \in Producers : q # p => prod'[q] = prod[q]
  BY <1>1 DEF RingInv, RingType
<1>3. Writing' = Writing \cup {p} /\ p \notin Writing
  BY <1>1, <1>2 DEF Writing, Sending
<1>4. Sent[p] = prod[p].i /\ Sent'[p] = prod[p].i + 1
  BY <1>1, <1>2, RingAssumption DEF Sent
<1>5. \A q \in Producers : q # p => Sent'[q] = Sent[q]
  BY <1>2 DEF Sent
<1>6. Entered' = Entered \cup {<<p, prod[p].i>>} /\ <<p, prod[p].i>> \notin Entered
  BY <1>1, <1>4, <1>5, RingAssumption DEF Entered
<1>7. /\ Cardinality(Writing') = Cardinality(Writing) + 1
      /\ Cardinality(Entered') = Cardinality(Entered) + 1
  BY <1>3, <1>6, Finite, FS_AddElement
<1>8. Reading' = Reading
  BY <1>1 DEF Reading
<1>9. \A s \in Slots : seq'[s] <= tail' + Cap
  BY <1>1, TypeFacts, CapFacts DEF RingInv, Tally
<1> QED
  BY <1>1, <1>7, <1>8, <1>9, Finite DEF Tally, RingInv, RingType

LEMMA ProducedTally ==
    ASSUME RingInv, Tally, NEW p \in Producers, Produced(p)
    PROVE  Tally'
<1>1. /\ prod[p].at = "count" /\ produced_count' = produced_count + 1
      /\ UNCHANGED <<seq, head, tail, cons, consumed_count>>
      /\ prod[p].i \in 0..PerProducer /\ produced_count \in Nat
  BY TypeFacts DEF RingInv, RingType, Produced, EnqFrame, ring, results
<1>2. /\ prod'[p].at \in {"load", "gone"} /\ prod'[p].i = prod[p].i + 1
      /\ \A q \in Producers : q # p => prod'[q] = prod[q]
  BY DEF RingInv, RingType, Produced
<1>3. Writing' = Writing \ {p} /\ p \in Writing
  BY <1>1, <1>2 DEF Writing, Sending
<1>4. \A q \in Producers : Sent'[q] = Sent[q]
  BY <1>1, <1>2, RingAssumption DEF Sent
<1>5. Entered' = Entered
  BY <1>4 DEF Entered
<1>6. Cardinality(Writing') = Cardinality(Writing) - 1
  BY <1>3, Finite, FS_RemoveElement
<1>7. Reading' = Reading
  BY <1>1 DEF Reading
<1> QED
  BY <1>1, <1>5, <1>6, <1>7, Finite DEF Tally

LEMMA ConsumerClaimTally ==
    ASSUME RingInv, Tally, NEW c \in Consumers, DeqClaim(c), HeadUnmoved(c)
    PROVE  Tally'
<1>1. /\ cons[c].at = "claim" /\ head' = head + 1
      /\ UNCHANGED <<seq, tail, prod, produced_count, consumed_count>>
      /\ cons' = [cons EXCEPT ![c].at = "read"]
      /\ head \in Nat /\ consumed_count \in Nat
  BY TypeFacts DEF RingInv, RingType, HeadUnmoved, DeqClaim, DeqFrame, results
<1>2. /\ cons'[c].at = "read"
      /\ \A d \in Consumers : d # c => cons'[d] = cons[d]
  BY <1>1 DEF RingInv, RingType
<1>3. Reading' = Reading \cup {c} /\ c \notin Reading
  BY <1>1, <1>2 DEF Reading, Working
<1>4. Cardinality(Reading') = Cardinality(Reading) + 1
  BY <1>3, Finite, FS_AddElement
<1>5. Writing' = Writing /\ Entered' = Entered
  BY <1>1 DEF Writing, Entered, Sent
<1> QED
  BY <1>1, <1>4, <1>5, Finite DEF Tally

LEMMA ConsumedTally ==
    ASSUME RingInv, Tally, NEW c \in Consumers, Consumed(c)
    PROVE  Tally'
<1>1. /\ cons[c].at = "count" /\ consumed_count' = consumed_count + 1
      /\ UNCHANGED <<seq, head, tail, prod, produced_count>> /\ consumed_count \in Nat
  BY DEF RingInv, RingType, Consumed, DeqFrame, ring
<1>2. /\ cons'[c].at = "top"
      /\ \A d \in Consumers : d # c => cons'[d] = cons[d]
  BY DEF RingInv, RingType, Consumed
<1>3. Reading' = Reading \ {c} /\ c \in Reading
  BY <1>1, <1>2 DEF Reading, Working
<1>4. Cardinality(Reading') = Cardinality(Reading) - 1
  BY <1>3, Finite, FS_RemoveElement
<1>5. Writing' = Writing /\ Entered' = Entered
  BY <1>1 DEF Writing, Entered, Sent
<1> QED
  BY <1>1, <1>4, <1>5, Finite DEF Tally

\* Every other step of a producer leaves the counts as they are.
LEMMA ProducerTally ==
    ASSUME RingInv, Tally, NEW p \in Producers, producer(p)
    PROVE  Tally'
<1>1. CASE Produced(p)
  BY <1>1, ProducedTally
<1>2. CASE EnqClaim(p) /\ TailUnmoved(p)
  BY <1>2, ClaimTally
<1>3. CASE EnqLoad(p) \/ EnqCheck(p) \/ (EnqClaim(p) /\ ~TailUnmoved(p)) \/ EnqWrite(p) \/ EnqPublish(p)
  <2>1. UNCHANGED <<head, tail, cons, produced_count, consumed_count>>
    BY <1>3 DEF EnqLoad, EnqCheck, EnqClaim, EnqWrite, EnqPublish, EnqFrame, ring, results
  <2>2. /\ prod[p].at \in Sending <=> prod'[p].at \in Sending
        /\ prod'[p].i = prod[p].i
        /\ \A q \in Producers : q # p => prod'[q] = prod[q]
    BY <1>3 DEF EnqLoad, EnqCheck, EnqClaim, EnqWrite, EnqPublish, Sending, RingInv, RingType
  <2>3. \A s \in Slots : seq'[s] <= tail + Cap
    <3>1. CASE EnqPublish(p)
      <4>1. prod[p].pos <= tail /\ prod[p].pos \in Nat /\ tail \in Nat
        BY TypeFacts DEF RingInv, Writers
      <4> QED
        BY <3>1, <4>1, CapFacts DEF EnqPublish, Tally, RingInv, RingType
    <3>2. CASE ~EnqPublish(p)
      BY <1>3, <3>2 DEF Tally, EnqLoad, EnqCheck, EnqClaim, EnqWrite, ring
    <3> QED
      BY <3>1, <3>2
  <2>4. UNCHANGED <<Writing, Entered>> /\ UNCHANGED Reading
    BY <2>1, <2>2, WritingStep DEF Reading
  <2> QED
    BY <2>1, <2>3, <2>4 DEF Tally
<1> QED
  BY <1>1, <1>2, <1>3 DEF producer

LEMMA ConsumerTally ==
    ASSUME RingInv, Tally, NEW c \in Consumers, consumer(c)
    PROVE  Tally'
<1>1. CASE Consumed(c)
  BY <1>1, ConsumedTally
<1>2. CASE DeqClaim(c) /\ HeadUnmoved(c)
  BY <1>2, ConsumerClaimTally
<1>3. CASE ConsumerTop(c) \/ DeqLoad(c) \/ DeqCheck(c) \/ (DeqClaim(c) /\ ~HeadUnmoved(c))
           \/ DeqRead(c) \/ DeqRelease(c) \/ TestBit(c) \/ SetBit(c)
  <2>1. UNCHANGED <<head, tail, prod, produced_count, consumed_count>>
    BY <1>3 DEF ConsumerTop, DeqLoad, DeqCheck, DeqClaim, DeqRead, DeqRelease, TestBit, SetBit,
                DeqFrame, ring, results
  <2>2. /\ cons[c].at \in Working <=> cons'[c].at \in Working
        /\ \A d \in Consumers : d # c => cons'[d] = cons[d]
    BY <1>3 DEF ConsumerTop, DeqLoad, DeqCheck, DeqClaim, DeqRead, DeqRelease, TestBit, SetBit,
                Verdict, Working, RingInv, RingType
  <2>3. \A s \in Slots : seq'[s] <= tail + Cap
    <3>1. CASE DeqRelease(c)
      <4>1. cons[c].pos <= head /\ cons[c].pos \in Nat /\ tail \in Nat /\ head \in Nat /\ head <= tail
        BY TypeFacts DEF RingInv, Readers, Window
      <4> QED
        BY <3>1, <4>1, CapFacts DEF DeqRelease, Tally, RingInv, RingType
    <3>2. CASE ~DeqRelease(c)
      BY <1>3, <3>2 DEF Tally, ConsumerTop, DeqLoad, DeqCheck, DeqClaim, DeqRead, TestBit,
                        SetBit, ring
    <3> QED
      BY <3>1, <3>2
  <2>4. Reading' = Reading
    BY <2>2 DEF Reading
  <2>5. Writing' = Writing /\ Entered' = Entered
    BY <2>1 DEF Writing, Entered, Sent
  <2> QED
    BY <2>1, <2>3, <2>4, <2>5 DEF Tally
<1> QED
  BY <1>1, <1>2, <1>3 DEF consumer

LEMMA TallyStep == RingInv /\ Tally /\ [Next]_vars => Tally'
<1> SUFFICES ASSUME RingInv, Tally, [Next]_vars PROVE Tally'
  OBVIOUS
<1>1. CASE Verify \/ UNCHANGED vars
  <2>1. UNCHANGED <<seq, head, tail, prod, cons, produced_count, consumed_count>>
    BY <1>1 DEF Verify, vars, ring, results
  <2> QED
    BY <2>1 DEF Tally, Writing, Reading, Entered, Sent
<1> QED
  BY <1>1, ProducerTally, ConsumerTally DEF Next

\* Every counter and every position stays in its range: the producers claim
\* as many positions as there are items, the consumers no more than they.
THEOREM TypeCorrect == Spec => []TypeOK
<1>1. RingInv /\ Tally => TypeOK
  <2> SUFFICES ASSUME RingInv, Tally PROVE TypeOK
    OBVIOUS
  <2>1. /\ head \in Nat /\ tail \in Nat /\ Total \in Nat /\ head <= tail /\ tail <= Total
        /\ produced_count \in Nat /\ produced_count <= Total
        /\ consumed_count \in Nat /\ consumed_count <= Total
    <3>1. head \in Nat /\ tail \in Nat /\ head <= tail /\ Total \in Nat
      BY TypeFacts, NoItemFacts DEF RingInv, Window
    <3>2. produced_count \in Nat /\ consumed_count \in Nat
      BY DEF RingInv, RingType
    <3> QED
      BY <3>1, <3>2, Finite DEF Tally
  <2>2. seq \in [Slots -> 0..Total+Cap]
    <3>1. \A s \in Slots : seq[s] \in 0..Total+Cap
      BY <2>1, TypeFacts, CapFacts DEF RingInv, Tally
    <3> QED
      BY <3>1 DEF RingInv, RingType
  <2>3. \A p \in Producers : prod[p].pos \in 0..Total
    BY <2>1, TypeFacts DEF RingInv, Writers
  <2>4. \A c \in Consumers : cons[c].pos \in 0..Total
    BY <2>1, TypeFacts DEF RingInv, Readers
  <2>5. prod \in [Producers -> [at : {"load", "check", "claim", "write", "publish", "count", "gone"},
                               i : 0..PerProducer, pos : 0..Total]]
    BY <2>3 DEF RingInv, RingType
  <2>6. cons \in [Consumers -> [at : {"top", "load", "check", "claim", "read", "release",
                                     "test", "mark", "count", "gone"},
                               pos : 0..Total, val : Items \cup {NoItem}, byte : SUBSET Items]]
    BY <2>4 DEF RingInv, RingType
  <2> QED
    BY <2>1, <2>2, <2>5, <2>6 DEF RingInv, RingType, TypeOK
<1> QED
  BY <1>1, RingInit, RingStep, TallyInit, TallyStep, PTL DEF Spec

-----------------------------------------------------------------------------
(***************************************************************************)
(* The ring is a first-in first-out queue.                                 *)
(***************************************************************************)

\* The writer of a position is one producer, so that ItemAt is its item; a
\* position without a writer has what its slot holds.
LEMMA ItemAtFacts ==
    ASSUME RingInv
    PROVE  /\ \A p \in Producers : prod[p].at = "write" => ItemAt(prod[p].pos) = Item(p)
           /\ \A x \in Nat : (\A p \in Producers : prod[p].at = "write" => prod[p].pos # x)
                                => ItemAt(x) = data[Slot(x)]
<1>1. ASSUME NEW p \in Producers, prod[p].at = "write"
      PROVE  ItemAt(prod[p].pos) = Item(p)
  <2> DEFINE writer == {q \in Producers : prod[q].at = "write" /\ prod[q].pos = prod[p].pos}
  <2>1. writer = {p}
    BY <1>1 DEF RingInv, Writers
  <2>2. ItemAt(prod[p].pos) = Item(CHOOSE q \in writer : TRUE)
    BY <2>1 DEF ItemAt
  <2>3. (CHOOSE q \in writer : TRUE) = p
    BY <2>1
  <2> QED
    BY <2>2, <2>3
<1>2. ASSUME NEW x \in Nat, \A p \in Producers : prod[p].at = "write" => prod[p].pos # x
      PROVE  ItemAt(x) = data[Slot(x)]
  BY <1>2 DEF ItemAt
<1> QED
  BY <1>1, <1>2

\* What is queued is an item.
LEMMA QueuedItems ==
    ASSUME RingInv
    PROVE  /\ \A x \in Nat : ItemAt(x) \in Items \cup {NoItem}
           /\ Queue \in Seq(Items \cup {NoItem}) /\ Len(Queue) = tail - head
           /\ \A n \in 1..tail-head : Queue[n] = ItemAt(head + n - 1)
<1>1. head \in Nat /\ tail \in Nat /\ head <= tail
  BY TypeFacts DEF RingInv, Window
<1>2. ASSUME NEW x \in Nat PROVE ItemAt(x) \in Items \cup {NoItem}
  <2>1. CASE \E p \in Producers : prod[p].at = "write" /\ prod[p].pos = x
    <3>1. PICK p \in Producers : prod[p].at = "write" /\ prod[p].pos = x
      BY <2>1
    <3>2. prod[p].i \in 0..PerProducer-1
      BY <3>1, TypeFacts, RingAssumption DEF RingInv, Writers
    <3> QED
      BY <3>1, <3>2, ItemAtFacts, ItemRange DEF Item
  <2>2. CASE ~\E p \in Producers : prod[p].at = "write" /\ prod[p].pos = x
    <3>1. ItemAt(x) = data[Slot(x)]
      BY <2>2, ItemAtFacts
    <3> QED
      BY <3>1, SlotFacts DEF RingInv, RingType
  <2> QED
    BY <2>1, <2>2
<1>3. \A n \in 1..tail-head : ItemAt(head + n - 1) \in Items \cup {NoItem}
  BY <1>1, <1>2
<1>4. tail - head \in Nat
  BY <1>1
<1>5. Queue \in Seq(Items \cup {NoItem}) /\ Len(Queue) = tail - head
  BY <1>3, <1>4 DEF Queue
<1> QED
  BY <1>2, <1>5 DEF Queue

\* The queue stays as it is when head, tail and the items in it do.
LEMMA QueueSame ==
    ASSUME RingInv, head' = head, tail' = tail,
           \A x \in Nat : head <= x /\ x < tail => ItemAt(x)' = ItemAt(x)
    PROVE  Queue' = Queue
<1>1. head \in Nat /\ tail \in Nat
  BY TypeFacts DEF RingInv
<1>2. \A n \in 1..tail-head : ItemAt(head + n - 1)' = ItemAt(head + n - 1)
  BY <1>1
<1> QED
  BY <1>2 DEF Queue

\* A producer's steps other than the exchange.
LEMMA ProducerFifo ==
    ASSUME RingInv, RingInv', NEW p \in Producers, producer(p),
           ~(EnqClaim(p) /\ TailUnmoved(p))
    PROVE  UNCHANGED Fifo!vars
<1>1. UNCHANGED <<head, tail, cons>>
  BY DEF producer, EnqLoad, EnqCheck, EnqClaim, EnqWrite, EnqPublish, Produced, EnqFrame, ring
<1>2. /\ \A q \in Producers : q # p => prod'[q] = prod[q]
      /\ prod[p].at = "write" => EnqWrite(p)
      /\ prod'[p].at # "write"
  BY DEF producer, EnqLoad, EnqCheck, EnqClaim, EnqWrite, EnqPublish, Produced, RingInv, RingType
<1>3. Sent' = Sent
  <2>1. CASE Produced(p)
    <3>1. /\ prod[p].at = "count" /\ prod'[p].at \in {"load", "gone"}
          /\ prod'[p].i = prod[p].i + 1 /\ prod[p].i \in 0..PerProducer
      BY <2>1 DEF Produced, RingInv, RingType
    <3> QED
      BY <1>2, <3>1, RingAssumption DEF Sent
  <2>2. CASE ~Produced(p)
    <3>1. /\ prod[p].at \in Sending <=> prod'[p].at \in Sending
          /\ prod'[p].i = prod[p].i
      BY <2>2 DEF producer, EnqLoad, EnqCheck, EnqClaim, EnqWrite, EnqPublish, Sending,
                  RingInv, RingType
    <3> QED
      BY <1>2, <3>1 DEF Sent, Sending
  <2> QED
    BY <2>1, <2>2
<1>4. CASE EnqWrite(p)
  <2> DEFINE y == prod[p].pos
  <2>1. /\ prod[p].at = "write" /\ data' = [data EXCEPT ![Slot(y)] = Item(p)]
        /\ y \in Nat /\ Slot(y) \in Slots /\ head <= y /\ y < tail
    BY <1>4, TypeFacts, SlotFacts DEF EnqWrite, RingInv, Writers
  <2>2. data'[Slot(y)] = Item(p) /\ \A s \in Slots : s # Slot(y) => data'[s] = data[s]
    BY <2>1 DEF RingInv, RingType
  <2>3. ASSUME NEW x \in Nat, head <= x, x < tail PROVE ItemAt(x)' = ItemAt(x)
    <3>1. CASE x = y
      <4>1. ItemAt(x) = Item(p)
        BY <2>1, <3>1, ItemAtFacts
      <4>2. \A q \in Producers : prod'[q].at = "write" => prod'[q].pos # x
        BY <1>2, <2>1, <3>1 DEF RingInv, Writers
      <4>3. ItemAt(x)' = data'[Slot(x)]
        BY <4>2 DEF ItemAt
      <4> QED
        BY <2>2, <3>1, <4>1, <4>3
    <3>2. CASE x # y
      <4>1. Slot(x) # Slot(y)
        <5>1. head \in Nat /\ tail \in Nat /\ tail <= head + Cap
          BY TypeFacts DEF RingInv, Window
        <5>2. ~(x >= y + Cap) /\ ~(y >= x + Cap) /\ (x < y \/ y < x)
          BY <2>1, <2>3, <3>2, <5>1, CapFacts
        <5> QED
          BY <2>1, <5>2, SlotFacts
      <4>2. data'[Slot(x)] = data[Slot(x)]
        BY <2>2, <4>1, SlotFacts
      <4>3. {q \in Producers : prod'[q].at = "write" /\ prod'[q].pos = x}
              = {q \in Producers : prod[q].at = "write" /\ prod[q].pos = x}
        BY <1>2, <2>1, <3>2
      <4>4. \A q \in Producers : prod'[q].at = "write" /\ prod'[q].pos = x => Item(q)' = Item(q)
        BY <1>2 DEF Item
      <4> DEFINE W == {q \in Producers : prod[q].at = "write" /\ prod[q].pos = x}
                 w == CHOOSE q \in W : TRUE
      <4>5. W # {} => w \in W
        OBVIOUS
      <4>6. W # {} => Item(w)' = Item(w)
        BY <4>3, <4>4, <4>5
      <4>7. ItemAt(x)' = IF W # {} THEN Item(w)' ELSE data'[Slot(x)]
        BY <4>3 DEF ItemAt
      <4>8. ItemAt(x) = IF W # {} THEN Item(w) ELSE data[Slot(x)]
        BY DEF ItemAt
      <4> QED
        BY <4>2, <4>6, <4>7, <4>8
    <3> QED
      BY <3>1, <3>2
  <2>4. Queue' = Queue
    BY <1>1, <2>3, QueueSame
  <2>5. ASSUME NEW c \in Consumers, cons[c].at = "read"
        PROVE  data'[Slot(cons[c].pos)] = data[Slot(cons[c].pos)]
    <3>1. /\ seq[Slot(cons[c].pos)] = cons[c].pos + 1 /\ cons[c].pos \in Nat
          /\ seq[Slot(y)] = y
      BY <2>1, <2>5, TypeFacts DEF RingInv, Readers, Writers
    <3> QED
      BY <2>1, <2>2, <3>1, SlotFacts, CapFacts
  <2>6. Got' = Got
    BY <1>1, <2>5 DEF Got
  <2> QED
    BY <1>3, <2>4, <2>6 DEF Fifo!vars
<1>5. CASE ~EnqWrite(p)
  <2>1. data' = data
    BY <1>5 DEF producer, EnqLoad, EnqCheck, EnqClaim, EnqPublish, Produced, ring
  <2>2. prod[p].at # "write"
    BY <1>2, <1>5
  <2>3. ASSUME NEW x \in Nat PROVE ItemAt(x)' = ItemAt(x)
    <3> DEFINE W == {q \in Producers : prod[q].at = "write" /\ prod[q].pos = x}
               w == CHOOSE q \in W : TRUE
    <3>1. {q \in Producers : prod'[q].at = "write" /\ prod'[q].pos = x} = W
      BY <1>2, <2>2
    <3>2. W # {} => w \in W
      OBVIOUS
    <3>3. W # {} => Item(w)' = Item(w)
      BY <1>2, <2>2, <3>2 DEF Item
    <3>4. ItemAt(x)' = IF W # {} THEN Item(w)' ELSE data'[Slot(x)]
      BY <3>1 DEF ItemAt
    <3>5. ItemAt(x) = IF W # {} THEN Item(w) ELSE data[Slot(x)]
      BY DEF ItemAt
    <3> QED
      BY <2>1, <3>3, <3>4, <3>5
  <2>4. Queue' = Queue
    BY <1>1, <2>3, QueueSame
  <2>5. Got' = Got
    BY <1>1, <2>1 DEF Got
  <2> QED
    BY <1>3, <2>4, <2>5 DEF Fifo!vars
<1> QED
  BY <1>4, <1>5

\* The exchange is the moment at which the item is in the queue.
LEMMA ClaimFifo ==
    ASSUME RingInv, RingInv', NEW p \in Producers, EnqClaim(p), TailUnmoved(p)
    PROVE  Fifo!Enqueue(p)
<1>1. /\ prod[p].at = "claim" /\ tail' = tail + 1
      /\ UNCHANGED <<seq, data, head, cons>>
      /\ prod' = [prod EXCEPT ![p].at = "write"] /\ prod[p].pos = tail
      /\ tail \in Nat /\ head \in Nat /\ head <= tail
      /\ prod[p].i \in 0..PerProducer /\ prod[p].i < PerProducer
  BY TypeFacts DEF RingInv, Writers, Window, EnqClaim, EnqFrame, results, TailUnmoved
<1>2. /\ prod'[p].at = "write" /\ prod'[p].i = prod[p].i /\ prod'[p].pos = tail
      /\ \A q \in Producers : q # p => prod'[q] = prod[q]
  BY <1>1 DEF RingInv, RingType
<1>3. Sent[p] = prod[p].i /\ Sent' = [Sent EXCEPT ![p] = @ + 1]
  <2>1. Sent[p] = prod[p].i
    BY <1>1, RingAssumption DEF Sent
  <2>2. Sent'[p] = prod[p].i + 1
    BY <1>2 DEF Sent
  <2>3. \A q \in Producers : q # p => Sent'[q] = Sent[q]
    BY <1>2 DEF Sent
  <2> QED
    BY <2>1, <2>2, <2>3 DEF Sent
<1>4. Got' = Got
  BY <1>1 DEF Got
<1>5. ASSUME NEW x \in Nat, x = tail PROVE ItemAt(x)' = Item(p)
  <2> DEFINE W == {q \in Producers : prod[q].at = "write" /\ prod[q].pos = x}
             w == CHOOSE q \in W : TRUE
  <2>1. \A q \in Producers : prod[q].at = "write" => prod[q].pos # tail
    BY <1>1, TypeFacts DEF RingInv, Writers
  <2>2. W' = {p}
    BY <1>2, <1>5, <2>1
  <2>3. w' = p
    BY <2>2
  <2>4. ItemAt(x)' = IF W' # {} THEN w' * PerProducer + prod'[w'].i ELSE data'[Slot(x)]
    BY DEF ItemAt, Item
  <2> QED
    BY <1>2, <2>2, <2>3, <2>4 DEF Item
<1>6. ASSUME NEW x \in Nat, x # tail PROVE ItemAt(x)' = ItemAt(x)
  <2> DEFINE W == {q \in Producers : prod[q].at = "write" /\ prod[q].pos = x}
             w == CHOOSE q \in W : TRUE
  <2>1. {q \in Producers : prod'[q].at = "write" /\ prod'[q].pos = x} = W
    BY <1>1, <1>2, <1>6
  <2>2. W # {} => w \in W
    OBVIOUS
  <2>3. W # {} => Item(w)' = Item(w)
    BY <1>1, <1>2, <2>1, <2>2 DEF Item
  <2>4. ItemAt(x)' = IF W # {} THEN Item(w)' ELSE data'[Slot(x)]
    BY <2>1 DEF ItemAt
  <2>5. ItemAt(x) = IF W # {} THEN Item(w) ELSE data[Slot(x)]
    BY DEF ItemAt
  <2> QED
    BY <1>1, <2>3, <2>4, <2>5
<1>7. Queue' = Append(Queue, Item(p))
  <2> DEFINE S == Items \cup {NoItem}
  <2>1. Item(p) \in S
    <3>1. prod[p].i \in 0..PerProducer-1
      BY <1>1, RingAssumption
    <3> QED
      BY <3>1, ItemRange DEF Item
  <2>2. /\ Queue \in Seq(S) /\ Len(Queue) = tail - head
        /\ \A n \in 1..tail-head : Queue[n] = ItemAt(head + n - 1)
    BY QueuedItems
  <2> DEFINE longer == [n \in 1..tail+1-head |-> IF n = tail+1-head THEN Item(p) ELSE Queue[n]]
  <2>3. Queue' = longer
    <3>1. ASSUME NEW n \in 1..tail+1-head
          PROVE  ItemAt(head + n - 1)' = IF n = tail+1-head THEN Item(p) ELSE Queue[n]
      <4>1. /\ head + n - 1 \in Nat /\ head' = head
            /\ n = tail+1-head <=> head + n - 1 = tail
            /\ n # tail+1-head => n \in 1..tail-head
        BY <1>1
      <4> QED
        BY <1>5, <1>6, <2>2, <4>1
    <3>2. Queue' = [n \in 1..tail+1-head |-> ItemAt(head + n - 1)']
      BY <1>1 DEF Queue
    <3> QED
      BY <3>1, <3>2
  <2>4. longer \in Seq(S) /\ Len(longer) = tail + 1 - head
    <3>1. \A n \in 1..tail+1-head : (IF n = tail+1-head THEN Item(p) ELSE Queue[n]) \in S
      <4>1. \A n \in 1..tail-head : Queue[n] \in S
        BY <2>2, ElementOfSeq
      <4> QED
        BY <1>1, <2>1, <4>1
    <3>2. tail + 1 - head \in Nat
      BY <1>1
    <3> QED
      BY <3>1, <3>2
  <2> HIDE DEF S
  <2>5. /\ Append(Queue, Item(p)) \in Seq(S)
        /\ Len(Append(Queue, Item(p))) = Len(Queue) + 1
        /\ \A n \in 1..Len(Queue) : Append(Queue, Item(p))[n] = Queue[n]
        /\ Append(Queue, Item(p))[Len(Queue) + 1] = Item(p)
    BY <2>1, <2>2, AppendProperties
  <2>6. ASSUME NEW n \in 1..Len(longer) PROVE longer[n] = Append(Queue, Item(p))[n]
    <3>1. /\ n \in 1..tail+1-head /\ n # tail+1-head => n \in 1..Len(Queue)
          /\ tail + 1 - head = Len(Queue) + 1
      BY <1>1, <2>2, <2>4
    <3> QED
      BY <2>5, <3>1
  <2>7. Len(longer) = Len(Append(Queue, Item(p)))
    BY <1>1, <2>2, <2>4, <2>5
  <2> HIDE DEF longer
  <2> QED
    BY <2>3, <2>4, <2>5, <2>6, <2>7, SeqEqual
<1>8. Item(p) = Fifo!Item(p, Sent[p])
  BY <1>3 DEF Item, Fifo!Item
<1> QED
  BY <1>1, <1>3, <1>4, <1>7, <1>8 DEF Fifo!Enqueue

\* A consumer's steps leave the writers alone.
LEMMA ItemAtKept ==
    ASSUME prod' = prod, data' = data
    PROVE  \A x \in Nat : ItemAt(x)' = ItemAt(x)
  BY DEF ItemAt, Item

\* The exchange of a consumer is the moment at which the first item leaves.
LEMMA DeqClaimFifo ==
    ASSUME RingInv, RingInv', NEW c \in Consumers, DeqClaim(c), HeadUnmoved(c)
    PROVE  Fifo!Dequeue(c)
<1>1. /\ cons[c].at = "claim" /\ cons[c].pos = head /\ head' = head + 1
      /\ UNCHANGED <<seq, data, tail, prod>> /\ cons' = [cons EXCEPT ![c].at = "read"]
      /\ seq[Slot(head)] = head + 1 /\ cons[c].val \notin Items
  BY DEF RingInv, Readers, DeqClaim, DeqFrame, HeadUnmoved
<1>2. /\ head \in Nat /\ tail \in Nat /\ head < tail /\ data[Slot(head)] \in Items
      /\ \A p \in Producers : prod[p].at = "write" => prod[p].pos # head
  <2>1. /\ head < tail /\ data[Slot(head)] \in Items
        /\ \A p \in Producers : prod[p].at \in {"write", "publish"} => prod[p].pos > head
    BY <1>1, HeadPublished
  <2> QED
    BY <2>1, TypeFacts DEF RingInv
<1>3. /\ cons'[c].at = "read" /\ cons'[c].pos = head /\ cons'[c].val = cons[c].val
      /\ \A d \in Consumers : d # c => cons'[d] = cons[d]
  BY <1>1 DEF RingInv, RingType
<1>4. Got[c] = NoItem
  BY <1>1 DEF Got, RingInv, RingType
<1>5. Got' = [Got EXCEPT ![c] = data[Slot(head)]]
  <2>1. Got'[c] = data[Slot(head)]
    BY <1>1, <1>3 DEF Got
  <2>2. \A d \in Consumers : d # c => Got'[d] = Got[d]
    BY <1>1, <1>3 DEF Got
  <2> QED
    BY <2>1, <2>2 DEF Got
<1>6. Sent' = Sent
  BY <1>1 DEF Sent
<1> DEFINE S == Items \cup {NoItem}
<1>7. /\ Queue \in Seq(S) /\ Len(Queue) = tail - head
      /\ \A n \in 1..tail-head : Queue[n] = ItemAt(head + n - 1)
  BY QueuedItems
<1> DEFINE rest == [n \in 1..tail-(head+1) |-> Queue[n + 1]]
<1>8. Queue' = rest
  <2>1. ASSUME NEW n \in 1..tail-(head+1)
        PROVE  ItemAt(head + n - 1)' = Queue[n + 1]
    <3>1. /\ n + 1 \in 1..tail-head /\ head + (n + 1) - 1 \in Nat
          /\ head' + n - 1 = head + (n + 1) - 1
      BY <1>1, <1>2
    <3>2. ItemAt(head + (n + 1) - 1) = Queue[n + 1]
      BY <1>7, <3>1
    <3>3. \A x \in Nat : ItemAt(x)' = ItemAt(x)
      BY <1>1, ItemAtKept
    <3> QED
      BY <3>1, <3>2, <3>3
  <2>2. Queue' = [n \in 1..tail-(head+1) |-> ItemAt(head + n - 1)']
    BY <1>1 DEF Queue
  <2> QED
    BY <2>1, <2>2
<1>9. Queue # << >> /\ Head(Queue) = data[Slot(head)]
  <2>1. Queue # << >>
    BY <1>2, <1>7, EmptySeq
  <2>2. Queue[1] = ItemAt(head + 1 - 1)
    BY <1>2, <1>7
  <2>3. head + 1 - 1 = head
    BY <1>2
  <2>4. ItemAt(head) = data[Slot(head)]
    BY <1>2, ItemAtFacts
  <2> QED
    BY <2>1, <2>2, <2>3, <2>4
<1>10. Queue' = Tail(Queue)
  <2>1. /\ Tail(Queue) \in Seq(S) /\ Len(Tail(Queue)) = Len(Queue) - 1
        /\ \A n \in 1..Len(Tail(Queue)) : Tail(Queue)[n] = Queue[n + 1]
    BY <1>7, <1>9, HeadTailProperties
  <2>2. rest \in Seq(S) /\ Len(rest) = tail - (head + 1)
    <3>1. \A n \in 1..tail-(head+1) : n + 1 \in 1..tail-head
      BY <1>2
    <3>2. \A n \in 1..tail-(head+1) : Queue[n + 1] \in S
      BY <1>7, <3>1, ElementOfSeq
    <3>3. tail - (head + 1) \in Nat
      BY <1>2
    <3> QED
      BY <3>2, <3>3
  <2>3. Len(rest) = Len(Tail(Queue))
    BY <1>2, <1>7, <2>1, <2>2
  <2>4. \A n \in 1..Len(rest) : rest[n] = Tail(Queue)[n]
    BY <2>1, <2>2, <2>3
  <2> HIDE DEF rest
  <2> QED
    BY <1>8, <2>1, <2>2, <2>3, <2>4, SeqEqual
<1>11. NoItem = Fifo!NoItem
  BY DEF NoItem, Total, Fifo!NoItem
<1> QED
  BY <1>4, <1>5, <1>6, <1>9, <1>10, <1>11 DEF Fifo!Dequeue

\* The other steps of a consumer: the item is done with when it is counted,
\* and nothing happens to the queue before.
LEMMA ConsumerFifo ==
    ASSUME RingInv, RingInv', NEW c \in Consumers, consumer(c),
           ~(DeqClaim(c) /\ HeadUnmoved(c))
    PROVE  Fifo!Consume(c) \/ UNCHANGED Fifo!vars
<1>1. UNCHANGED <<head, tail, data, prod>>
  BY DEF consumer, ConsumerTop, DeqLoad, DeqCheck, DeqClaim, DeqRead, DeqRelease, TestBit,
         SetBit, Consumed, DeqFrame, ring
<1>2. Queue' = Queue /\ Sent' = Sent
  <2>1. Queue' = Queue
    BY <1>1, ItemAtKept, QueueSame
  <2> QED
    BY <1>1, <2>1 DEF Sent
<1>3. \A d \in Consumers : d # c => cons'[d] = cons[d]
  BY DEF consumer, ConsumerTop, DeqLoad, DeqCheck, DeqClaim, DeqRead, DeqRelease, TestBit,
         SetBit, Consumed, RingInv, RingType
<1>4. \A d \in Consumers : d # c => Got'[d] = Got[d]
  BY <1>1, <1>3 DEF Got
<1>5. CASE Consumed(c)
  <2>1. cons[c].at = "count" /\ cons[c].val \in Items
    BY <1>5 DEF Consumed, RingInv, Readers
  <2>2. cons'[c].at = "top" /\ cons'[c].val = NoItem
    BY <1>5 DEF Consumed, RingInv, RingType
  <2>3. Got[c] # NoItem /\ Got'[c] = NoItem
    BY <2>1, <2>2, NoItemFacts DEF Got
  <2>4. Got' = [Got EXCEPT ![c] = NoItem]
    BY <1>4, <2>3 DEF Got
  <2>5. NoItem = Fifo!NoItem
    BY DEF NoItem, Total, Fifo!NoItem
  <2> QED
    BY <1>2, <2>3, <2>4, <2>5 DEF Fifo!Consume
<1>6. CASE DeqRead(c)
  <2>1. /\ cons[c].at = "read" /\ cons'[c].at = "release"
        /\ cons'[c].val = data[Slot(cons[c].pos)]
    BY <1>6 DEF DeqRead, RingInv, RingType
  <2>2. Got'[c] = Got[c]
    BY <2>1 DEF Got
  <2>3. Got' = Got
    BY <1>4, <2>2 DEF Got
  <2> QED
    BY <1>2, <2>3 DEF Fifo!vars
<1>7. CASE ~Consumed(c) /\ ~DeqRead(c)
  <2>1. cons[c].at # "read" /\ cons'[c].at # "read" /\ cons'[c].val = cons[c].val
    BY <1>7 DEF consumer, ConsumerTop, DeqLoad, DeqCheck, DeqClaim, DeqRelease, TestBit, SetBit,
                Verdict, RingInv, RingType
  <2>2. Got'[c] = Got[c]
    BY <2>1 DEF Got
  <2>3. Got' = Got
    BY <1>4, <2>2 DEF Got
  <2> QED
    BY <1>2, <2>3 DEF Fifo!vars
<1> QED
  BY <1>5, <1>6, <1>7

\* The ring implements the queue: what the producers put in comes out once,
\* in the order in which the exchanges put it in.
THEOREM ImplementsFifo == Spec => IsFifo
<1>1. Init => Fifo!Init
  <2> SUFFICES ASSUME Init PROVE Fifo!Init
    OBVIOUS
  <2>1. Queue = << >>
    BY DEF Init, Queue
  <2>2. Sent = [p \in Fifo!Producers |-> 0]
    BY DEF Init, Sent, Producers, Fifo!Producers
  <2>3. Got = [c \in Consumers |-> Fifo!NoItem]
    BY DEF Init, Got, NoItem, Total, Fifo!NoItem
  <2> QED
    BY <2>1, <2>2, <2>3 DEF Fifo!Init
<1>2. RingInv /\ RingInv' /\ [Next]_vars => [Fifo!Next]_Fifo!vars
  <2> SUFFICES ASSUME RingInv, RingInv', [Next]_vars PROVE [Fifo!Next]_Fifo!vars
    OBVIOUS
  <2>1. ASSUME NEW p \in Producers, producer(p) PROVE [Fifo!Next]_Fifo!vars
    BY <2>1, ClaimFifo, ProducerFifo DEF Fifo!Next, Producers, Fifo!Producers
  <2>2. ASSUME NEW c \in Consumers, consumer(c) PROVE [Fifo!Next]_Fifo!vars
    BY <2>2, DeqClaimFifo, ConsumerFifo DEF Fifo!Next
  <2>3. CASE Verify \/ UNCHANGED vars
    <3>1. UNCHANGED <<data, head, tail, prod, cons>>
      BY <2>3 DEF Verify, vars, ring
    <3>2. Queue' = Queue
      BY <3>1, ItemAtKept, QueueSame
    <3>3. Sent' = Sent /\ Got' = Got
      BY <3>1 DEF Sent, Got
    <3> QED
      BY <3>2, <3>3 DEF Fifo!vars
  <2> QED
    BY <2>1, <2>2, <2>3 DEF Next
<1> QED
  BY <1>1, <1>2, RingInvariant, PTL DEF Spec, IsFifo, Fifo!Spec
=============================================================================

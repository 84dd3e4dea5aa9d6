-------------------------- MODULE UdpDefragProofs --------------------------
(***************************************************************************)
(* Proofs about UdpDefrag, for any datagrams, any sharing of IP ids, any   *)
(* number of parts and any size of the ring.                               *)
(*                                                                         *)
(* The two threads share the ring and the records, and only the ring is a  *)
(* protocol between them: what follows rests on where items are in the     *)
(* ring and on the records never pointing to anything but a first header.  *)
(***************************************************************************)
EXTENDS UdpDefrag, Integers, SequenceTheorems, TLAPS

Delivery == [d : Datagrams \cup {Junk}, parts : SUBSET Item]

RecordType ==
    /\ dirty \in [Ids -> BOOLEAN]
    /\ data_length \in [Ids -> 0..MaxFragments]
    /\ data_progress \in [Ids -> Nat] /\ last_pos \in [Ids -> Nat]
    /\ ring_addr \in [Ids -> [Slots -> Nat]]

\* The types, with what a delivered datagram is made of.
DefragType ==
    /\ todo \subseteq Fragments
    /\ mem \in Seq(Item) /\ head \in Nat /\ avail \in Nat /\ refused \in BOOLEAN
    /\ RecordType
    /\ prod \in [at : {"push", "record", "advance"}, f : Fragments] \cup {Idle}
    /\ cons \in [at : {"pop", "wait", "take", "copy", "own", "ignore"}, hdr : Item \cup {NoHdr}]
    /\ delivered \in Seq(Delivery)

\* The item in the middle of a pair, while a header is held.
Half == IF cons.at = "pop" THEN 0 ELSE 1

IsPair(x, y) == x.kind = "hdr" /\ y = PayOf(<<x.d, x.p>>)

\* Every post of the semaphore stands for two items behind the head; exactly
\* two, a header and its payload, as long as no payload was refused.
Paired ==
    /\ Len(mem) >= head + Half + 2 * avail
    /\ ~refused =>
          /\ Len(mem) = head + Half + 2 * avail
          /\ \A k \in 1..avail : IsPair(mem[head + Half + 2*k - 1], mem[head + Half + 2*k])
          /\ cons.at # "pop" =>
                /\ cons.hdr \in Item
                /\ mem[head + 1] = PayOf(<<cons.hdr.d, cons.hdr.p>>)

\* The header that is held is the last item popped.
Held ==
    /\ cons.at \in {"wait", "take", "copy"} =>
          head >= 1 /\ cons.hdr \in Item /\ cons.hdr = mem[head] /\ cons.hdr.kind = "hdr"
    /\ cons.at = "take" => PartsOf[cons.hdr.d] = 1

\* Every header in the ring is of a fragment that was received, once.
Sources ==
    /\ \A a \in 1..Len(mem) :
          /\ <<mem[a].d, mem[a].p>> \in Fragments
          /\ mem[a].kind = "hdr" => <<mem[a].d, mem[a].p>> \notin todo
          /\ prod.at = "push" => mem[a] # HdrOf(prod.f)
          /\ \A b \in 1..Len(mem) : mem[a].kind = "hdr" /\ mem[a] = mem[b] => a = b
    /\ prod.at = "push" => prod.f \notin todo
    /\ prod.at = "record" => Len(mem) >= 2 /\ mem[Len(mem) - 1] = HdrOf(prod.f)

\* An address in a record is that of a pair, the first one that of the first
\* fragment of a fragmented datagram with this id, recorded once.
Addressed ==
    \A i \in Ids :
        /\ \A s \in Slots : ring_addr[i][s] # 0 => ring_addr[i][s] < Len(mem)
        /\ ring_addr[i][0] # 0 =>
              LET h == mem[ring_addr[i][0]] IN
              /\ h.kind = "hdr" /\ h.p = 1 /\ PartsOf[h.d] > 1 /\ IdOf[h.d] = i
              /\ prod.at = "record" => h # HdrOf(prod.f)

\* A datagram that was forwarded has nothing left that could forward it.
Spent ==
    \A n \in DOMAIN delivered :
        LET d == delivered[n].d IN
        d # Junk =>
            /\ PartsOf[d] = 1 =>
                  \E a \in 1..head : /\ a <= Len(mem) /\ mem[a] = HdrOf(<<d, 1>>)
                                     /\ cons.at \in {"wait", "take"} => a # head
            /\ PartsOf[d] > 1 =>
                  /\ <<d, 1>> \notin todo
                  /\ prod.at \in {"push", "record"} => prod.f # <<d, 1>>
                  /\ \A i \in Ids : ring_addr[i][0] # 0 => mem[ring_addr[i][0]].d # d

DefragInv ==
    DefragType /\ Paired /\ Held /\ Sources /\ Addressed /\ Spent /\ OwnPayload /\ ForwardedOnce

-----------------------------------------------------------------------------
LEMMA Constants ==
    /\ MaxFragments \in Nat /\ MaxFragments >= 1 /\ RingCap \in Nat /\ RingCap >= 1
    /\ 0 \in Slots /\ NoAddr \in [Slots -> Nat] /\ NoAddr[0] = 0
    /\ \A s \in Slots : NoAddr[s] = 0
    /\ \A d \in Datagrams : IdOf[d] \in Ids /\ PartsOf[d] \in 1..MaxFragments
    /\ Junk \notin Datagrams
  BY DefragAssumption DEF Slots, NoAddr, Junk

LEMMA FragmentFacts ==
    ASSUME NEW f \in Fragments
    PROVE  /\ f[1] \in Datagrams /\ f[2] \in 1..MaxFragments /\ f[2] <= PartsOf[f[1]]
           /\ f = <<f[1], f[2]>>
           /\ HdrOf(f) \in Item /\ PayOf(f) \in Item
           /\ HdrOf(f).kind = "hdr" /\ HdrOf(f).d = f[1] /\ HdrOf(f).p = f[2]
           /\ PayOf(f).kind = "pay" /\ PayOf(f).d = f[1] /\ PayOf(f).p = f[2]
           /\ PayOf(f) = [HdrOf(f) EXCEPT !.kind = "pay"]
           /\ IdOf[f[1]] \in Ids
  BY Constants DEF Fragments, HdrOf, PayOf, Item

LEMMA ItemFacts ==
    /\ NoHdr \notin Item
    /\ \A x \in Item : /\ x.kind \in {"hdr", "pay"} /\ x.d \in Datagrams /\ x.p \in 1..MaxFragments
                       /\ x.kind = "hdr" => x = HdrOf(<<x.d, x.p>>)
                       /\ x.kind = "pay" => x = PayOf(<<x.d, x.p>>)
                       /\ [x EXCEPT !.kind = "pay"] = PayOf(<<x.d, x.p>>)
  BY DEF Item, NoHdr, HdrOf, PayOf

LEMMA TypeFacts ==
    ASSUME DefragType
    PROVE  /\ mem \in Seq(Item) /\ Len(mem) \in Nat /\ head \in Nat /\ avail \in Nat
           /\ \A a \in 1..Len(mem) : mem[a] \in Item
           /\ prod.at \in {"idle", "push", "record", "advance"}
           /\ prod.at # "idle" => prod.f \in Fragments
           /\ cons.at \in {"pop", "wait", "take", "copy", "own", "ignore"}
           /\ \A i \in Ids : /\ ring_addr[i] \in [Slots -> Nat] /\ last_pos[i] \in Nat
                             /\ \A s \in Slots : ring_addr[i][s] \in Nat
           /\ delivered \in Seq(Delivery) /\ Len(delivered) \in Nat
           /\ DOMAIN delivered = 1..Len(delivered)
           /\ \A n \in DOMAIN delivered : delivered[n].d \in Datagrams \cup {Junk}
<1>1. mem \in Seq(Item) /\ head \in Nat /\ avail \in Nat /\ delivered \in Seq(Delivery)
  BY DEF DefragType
<1>2. Len(mem) \in Nat /\ \A a \in 1..Len(mem) : mem[a] \in Item
  BY <1>1, ElementOfSeq, LenProperties
<1>3. Len(delivered) \in Nat /\ DOMAIN delivered = 1..Len(delivered)
  BY <1>1, LenProperties
<1>4. \A n \in DOMAIN delivered : delivered[n] \in Delivery
  BY <1>1, <1>3, ElementOfSeq
<1>5. \A n \in DOMAIN delivered : delivered[n].d \in Datagrams \cup {Junk}
  BY <1>4 DEF Delivery
<1>6. prod \in [at : {"push", "record", "advance"}, f : Fragments] \cup {Idle}
  BY DEF DefragType
<1>7. /\ prod.at \in {"idle", "push", "record", "advance"}
      /\ prod.at # "idle" => prod.f \in Fragments
  BY <1>6 DEF Idle
<1>8. cons.at \in {"pop", "wait", "take", "copy", "own", "ignore"}
  BY DEF DefragType
<1>9. \A i \in Ids : /\ ring_addr[i] \in [Slots -> Nat] /\ last_pos[i] \in Nat
                     /\ \A s \in Slots : ring_addr[i][s] \in Nat
  BY DEF DefragType, RecordType
<1> QED
  BY <1>1, <1>2, <1>3, <1>5, <1>7, <1>8, <1>9

LEMMA DefragInit == Init => DefragInv
<1> SUFFICES ASSUME Init PROVE DefragInv
  OBVIOUS
<1>1. mem = << >> /\ Len(mem) = 0 /\ delivered = << >> /\ Len(delivered) = 0 /\ DOMAIN delivered = {}
  BY DEF Init
<1>2. DefragType
  <2>1. RecordType
    BY Constants DEF Init, RecordType
  <2>2. prod = Idle /\ cons = [at |-> "pop", hdr |-> NoHdr] /\ todo = Fragments
    BY DEF Init
  <2>3. mem \in Seq(Item) /\ delivered \in Seq(Delivery)
    BY <1>1
  <2>4. head \in Nat /\ avail \in Nat /\ refused \in BOOLEAN
    BY DEF Init
  <2> QED
    BY <2>1, <2>2, <2>3, <2>4 DEF DefragType
<1>3. Paired /\ Held /\ Sources /\ Addressed
  <2>1. /\ head = 0 /\ avail = 0 /\ prod.at = "idle" /\ cons.at = "pop"
        /\ \A i \in Ids, s \in Slots : ring_addr[i][s] = 0
    BY Constants DEF Init, Idle
  <2>2. Paired /\ Held
    BY <1>1, <2>1 DEF Paired, Half, Held
  <2>3. Sources
    BY <1>1, <2>1 DEF Sources
  <2>4. Addressed
    BY <2>1, Constants DEF Addressed
  <2> QED
    BY <2>2, <2>3, <2>4
<1>4. Spent /\ OwnPayload /\ ForwardedOnce
  BY <1>1 DEF Spent, OwnPayload, ForwardedOnce
<1> QED
  BY <1>2, <1>3, <1>4 DEF DefragInv

-----------------------------------------------------------------------------
\* What the capture thread may do to the addresses of a record: clear them.
Kept == \A i \in Ids, s \in Slots : ring_addr'[i][s] \in {0, ring_addr[i][s]}

LEMMA ZeroedFacts ==
    ASSUME RecordType, NEW i \in Ids, Zeroed(i)
    PROVE  RecordType' /\ Kept /\ \A s \in Slots : ring_addr'[i][s] = 0
<1>1. RecordType'
  BY Constants DEF RecordType, Zeroed
<1>2. \A j \in Ids : ring_addr'[j] = IF j = i THEN NoAddr ELSE ring_addr[j]
  BY DEF RecordType, Zeroed
<1> QED
  BY <1>1, <1>2, Constants DEF Kept

\* What the forwarding thread and the ring promise each other is left alone by
\* a step that leaves the ring alone.
LEMMA RingFrame ==
    ASSUME DefragInv, UNCHANGED <<ringv, cons>>
    PROVE  Paired' /\ Held'
  BY DEF DefragInv, Paired, Held, Half, ringv

LEMMA AddressedFrame ==
    ASSUME DefragInv, Kept, mem' = mem, prod'.at = "record" => prod' = prod
    PROVE  Addressed'
<1> SUFFICES ASSUME NEW i \in Ids
             PROVE  /\ \A s \in Slots : ring_addr'[i][s] # 0 => ring_addr'[i][s] < Len(mem)
                    /\ ring_addr'[i][0] # 0 =>
                          LET h == mem[ring_addr'[i][0]] IN
                          /\ h.kind = "hdr" /\ h.p = 1 /\ PartsOf[h.d] > 1 /\ IdOf[h.d] = i
                          /\ prod'.at = "record" => h # HdrOf(prod'.f)
  BY DEF Addressed
<1>1. \A s \in Slots : ring_addr'[i][s] # 0 => ring_addr'[i][s] = ring_addr[i][s]
  BY DEF Kept
<1>2. ring_addr'[i][0] # 0 => ring_addr'[i][0] = ring_addr[i][0]
  BY <1>1, Constants
<1> QED
  BY <1>1, <1>2 DEF Addressed, DefragInv

LEMMA DeliveredFrame ==
    ASSUME DefragInv, delivered' = delivered, refused' = refused
    PROVE  OwnPayload' /\ ForwardedOnce'
  BY DEF DefragInv, OwnPayload, ForwardedOnce

\* A fragment is received: the network has it no more, and its record is
\* changed in any way that points it to nothing new.
LEMMA Received ==
    ASSUME DefragInv, NEW f \in todo, todo' = todo \ {f}, prod.at = "idle",
           prod' = prod \/ prod' = [at |-> "push", f |-> f],
           RecordType', Kept, UNCHANGED <<ringv, cons, delivered>>
    PROVE  DefragInv'
<1>1. f \in Fragments /\ DefragType
  BY DEF DefragInv, DefragType
<1>2. DefragType'
  <2>1. prod' \in [at : {"push", "record", "advance"}, f : Fragments] \cup {Idle}
    BY <1>1 DEF DefragType
  <2> QED
    BY <1>1, <2>1 DEF DefragType, ringv
<1>3. Paired' /\ Held' /\ OwnPayload' /\ ForwardedOnce'
  BY RingFrame, DeliveredFrame DEF ringv
<1>4. prod'.at # "record" /\ (prod'.at = "push" => prod'.f = f)
  OBVIOUS
<1>5. Addressed'
  BY <1>4, AddressedFrame DEF ringv
<1>6. Sources'
  <2>1. Sources /\ mem' = mem
    BY DEF DefragInv, ringv
  <2>2. \A a \in 1..Len(mem) : mem[a] = HdrOf(f) => FALSE
    BY <1>1, <2>1, FragmentFacts DEF Sources
  <2> QED
    BY <1>4, <2>1, <2>2 DEF Sources
<1>7. Spent'
  <2> SUFFICES ASSUME NEW n \in DOMAIN delivered, NEW d, d = delivered[n].d, d # Junk
               PROVE  /\ PartsOf[d] = 1 =>
                            \E a \in 1..head : /\ a <= Len(mem) /\ mem[a] = HdrOf(<<d, 1>>)
                                               /\ cons.at \in {"wait", "take"} => a # head
                      /\ PartsOf[d] > 1 =>
                            /\ <<d, 1>> \notin todo'
                            /\ prod'.at \in {"push", "record"} => prod'.f # <<d, 1>>
                            /\ \A i \in Ids : ring_addr'[i][0] # 0 => mem[ring_addr'[i][0]].d # d
    BY DEF Spent, ringv
  <2>1. Spent
    BY DEF DefragInv
  <2>2. \A i \in Ids : ring_addr'[i][0] \in {0, ring_addr[i][0]}
    BY Constants DEF Kept
  <2> QED
    BY <1>4, <2>1, <2>2 DEF Spent
<1> QED
  BY <1>2, <1>3, <1>5, <1>6, <1>7 DEF DefragInv

\* Every way the capture thread has to take or to refuse a frame.
LEMMA ReceiveStep ==
    ASSUME DefragInv, NEW f \in todo, NEW expired \in BOOLEAN,
           \/ BadStructure(f) \/ ReceiveWhole(f) \/ ReceiveMisplaced(f)
           \/ ReceiveFirst(f, expired) \/ ReceiveOther(f, expired)
    PROVE  DefragInv'
<1>1. f \in Fragments /\ RecordType
  BY DEF DefragInv, DefragType
<1>2. IdOf[f[1]] \in Ids
  BY <1>1, FragmentFacts
<1>3. CASE BadStructure(f)
  <2>1. RecordType' /\ Kept
    BY <1>1, <1>3 DEF BadStructure, RecordType, recs, Kept
  <2> QED
    BY <1>3, <2>1, Received DEF BadStructure
<1>4. CASE ReceiveWhole(f)
  <2>1. RecordType'
    BY <1>1, <1>2, <1>4, Constants DEF ReceiveWhole, RecordType
  <2>2. \A j \in Ids : ring_addr'[j] \in {NoAddr, ring_addr[j]}
    BY <1>1, <1>2, <1>4 DEF ReceiveWhole, RecordType
  <2>3. Kept
    BY <2>2, Constants DEF Kept
  <2> QED
    BY <1>4, <2>1, <2>3, Received DEF ReceiveWhole, Busy
<1>5. CASE ReceiveMisplaced(f)
  <2>1. RecordType' /\ Kept
    BY <1>1, <1>2, <1>5, ZeroedFacts DEF ReceiveMisplaced
  <2> QED
    BY <1>5, <2>1, Received DEF ReceiveMisplaced
<1>6. CASE ReceiveFirst(f, expired) \/ ReceiveOther(f, expired)
  <2>1. ReceivePart(f, expired)
    BY <1>6 DEF ReceiveFirst, ReceiveOther
  <2>2. RecordType'
    BY <1>1, <1>2, <2>1, Constants DEF ReceivePart, RecordType
  <2>3. \A j \in Ids : ring_addr'[j] \in {NoAddr, ring_addr[j]}
    BY <1>1, <1>2, <2>1 DEF ReceivePart, RecordType
  <2>4. Kept
    BY <2>3, Constants DEF Kept
  <2> QED
    BY <2>1, <2>2, <2>4, Received DEF ReceivePart, Busy
<1> QED
  BY <1>3, <1>4, <1>5, <1>6

-----------------------------------------------------------------------------
\* A step of the capture thread that leaves the ring alone and moves on from
\* its fragment: what is left to show is about the addresses.
LEMMA Recorded ==
    ASSUME DefragInv, UNCHANGED <<todo, ringv, cons, delivered>>,
           prod.at \in {"record", "advance"},
           prod' = Idle \/ prod' = [prod EXCEPT !.at = "advance"],
           RecordType', Addressed',
           \A i \in Ids : \/ ring_addr'[i][0] \in {0, ring_addr[i][0]}
                          \/ /\ PartsOf[prod.f[1]] > 1 /\ prod.f[2] = 1 /\ prod.at = "record"
                             /\ mem[ring_addr'[i][0]] = HdrOf(prod.f)
    PROVE  DefragInv'
<1>1. DefragType /\ prod.f \in Fragments
  BY TypeFacts DEF DefragInv
<1>2. prod'.at \in {"idle", "advance"} /\ prod' \in [at : {"push", "record", "advance"}, f : Fragments] \cup {Idle}
  <2>1. CASE prod' = Idle
    BY <2>1 DEF Idle
  <2>2. CASE prod' = [prod EXCEPT !.at = "advance"]
    <3>1. prod \in [at : {"push", "record", "advance"}, f : Fragments]
      BY <1>1 DEF DefragType, Idle
    <3> QED
      BY <2>2, <3>1
  <2> QED
    BY <2>1, <2>2
<1>3. DefragType'
  BY <1>1, <1>2 DEF DefragType, ringv
<1>4. Paired' /\ Held' /\ OwnPayload' /\ ForwardedOnce'
  BY RingFrame, DeliveredFrame DEF ringv
<1>5. Sources'
  BY <1>2 DEF DefragInv, Sources, ringv
<1>6. Spent'
  <2> SUFFICES ASSUME NEW n \in DOMAIN delivered, NEW d, d = delivered[n].d, d # Junk
               PROVE  /\ PartsOf[d] = 1 =>
                            \E a \in 1..head : /\ a <= Len(mem) /\ mem[a] = HdrOf(<<d, 1>>)
                                               /\ cons.at \in {"wait", "take"} => a # head
                      /\ PartsOf[d] > 1 =>
                            /\ <<d, 1>> \notin todo
                            /\ \A i \in Ids : ring_addr'[i][0] # 0 => mem[ring_addr'[i][0]].d # d
    BY <1>2 DEF Spent, ringv
  <2>1. Spent
    BY DEF DefragInv
  <2>2. ASSUME PartsOf[d] > 1, NEW i \in Ids, ring_addr'[i][0] # 0
        PROVE  mem[ring_addr'[i][0]].d # d
    <3>1. CASE ring_addr'[i][0] \in {0, ring_addr[i][0]}
      BY <2>1, <2>2, <3>1 DEF Spent
    <3>2. CASE /\ PartsOf[prod.f[1]] > 1 /\ prod.f[2] = 1 /\ prod.at = "record"
               /\ mem[ring_addr'[i][0]] = HdrOf(prod.f)
      <4>1. prod.f = <<prod.f[1], 1>> /\ mem[ring_addr'[i][0]].d = prod.f[1]
        BY <1>1, <3>2, FragmentFacts
      <4>2. prod.f # <<d, 1>>
        BY <2>1, <2>2, <3>2 DEF Spent
      <4> QED
        BY <4>1, <4>2
    <3> QED
      BY <3>1, <3>2
  <2> QED
    BY <2>1, <2>2 DEF Spent
<1> QED
  BY <1>3, <1>4, <1>5, <1>6 DEF DefragInv

LEMMA RecordWholeStep == ASSUME DefragInv, RecordWhole PROVE DefragInv'
<1>1. DefragType /\ RecordType /\ prod.f \in Fragments
  BY TypeFacts DEF DefragInv, DefragType, RecordWhole
<1>2. IdOf[prod.f[1]] \in Ids
  BY <1>1, FragmentFacts
<1>3. RecordType'
  BY <1>1, <1>2, Constants DEF RecordWhole, RecordType
<1>4. Addressed'
  BY AddressedFrame DEF RecordWhole, Kept, ringv, Idle
<1> QED
  BY <1>3, <1>4, Recorded DEF RecordWhole

LEMMA AdvanceStep == ASSUME DefragInv, AdvancePosition PROVE DefragInv'
<1>1. DefragType /\ RecordType /\ prod.f \in Fragments
  BY TypeFacts DEF DefragInv, DefragType, AdvancePosition
<1>2. IdOf[prod.f[1]] \in Ids
  BY <1>1, FragmentFacts
<1>3. RecordType'
  BY <1>1, <1>2, Constants DEF AdvancePosition, RecordType
<1>4. Addressed'
  BY AddressedFrame DEF AdvancePosition, Kept, ringv, Idle
<1> QED
  BY <1>3, <1>4, Recorded DEF AdvancePosition

LEMMA RecordFirstStep == ASSUME DefragInv, RecordFirst PROVE DefragInv'
<1> DEFINE i == IdOf[prod.f[1]]
           f == prod.f
<1>1. DefragType /\ RecordType /\ f \in Fragments /\ Addressed /\ Sources
  BY TypeFacts DEF DefragInv, DefragType, RecordFirst
<1>2. i \in Ids /\ f[2] = 1 /\ PartsOf[f[1]] > 1 /\ PartsOf[f[1]] \in 0..MaxFragments
  BY <1>1, FragmentFacts, Constants DEF RecordFirst
<1>3. Len(mem) \in Nat /\ Len(mem) >= 2 /\ mem[Len(mem) - 1] = HdrOf(f)
  BY <1>1, TypeFacts DEF Sources, RecordFirst
<1>4. ring_addr' = [ring_addr EXCEPT ![i] = [ring_addr[i] EXCEPT ![0] = Len(mem) - 1]]
  BY <1>1, <1>2 DEF RecordFirst, RecordType
<1>5. /\ \A j \in Ids \ {i} : ring_addr'[j] = ring_addr[j]
      /\ ring_addr'[i][0] = Len(mem) - 1
      /\ \A s \in Slots : s # 0 => ring_addr'[i][s] = ring_addr[i][s]
  <2>1. ring_addr \in [Ids -> [Slots -> Nat]] /\ ring_addr[i] \in [Slots -> Nat] /\ 0 \in Slots
    BY <1>1, <1>2, Constants DEF RecordType
  <2>2. ring_addr'[i] = [ring_addr[i] EXCEPT ![0] = Len(mem) - 1]
    BY <1>2, <1>4, <2>1
  <2>3. \A j \in Ids \ {i} : ring_addr'[j] = ring_addr[j]
    BY <1>4, <2>1
  <2> HIDE DEF i
  <2> QED
    BY <2>1, <2>2, <2>3
<1>6. RecordType'
  <2>1. ring_addr' \in [Ids -> [Slots -> Nat]]
    <3>1. ring_addr[i] \in [Slots -> Nat] /\ Len(mem) - 1 \in Nat
      BY <1>1, <1>2, <1>3 DEF RecordType
    <3>2. [ring_addr[i] EXCEPT ![0] = Len(mem) - 1] \in [Slots -> Nat]
      BY <3>1
    <3> QED
      BY <1>1, <1>4, <3>2 DEF RecordType
  <2>2. /\ data_length' = [data_length EXCEPT ![i] = PartsOf[f[1]]]
        /\ data_progress' = [data_progress EXCEPT ![i] = data_progress[i] + 1]
        /\ UNCHANGED <<dirty, last_pos>>
    BY DEF RecordFirst
  <2>3. data_length' \in [Ids -> 0..MaxFragments] /\ data_progress' \in [Ids -> Nat]
    BY <1>1, <1>2, <2>2 DEF RecordType
  <2> QED
    BY <1>1, <2>1, <2>2, <2>3 DEF RecordType
<1>7. mem' = mem /\ prod' = Idle /\ prod'.at = "idle"
  BY DEF RecordFirst, ringv, Idle
<1>8. Addressed'
  <2> SUFFICES ASSUME NEW j \in Ids
               PROVE  /\ \A s \in Slots : ring_addr'[j][s] # 0 => ring_addr'[j][s] < Len(mem)
                      /\ ring_addr'[j][0] # 0 =>
                            LET h == mem[ring_addr'[j][0]] IN
                            /\ h.kind = "hdr" /\ h.p = 1 /\ PartsOf[h.d] > 1 /\ IdOf[h.d] = j
    BY <1>7 DEF Addressed
  <2>1. CASE j # i
    BY <1>1, <1>5, <2>1 DEF Addressed
  <2>2. CASE j = i
    <3>1. mem[ring_addr'[j][0]] = HdrOf(f)
      BY <1>3, <1>5, <2>2
    <3>2. \A s \in Slots : ring_addr'[j][s] # 0 => ring_addr'[j][s] < Len(mem)
      BY <1>1, <1>3, <1>5, <2>2 DEF Addressed
    <3> QED
      BY <1>1, <1>2, <2>2, <3>1, <3>2, FragmentFacts
  <2> QED
    BY <2>1, <2>2
<1>9. \A j \in Ids : \/ ring_addr'[j][0] \in {0, ring_addr[j][0]}
                     \/ mem[ring_addr'[j][0]] = HdrOf(f)
  BY <1>3, <1>5
<1> QED
  BY <1>2, <1>6, <1>7, <1>8, <1>9, Recorded DEF RecordFirst

LEMMA RecordOtherStep == ASSUME DefragInv, RecordOther PROVE DefragInv'
<1> DEFINE i == IdOf[prod.f[1]]
           k == last_pos[i] + 1
<1>1. DefragType /\ RecordType /\ prod.f \in Fragments /\ Addressed /\ Sources
  BY TypeFacts DEF DefragInv, DefragType, RecordOther
<1>2. i \in Ids /\ k \in Nat /\ k >= 1
  BY <1>1, FragmentFacts DEF RecordType
<1>3. Len(mem) \in Nat /\ Len(mem) >= 2
  BY <1>1, TypeFacts DEF Sources, RecordOther
<1>4. ring_addr' = IF k \in Slots THEN [ring_addr EXCEPT ![i] = [ring_addr[i] EXCEPT ![k] = Len(mem) - 1]]
                                  ELSE ring_addr
  BY <1>1, <1>2 DEF RecordOther, RecordType
<1> DEFINE new == IF k \in Slots THEN [ring_addr[i] EXCEPT ![k] = Len(mem) - 1]
                                  ELSE ring_addr[i]
<1>5. /\ \A j \in Ids \ {i} : ring_addr'[j] = ring_addr[j]
      /\ \A s \in Slots : ring_addr'[i][s] \in {ring_addr[i][s], Len(mem) - 1}
      /\ ring_addr'[i][0] = ring_addr[i][0]
      /\ ring_addr' \in [Ids -> [Slots -> Nat]]
  <2>1. /\ ring_addr \in [Ids -> [Slots -> Nat]] /\ ring_addr[i] \in [Slots -> Nat]
        /\ 0 \in Slots /\ Len(mem) - 1 \in Nat
    BY <1>1, <1>2, <1>3, Constants DEF RecordType
  <2>2. ring_addr' = [ring_addr EXCEPT ![i] = new]
    BY <1>4, <2>1
  <2> HIDE DEF i
  <2>3. /\ new \in [Slots -> Nat] /\ new[0] = ring_addr[i][0]
        /\ \A s \in Slots : new[s] \in {ring_addr[i][s], Len(mem) - 1}
    BY <1>2, <2>1
  <2> HIDE DEF new
  <2>4. ring_addr'[i] = new /\ \A j \in Ids \ {i} : ring_addr'[j] = ring_addr[j]
    BY <1>2, <2>1, <2>2
  <2>5. ring_addr' \in [Ids -> [Slots -> Nat]]
    BY <1>2, <2>1, <2>2, <2>3
  <2> QED
    BY <2>3, <2>4, <2>5
<1> HIDE DEF new
<1>6. RecordType'
  <2>1. ring_addr' \in [Ids -> [Slots -> Nat]]
    BY <1>5
  <2>2. /\ data_progress' = [data_progress EXCEPT ![i] = data_progress[i] + 1]
        /\ UNCHANGED <<dirty, data_length, last_pos>>
    BY DEF RecordOther
  <2>3. data_progress' \in [Ids -> Nat]
    BY <1>1, <1>2, <2>2 DEF RecordType
  <2> QED
    BY <1>1, <2>1, <2>2, <2>3 DEF RecordType
<1>7. mem' = mem /\ prod' = [prod EXCEPT !.at = "advance"] /\ prod'.at = "advance"
  <2>1. prod \in [at : {"push", "record", "advance"}, f : Fragments]
    BY <1>1 DEF DefragType, Idle, RecordOther
  <2> QED
    BY <2>1 DEF RecordOther, ringv
<1>8. \A j \in Ids : /\ ring_addr'[j][0] = ring_addr[j][0]
                     /\ \A s \in Slots : ring_addr'[j][s] \in {ring_addr[j][s], Len(mem) - 1}
  BY <1>5
<1>9. Addressed'
  <2> SUFFICES ASSUME NEW j \in Ids
               PROVE  /\ \A s \in Slots : ring_addr'[j][s] # 0 => ring_addr'[j][s] < Len(mem)
                      /\ ring_addr'[j][0] # 0 =>
                            LET h == mem[ring_addr'[j][0]] IN
                            /\ h.kind = "hdr" /\ h.p = 1 /\ PartsOf[h.d] > 1 /\ IdOf[h.d] = j
    BY <1>7 DEF Addressed
  <2>1. ASSUME NEW s \in Slots, ring_addr'[j][s] # 0 PROVE ring_addr'[j][s] < Len(mem)
    BY <1>1, <1>3, <1>8, <2>1 DEF Addressed
  <2> QED
    BY <1>1, <1>8, <2>1 DEF Addressed
<1> QED
  BY <1>6, <1>7, <1>8, <1>9, Recorded DEF RecordOther

\* What was pushed stays where it is, and the new items come behind it.
LEMMA PushStep == ASSUME DefragInv, Push PROVE DefragInv'
<1> DEFINE f == prod.f
           L == Len(mem)
<1>1. DefragType /\ f \in Fragments /\ Paired /\ Held /\ Addressed /\ Sources /\ Spent
  BY TypeFacts DEF DefragInv, Push
<1>2. /\ mem \in Seq(Item) /\ L \in Nat /\ head \in Nat /\ avail \in Nat
      /\ \A a \in 1..L : mem[a] \in Item
      /\ cons.at \in {"pop", "wait", "take", "copy", "own", "ignore"}
  BY <1>1, TypeFacts
<1>3. /\ HdrOf(f) \in Item /\ PayOf(f) \in Item /\ f = <<f[1], f[2]>>
      /\ HdrOf(f).kind = "hdr" /\ <<HdrOf(f).d, HdrOf(f).p>> = f
      /\ PayOf(f).kind = "pay" /\ <<PayOf(f).d, PayOf(f).p>> = f
      /\ f \notin todo /\ \A a \in 1..L : mem[a] # HdrOf(f)
  <2>1. /\ HdrOf(f) \in Item /\ PayOf(f) \in Item /\ f = <<f[1], f[2]>>
        /\ HdrOf(f).kind = "hdr" /\ HdrOf(f).d = f[1] /\ HdrOf(f).p = f[2]
        /\ PayOf(f).kind = "pay" /\ PayOf(f).d = f[1] /\ PayOf(f).p = f[2]
    BY <1>1, FragmentFacts
  <2>2. f \notin todo /\ \A a \in 1..L : mem[a] # HdrOf(f)
    BY <1>1 DEF Sources, Push
  <2> QED
    BY <2>1, <2>2
<1>4. /\ mem' \in Seq(Item) /\ Len(mem') = L + 2
      /\ \A a \in 1..L : mem'[a] = mem[a]
      /\ mem'[L + 1] = HdrOf(f) /\ mem'[L + 2] = PayOf(f)
  <2>1. <<HdrOf(f), PayOf(f)>> \in Seq(Item) /\ Len(<<HdrOf(f), PayOf(f)>>) = 2
    BY <1>3
  <2>2. mem' = mem \o <<HdrOf(f), PayOf(f)>>
    BY DEF Push
  <2>3. /\ mem' \in Seq(Item) /\ Len(mem') = L + 2
        /\ \A a \in 1..(L + 2) : mem'[a] = IF a <= L THEN mem[a] ELSE <<HdrOf(f), PayOf(f)>>[a - L]
    BY <1>2, <2>1, <2>2, ConcatProperties
  <2> QED
    BY <1>2, <2>3
<1>5. /\ avail' = avail + 1 /\ head' = head /\ refused' = refused /\ cons' = cons
      /\ todo' = todo /\ delivered' = delivered /\ ring_addr' = ring_addr /\ RecordType'
  BY <1>1 DEF Push, recs, DefragType, RecordType
<1>6. /\ prod' \in [at : {"push", "record", "advance"}, f : Fragments] \cup {Idle}
      /\ prod'.at = "record" /\ prod'.f = f
  <2>1. prod \in [at : {"push", "record", "advance"}, f : Fragments]
    BY <1>1 DEF DefragType, Idle, Push
  <2> QED
    BY <2>1 DEF Push
<1>7. DefragType'
  BY <1>1, <1>2, <1>4, <1>5, <1>6 DEF DefragType
<1>8. Paired'
  <2> DEFINE h == Half
  <2>1. h \in {0, 1} /\ Half' = h /\ (cons.at # "pop" => h = 1)
    BY <1>5 DEF Half
  <2>2. L >= head + h + 2 * avail /\ Len(mem') >= head + h + 2 * (avail + 1)
    BY <1>1, <1>2, <1>4, <2>1 DEF Paired
  <2>3. ASSUME ~refused, NEW j \in 1..(avail + 1)
        PROVE  IsPair(mem'[head + h + 2*j - 1], mem'[head + h + 2*j])
    <3>1. L = head + h + 2 * avail /\ \A k \in 1..avail : IsPair(mem[head + h + 2*k - 1], mem[head + h + 2*k])
      BY <1>1, <2>3 DEF Paired
    <3>2. CASE j \in 1..avail
      <4>1. head + h + 2*j - 1 \in 1..L /\ head + h + 2*j \in 1..L
        BY <1>2, <2>1, <3>1, <3>2
      <4> QED
        BY <1>4, <3>1, <3>2, <4>1
    <3>3. CASE j = avail + 1
      <4>1. head + h + 2*j - 1 = L + 1 /\ head + h + 2*j = L + 2
        BY <1>2, <2>1, <3>1, <3>3
      <4> QED
        BY <1>3, <1>4, <4>1 DEF IsPair
    <3> QED
      BY <1>2, <3>2, <3>3
  <2>4. ASSUME ~refused, cons.at # "pop"
        PROVE  cons.hdr \in Item /\ mem'[head + 1] = PayOf(<<cons.hdr.d, cons.hdr.p>>)
    <3>1. cons.hdr \in Item /\ mem[head + 1] = PayOf(<<cons.hdr.d, cons.hdr.p>>)
      BY <1>1, <2>4 DEF Paired
    <3>2. head + 1 \in 1..L
      BY <1>2, <2>1, <2>2, <2>4
    <3> QED
      BY <1>4, <3>1, <3>2
  <2>5. ~refused => L + 2 = head + h + 2 * (avail + 1)
    BY <1>1, <1>2, <2>1 DEF Paired
  <2> HIDE DEF h
  <2> QED
    BY <1>4, <1>5, <2>1, <2>2, <2>3, <2>4, <2>5 DEF Paired
<1>9. Held'
  <2>1. cons.at \in {"wait", "take", "copy"} => head \in 1..L
    BY <1>1, <1>2 DEF Held, Paired, Half
  <2> QED
    BY <1>1, <1>4, <1>5, <2>1 DEF Held
<1>10. \A a \in 1..(L + 2) : a \in 1..L \/ a = L + 1 \/ a = L + 2
  BY <1>2
<1>11. Sources'
  <2>1. \A a \in 1..(L + 2) : /\ <<mem'[a].d, mem'[a].p>> \in Fragments
                              /\ mem'[a].kind = "hdr" => <<mem'[a].d, mem'[a].p>> \notin todo
    <3>1. \A a \in 1..L : /\ <<mem[a].d, mem[a].p>> \in Fragments
                          /\ mem[a].kind = "hdr" => <<mem[a].d, mem[a].p>> \notin todo
      BY <1>1 DEF Sources
    <3> QED
      BY <1>1, <1>3, <1>4, <1>10, <3>1
  <2>2. ASSUME NEW a \in 1..(L + 2), NEW b \in 1..(L + 2), mem'[a].kind = "hdr", mem'[a] = mem'[b]
        PROVE  a = b
    <3>1. \A c \in 1..L : mem'[c] # HdrOf(f) /\ (mem'[c].kind = "hdr" => mem'[c] # PayOf(f))
      BY <1>3, <1>4
    <3>2. mem'[L + 2].kind # "hdr" /\ mem'[L + 1] # mem'[L + 2]
      BY <1>3, <1>4
    <3>3. a # L + 2 /\ b # L + 2
      BY <2>2, <3>2
    <3>4. CASE a \in 1..L /\ b \in 1..L
      BY <1>1, <1>4, <2>2, <3>4 DEF Sources
    <3>5. CASE a \notin 1..L \/ b \notin 1..L
      BY <1>4, <1>10, <2>2, <3>1, <3>3, <3>5
    <3> QED
      BY <3>4, <3>5
  <2>3. Len(mem') - 1 = L + 1
    BY <1>2, <1>4
  <2> QED
    BY <1>2, <1>4, <1>5, <1>6, <2>1, <2>2, <2>3 DEF Sources
<1>12. Addressed'
  <2> SUFFICES ASSUME NEW i \in Ids
               PROVE  /\ \A s \in Slots : ring_addr[i][s] # 0 => ring_addr[i][s] < L + 2
                      /\ ring_addr[i][0] # 0 =>
                            LET h == mem'[ring_addr[i][0]] IN
                            /\ h.kind = "hdr" /\ h.p = 1 /\ PartsOf[h.d] > 1 /\ IdOf[h.d] = i
                            /\ h # HdrOf(f)
    BY <1>4, <1>5, <1>6 DEF Addressed
  <2>1. \A s \in Slots : ring_addr[i][s] \in Nat /\ (ring_addr[i][s] # 0 => ring_addr[i][s] < L)
    BY <1>1, TypeFacts DEF Addressed
  <2>2. ring_addr[i][0] # 0 => ring_addr[i][0] \in 1..L
    BY <1>2, <2>1, Constants
  <2>3. ring_addr[i][0] # 0 => LET h == mem[ring_addr[i][0]] IN
                               h.kind = "hdr" /\ h.p = 1 /\ PartsOf[h.d] > 1 /\ IdOf[h.d] = i
    BY <1>1 DEF Addressed
  <2>4. \A s \in Slots : ring_addr[i][s] # 0 => ring_addr[i][s] < L + 2
    BY <1>2, <2>1
  <2> QED
    BY <1>3, <1>4, <2>2, <2>3, <2>4
<1>13. Spent'
  <2> SUFFICES ASSUME NEW n \in DOMAIN delivered, NEW d, d = delivered[n].d, d # Junk
               PROVE  /\ PartsOf[d] = 1 =>
                            \E a \in 1..head : /\ a <= L + 2 /\ mem'[a] = HdrOf(<<d, 1>>)
                                               /\ cons.at \in {"wait", "take"} => a # head
                      /\ PartsOf[d] > 1 =>
                            /\ <<d, 1>> \notin todo
                            /\ f # <<d, 1>>
                            /\ \A i \in Ids : ring_addr[i][0] # 0 => mem'[ring_addr[i][0]].d # d
    BY <1>4, <1>5, <1>6 DEF Spent
  <2>1. ASSUME PartsOf[d] = 1
        PROVE  \E a \in 1..head : /\ a <= L + 2 /\ mem'[a] = HdrOf(<<d, 1>>)
                                  /\ cons.at \in {"wait", "take"} => a # head
    <3>1. PICK a \in 1..head : /\ a <= L /\ mem[a] = HdrOf(<<d, 1>>)
                               /\ cons.at \in {"wait", "take"} => a # head
      BY <1>1, <2>1 DEF Spent
    <3>2. a \in 1..L /\ a <= L + 2
      BY <1>2, <3>1
    <3> QED
      BY <1>4, <3>1, <3>2
  <2>2. ASSUME PartsOf[d] > 1, NEW i \in Ids, ring_addr[i][0] # 0
        PROVE  mem'[ring_addr[i][0]].d # d
    <3>1. ring_addr[i][0] \in 1..L
      BY <1>1, <1>2, <2>2, TypeFacts, Constants DEF Addressed
    <3> QED
      BY <1>1, <1>4, <2>2, <3>1 DEF Spent
  <2> QED
    BY <1>1, <2>1, <2>2 DEF Spent, Push
<1>14. OwnPayload' /\ ForwardedOnce'
  BY <1>5, DeliveredFrame
<1> QED
  BY <1>7, <1>8, <1>9, <1>11, <1>12, <1>13, <1>14 DEF DefragInv

\* A refused push leaves a header without a payload, or nothing; what the
\* capture thread knew of the datagram is cleared in both cases.
LEMMA PushRefusedStep == ASSUME DefragInv, PushRefused PROVE DefragInv'
<1> DEFINE f == prod.f
           L == Len(mem)
           M == Len(mem')
<1>1. /\ DefragType /\ f \in Fragments /\ Paired /\ Held /\ Addressed /\ Sources /\ Spent
      /\ RecordType /\ OwnPayload /\ ForwardedOnce
  BY TypeFacts DEF DefragInv, DefragType, PushRefused
<1>2. /\ mem \in Seq(Item) /\ L \in Nat /\ head \in Nat /\ avail \in Nat
      /\ \A a \in 1..L : mem[a] \in Item
      /\ cons.at \in {"pop", "wait", "take", "copy", "own", "ignore"}
  BY <1>1, TypeFacts
<1>3. /\ HdrOf(f) \in Item /\ f = <<f[1], f[2]>> /\ IdOf[f[1]] \in Ids
      /\ HdrOf(f).kind = "hdr" /\ <<HdrOf(f).d, HdrOf(f).p>> = f
      /\ f \notin todo /\ \A a \in 1..L : mem[a] # HdrOf(f)
  <2>1. /\ HdrOf(f) \in Item /\ f = <<f[1], f[2]>> /\ IdOf[f[1]] \in Ids
        /\ HdrOf(f).kind = "hdr" /\ HdrOf(f).d = f[1] /\ HdrOf(f).p = f[2]
    BY <1>1, FragmentFacts
  <2>2. f \notin todo /\ \A a \in 1..L : mem[a] # HdrOf(f)
    BY <1>1 DEF Sources, PushRefused
  <2> QED
    BY <2>1, <2>2
<1>4. /\ mem' \in Seq(Item) /\ M \in {L, L + 1}
      /\ \A a \in 1..L : mem'[a] = mem[a]
      /\ M = L + 1 => mem'[L + 1] = HdrOf(f) /\ refused'
      /\ ~refused' => ~refused /\ mem' = mem
  <2>1. CASE Free = 1
    <3>1. mem' = Append(mem, HdrOf(f)) /\ refused' = TRUE
      BY <2>1 DEF PushRefused
    <3> QED
      BY <1>2, <1>3, <3>1, AppendProperties
  <2>2. CASE Free # 1
    <3>1. mem' = mem /\ refused' = refused
      BY <1>1, <2>2 DEF PushRefused, DefragType
    <3>2. M # L + 1
      BY <1>2, <3>1
    <3> QED
      BY <1>2, <3>1, <3>2
  <2> QED
    BY <2>1, <2>2
<1>5. /\ avail' = avail /\ head' = head /\ cons' = cons /\ refused' \in BOOLEAN
      /\ todo' = todo /\ delivered' = delivered /\ prod' = Idle /\ prod'.at = "idle"
  BY <1>1 DEF PushRefused, DefragType, Idle
<1>6. /\ RecordType'
      /\ \A i \in Ids, s \in Slots : ring_addr'[i][s] \in {0, ring_addr[i][s]}
  BY <1>1, <1>3, ZeroedFacts DEF PushRefused, Kept
<1>7. DefragType'
  BY <1>1, <1>2, <1>4, <1>5, <1>6 DEF DefragType
<1>8. Paired'
  <2>1. Half' = Half /\ Half \in {0, 1} /\ (~refused' => mem' = mem)
    BY <1>4, <1>5 DEF Half
  <2>2. M >= head + Half + 2 * avail
    BY <1>1, <1>2, <1>4, <2>1 DEF Paired
  <2> QED
    BY <1>1, <1>4, <1>5, <2>1, <2>2 DEF Paired
<1>9. Held'
  <2>1. cons.at \in {"wait", "take", "copy"} => head \in 1..L
    BY <1>1, <1>2 DEF Held, Paired, Half
  <2> QED
    BY <1>1, <1>4, <1>5, <2>1 DEF Held
<1>10. \A a \in 1..M : a \in 1..L \/ (a = L + 1 /\ mem'[a] = HdrOf(f))
  BY <1>2, <1>4
<1>11. Sources'
  <2>1. \A a \in 1..M : /\ <<mem'[a].d, mem'[a].p>> \in Fragments
                        /\ mem'[a].kind = "hdr" => <<mem'[a].d, mem'[a].p>> \notin todo
    <3>1. \A a \in 1..L : /\ <<mem[a].d, mem[a].p>> \in Fragments
                          /\ mem[a].kind = "hdr" => <<mem[a].d, mem[a].p>> \notin todo
      BY <1>1 DEF Sources
    <3> QED
      BY <1>1, <1>3, <1>4, <1>10, <3>1
  <2>2. ASSUME NEW a \in 1..M, NEW b \in 1..M, mem'[a].kind = "hdr", mem'[a] = mem'[b]
        PROVE  a = b
    <3>1. \A c \in 1..L : mem'[c] # HdrOf(f)
      BY <1>3, <1>4
    <3>2. CASE a \in 1..L /\ b \in 1..L
      BY <1>1, <1>4, <2>2, <3>2 DEF Sources
    <3>3. CASE a \notin 1..L \/ b \notin 1..L
      BY <1>10, <2>2, <3>1, <3>3
    <3> QED
      BY <3>2, <3>3
  <2> QED
    BY <1>5, <2>1, <2>2 DEF Sources
<1>12. \A i \in Ids :
          /\ \A s \in Slots : ring_addr'[i][s] # 0 => /\ ring_addr'[i][s] = ring_addr[i][s]
                                                      /\ ring_addr[i][s] < L
          /\ ring_addr'[i][0] # 0 => /\ ring_addr'[i][0] = ring_addr[i][0]
                                     /\ ring_addr[i][0] \in 1..L
                                     /\ mem'[ring_addr'[i][0]] = mem[ring_addr[i][0]]
  <2> TAKE i \in Ids
  <2>1. \A s \in Slots : /\ ring_addr[i][s] \in Nat
                         /\ ring_addr'[i][s] # 0 => ring_addr'[i][s] = ring_addr[i][s] /\ ring_addr[i][s] < L
    BY <1>1, <1>6, TypeFacts DEF Addressed
  <2> QED
    BY <1>2, <1>4, <2>1, Constants
<1>13. Addressed'
  <2> SUFFICES ASSUME NEW i \in Ids
               PROVE  /\ \A s \in Slots : ring_addr'[i][s] # 0 => ring_addr'[i][s] < M
                      /\ ring_addr'[i][0] # 0 =>
                            LET h == mem'[ring_addr'[i][0]] IN
                            h.kind = "hdr" /\ h.p = 1 /\ PartsOf[h.d] > 1 /\ IdOf[h.d] = i
    BY <1>5 DEF Addressed
  <2>1. \A s \in Slots : ring_addr'[i][s] # 0 => ring_addr'[i][s] < M
    BY <1>1, <1>2, <1>4, <1>12, TypeFacts
  <2> QED
    BY <1>1, <1>12, <2>1 DEF Addressed
<1>14. Spent'
  <2> SUFFICES ASSUME NEW n \in DOMAIN delivered, NEW d, d = delivered[n].d, d # Junk
               PROVE  /\ PartsOf[d] = 1 =>
                            \E a \in 1..head : /\ a <= M /\ mem'[a] = HdrOf(<<d, 1>>)
                                               /\ cons.at \in {"wait", "take"} => a # head
                      /\ PartsOf[d] > 1 =>
                            /\ <<d, 1>> \notin todo
                            /\ \A i \in Ids : ring_addr'[i][0] # 0 => mem'[ring_addr'[i][0]].d # d
    BY <1>5 DEF Spent
  <2>1. ASSUME PartsOf[d] = 1
        PROVE  \E a \in 1..head : /\ a <= M /\ mem'[a] = HdrOf(<<d, 1>>)
                                  /\ cons.at \in {"wait", "take"} => a # head
    <3>1. PICK a \in 1..head : /\ a <= L /\ mem[a] = HdrOf(<<d, 1>>)
                               /\ cons.at \in {"wait", "take"} => a # head
      BY <1>1, <2>1 DEF Spent
    <3>2. a \in 1..L /\ a <= M
      BY <1>2, <1>4, <3>1
    <3> QED
      BY <1>4, <3>1, <3>2
  <2>2. ASSUME PartsOf[d] > 1, NEW i \in Ids, ring_addr'[i][0] # 0
        PROVE  mem'[ring_addr'[i][0]].d # d
    <3>1. ring_addr[i][0] # 0 /\ mem'[ring_addr'[i][0]] = mem[ring_addr[i][0]]
      BY <1>12, <2>2
    <3>2. mem[ring_addr[i][0]].d # d
      BY <1>1, <2>2, <3>1 DEF Spent
    <3> QED
      BY <3>1, <3>2
  <2> QED
    BY <1>1, <2>1, <2>2 DEF Spent
<1>15. OwnPayload' /\ ForwardedOnce'
  BY <1>1, <1>4, <1>5 DEF OwnPayload, ForwardedOnce
<1> QED
  BY <1>7, <1>8, <1>9, <1>11, <1>13, <1>14, <1>15 DEF DefragInv

-----------------------------------------------------------------------------
\* A step of the forwarding thread that forwards nothing: no address is new,
\* and a header is never held again once it was let go.
LEMMA Moved ==
    ASSUME DefragInv, UNCHANGED <<todo, mem, refused, prod, delivered>>,
           RecordType', Kept, head' \in Nat, head' >= head, avail' \in Nat,
           cons' \in [at : {"pop", "wait", "take", "copy", "own", "ignore"}, hdr : Item \cup {NoHdr}],
           cons'.at \in {"wait", "take"} => cons.at = "wait" \/ head' = head + 1,
           Paired', Held'
    PROVE  DefragInv'
<1>1. DefragType /\ Sources /\ Spent /\ head \in Nat
  BY TypeFacts DEF DefragInv
<1>2. DefragType'
  BY <1>1 DEF DefragType
<1>3. Sources' /\ OwnPayload' /\ ForwardedOnce'
  BY <1>1, DeliveredFrame DEF Sources
<1>4. Addressed'
  BY AddressedFrame
<1>5. Spent'
  <2> SUFFICES ASSUME NEW n \in DOMAIN delivered, NEW d, d = delivered[n].d, d # Junk
               PROVE  /\ PartsOf[d] = 1 =>
                            \E a \in 1..head' : /\ a <= Len(mem) /\ mem[a] = HdrOf(<<d, 1>>)
                                                /\ cons'.at \in {"wait", "take"} => a # head'
                      /\ PartsOf[d] > 1 =>
                            /\ <<d, 1>> \notin todo
                            /\ prod.at \in {"push", "record"} => prod.f # <<d, 1>>
                            /\ \A i \in Ids : ring_addr'[i][0] # 0 => mem[ring_addr'[i][0]].d # d
    BY DEF Spent
  <2>1. \A i \in Ids : ring_addr'[i][0] \in {0, ring_addr[i][0]}
    BY Constants DEF Kept
  <2>2. ASSUME PartsOf[d] = 1
        PROVE  \E a \in 1..head' : /\ a <= Len(mem) /\ mem[a] = HdrOf(<<d, 1>>)
                                   /\ cons'.at \in {"wait", "take"} => a # head'
    <3>1. PICK a \in 1..head : /\ a <= Len(mem) /\ mem[a] = HdrOf(<<d, 1>>)
                               /\ cons.at \in {"wait", "take"} => a # head
      BY <1>1, <2>2 DEF Spent
    <3>2. a \in 1..head' /\ (head' = head + 1 => a # head') /\ (a # head => a # head')
      BY <1>1, <3>1
    <3> QED
      BY <3>1, <3>2
  <2> QED
    BY <1>1, <2>1, <2>2 DEF Spent
<1> QED
  BY <1>2, <1>3, <1>4, <1>5 DEF DefragInv

\* A header and its payload are popped together, as far as the ring goes: the
\* middle of the pair is where the forwarding thread holds the header.
LEMMA PairDone ==
    ASSUME DefragInv, cons.at # "pop", cons'.at = "pop", head' = head + 1,
           UNCHANGED <<mem, avail, refused>>
    PROVE  Paired' /\ Held'
<1>1. DefragType /\ Paired /\ head \in Nat
  BY TypeFacts DEF DefragInv
<1>2. Half = 1 /\ Half' = 0
  BY DEF Half
<1>3. head' + Half' = head + Half
  BY <1>1, <1>2
<1>4. Paired'
  <2>1. Len(mem) >= head + Half + 2 * avail /\ (~refused => Len(mem) = head + Half + 2 * avail)
    BY <1>1 DEF Paired
  <2>2. ASSUME ~refused, NEW k \in 1..avail
        PROVE  IsPair(mem[head' + Half' + 2*k - 1], mem[head' + Half' + 2*k])
    BY <1>1, <1>3, <2>2 DEF Paired
  <2> QED
    BY <1>3, <2>1, <2>2 DEF Paired
<1> QED
  BY <1>4 DEF Held

LEMMA PopStep == ASSUME DefragInv, PopHeader PROVE DefragInv'
<1> DEFINE it == mem[head + 1]
<1>1. /\ DefragType /\ RecordType /\ Paired /\ cons.at = "pop"
      /\ head \in Nat /\ avail \in Nat /\ avail >= 1 /\ Len(mem) \in Nat /\ Half = 0
      /\ \A a \in 1..Len(mem) : mem[a] \in Item
  BY TypeFacts DEF DefragInv, DefragType, PopHeader, Half
<1>2. /\ head' = head + 1 /\ avail' = avail - 1
      /\ UNCHANGED <<todo, mem, refused, recs, prod, delivered>>
  BY DEF PopHeader
<1>3. Len(mem) >= head + 2 * avail /\ it \in Item
  <2>1. Len(mem) >= head + 2 * avail
    BY <1>1 DEF Paired
  <2> QED
    BY <1>1, <2>1
<1>4. ~refused => /\ Len(mem) = head + 2 * avail
                  /\ it.kind = "hdr" /\ mem[head + 2] = PayOf(<<it.d, it.p>>)
  <2> SUFFICES ASSUME ~refused
               PROVE  /\ Len(mem) = head + 2 * avail
                      /\ it.kind = "hdr" /\ mem[head + 2] = PayOf(<<it.d, it.p>>)
    OBVIOUS
  <2>1. Len(mem) = head + 2 * avail /\ IsPair(mem[head + 0 + 2 * 1 - 1], mem[head + 0 + 2 * 1])
    BY <1>1 DEF Paired
  <2>2. head + 0 + 2 * 1 - 1 = head + 1 /\ head + 0 + 2 * 1 = head + 2
    BY <1>1
  <2> QED
    BY <2>1, <2>2 DEF IsPair
<1>5. \/ /\ refused /\ it.kind = "pay"
         /\ cons' \in [at : {"pop", "ignore"}, hdr : {NoHdr}]
      \/ /\ it.kind = "hdr" /\ cons'.at \in {"wait", "ignore"} /\ cons'.hdr = it
         /\ cons' \in [at : {"wait", "ignore"}, hdr : Item]
  <2>1. CASE it.kind = "pay" /\ cons' \in [at : {"pop", "ignore"}, hdr : {NoHdr}]
    BY <1>1, <1>4, <2>1 DEF DefragType
  <2>2. CASE it.kind = "hdr" /\ cons' = [at |-> IF dirty[IdOf[it.d]] THEN "wait" ELSE "ignore", hdr |-> it]
    BY <1>3, <2>2
  <2> QED
    BY <2>1, <2>2 DEF PopHeader
<1>6. Half' \in {0, 1} /\ (~refused => Half' = 1 /\ it.kind = "hdr" /\ cons'.hdr = it)
  BY <1>5 DEF Half
<1>7. Paired'
  <2>1. Len(mem) >= (head + 1) + Half' + 2 * (avail - 1)
    BY <1>1, <1>3, <1>6
  <2>2. ~refused => Len(mem) = (head + 1) + 1 + 2 * (avail - 1)
    BY <1>1, <1>4
  <2>3. ASSUME ~refused, NEW k \in 1..(avail - 1)
        PROVE  IsPair(mem[(head + 1) + 1 + 2*k - 1], mem[(head + 1) + 1 + 2*k])
    <3>1. k + 1 \in 1..avail
      BY <1>1
    <3>2. IsPair(mem[head + 0 + 2 * (k + 1) - 1], mem[head + 0 + 2 * (k + 1)])
      BY <1>1, <2>3, <3>1 DEF Paired
    <3>3. /\ head + 0 + 2 * (k + 1) - 1 = (head + 1) + 1 + 2*k - 1
          /\ head + 0 + 2 * (k + 1) = (head + 1) + 1 + 2*k
      BY <1>1
    <3> QED
      BY <3>2, <3>3
  <2>4. ~refused => /\ cons'.hdr \in Item
                    /\ mem[(head + 1) + 1] = PayOf(<<cons'.hdr.d, cons'.hdr.p>>)
    <3>1. (head + 1) + 1 = head + 2
      BY <1>1
    <3> QED
      BY <1>3, <1>4, <1>6, <3>1
  <2> QED
    BY <1>2, <1>6, <2>1, <2>2, <2>3, <2>4 DEF Paired
<1>8. Held'
  <2>1. cons'.at = "wait" => it.kind = "hdr" /\ cons'.hdr = it
    BY <1>5
  <2> QED
    BY <1>1, <1>2, <1>3, <1>5, <2>1 DEF Held
<1>9. RecordType' /\ Kept
  BY <1>1, <1>2 DEF RecordType, Kept, recs
<1>10. /\ cons' \in [at : {"pop", "wait", "take", "copy", "own", "ignore"}, hdr : Item \cup {NoHdr}]
       /\ head' \in Nat /\ head' >= head /\ avail' \in Nat
  <2>1. cons' \in [at : {"pop", "wait", "take", "copy", "own", "ignore"}, hdr : Item \cup {NoHdr}]
    BY <1>5
  <2> QED
    BY <1>1, <1>2, <2>1
<1> QED
  BY <1>2, <1>7, <1>8, <1>9, <1>10, Moved

LEMMA WaitCompleteStep == ASSUME DefragInv, WaitComplete PROVE DefragInv'
<1>1. DefragType /\ RecordType /\ Paired /\ Held /\ cons.at = "wait" /\ head \in Nat /\ avail \in Nat
  BY TypeFacts DEF DefragInv, DefragType, WaitComplete
<1>2. /\ cons' = [at |-> IF PartsOf[cons.hdr.d] = 1 THEN "take" ELSE "copy", hdr |-> cons.hdr]
      /\ UNCHANGED <<todo, mem, head, avail, refused, recs, prod, delivered>>
  BY DEF WaitComplete, Goto, ringv
<1>3. cons.hdr \in Item /\ cons'.hdr = cons.hdr /\ cons'.at \in {"take", "copy"}
  BY <1>1, <1>2 DEF Held
<1>4. Half = 1 /\ Half' = 1
  BY <1>1, <1>3 DEF Half
<1>5. Paired'
  BY <1>1, <1>2, <1>3, <1>4 DEF Paired
<1>6. Held'
  BY <1>1, <1>2, <1>3 DEF Held
<1>7. RecordType' /\ Kept
  BY <1>1, <1>2 DEF RecordType, Kept, recs
<1> QED
  BY <1>1, <1>2, <1>3, <1>5, <1>6, <1>7, Moved

LEMMA WaitOverStep == ASSUME DefragInv, WaitOver PROVE DefragInv'
<1>1. DefragType /\ RecordType /\ Paired /\ Held /\ cons.at = "wait" /\ head \in Nat /\ avail \in Nat
  BY TypeFacts DEF DefragInv, DefragType, WaitOver
<1>2. /\ cons' = [at |-> "ignore", hdr |-> cons.hdr]
      /\ UNCHANGED <<todo, mem, head, avail, refused, prod, delivered>>
  BY DEF WaitOver, Goto, ringv
<1>3. cons.hdr \in Item /\ HeldId \in Ids
  BY <1>1, ItemFacts, Constants DEF Held, HeldId
<1>4. Half = 1 /\ Half' = 1
  BY <1>1, <1>2 DEF Half
<1>5. Paired' /\ Held'
  BY <1>1, <1>2, <1>3, <1>4 DEF Paired, Held
<1>6. RecordType' /\ Kept
  BY <1>1, <1>3, ZeroedFacts DEF WaitOver
<1> QED
  BY <1>1, <1>2, <1>3, <1>5, <1>6, Moved

LEMMA DropStep == ASSUME DefragInv, DropPayload PROVE DefragInv'
<1>1. /\ DefragType /\ RecordType /\ Paired /\ cons.at \in {"own", "ignore"}
      /\ head \in Nat /\ avail \in Nat /\ Len(mem) \in Nat
  BY TypeFacts DEF DefragInv, DefragType, DropPayload
<1>2. /\ cons' = [at |-> "pop", hdr |-> NoHdr]
      /\ UNCHANGED <<todo, mem, avail, refused, recs, prod, delivered>>
  BY DEF DropPayload, Goto
<1>3. head' = head + 1
  <2>1. head < Len(mem)
    BY <1>1 DEF Paired, Half
  <2> QED
    BY <2>1 DEF DropPayload
<1>4. Paired' /\ Held'
  BY <1>1, <1>2, <1>3, PairDone
<1>5. RecordType' /\ Kept
  BY <1>1, <1>2 DEF RecordType, Kept, recs
<1> QED
  BY <1>1, <1>2, <1>3, <1>4, <1>5, Moved

-----------------------------------------------------------------------------
\* Why nothing can forward the datagram d again after this step.
SpentNow(d) ==
    /\ PartsOf[d] = 1 => \E a \in 1..head' : a <= Len(mem) /\ mem[a] = HdrOf(<<d, 1>>)
    /\ PartsOf[d] > 1 =>
          /\ <<d, 1>> \notin todo
          /\ prod.at \in {"push", "record"} => prod.f # <<d, 1>>
          /\ \A i \in Ids : ring_addr'[i][0] # 0 => mem[ring_addr'[i][0]].d # d

LEMMA Forwarded ==
    ASSUME DefragInv, NEW x \in Delivery, delivered' = Append(delivered, x),
           UNCHANGED <<todo, mem, avail, refused, prod>>,
           RecordType', Kept, head' \in Nat, head' >= head,
           cons' \in [at : {"pop", "own"}, hdr : Item \cup {NoHdr}], Paired', Held',
           x.d # Junk => SpentNow(x.d) /\ \A n \in DOMAIN delivered : delivered[n].d # x.d,
           ~refused /\ x.d \in Datagrams /\ PartsOf[x.d] = 1 => x.parts = {PayOf(<<x.d, 1>>)}
    PROVE  DefragInv'
<1> DEFINE N == Len(delivered)
<1>1. /\ DefragType /\ Sources /\ Spent /\ OwnPayload /\ ForwardedOnce
      /\ head \in Nat /\ N \in Nat /\ delivered \in Seq(Delivery) /\ DOMAIN delivered = 1..N
  BY TypeFacts DEF DefragInv
<1>2. /\ delivered' \in Seq(Delivery) /\ DOMAIN delivered' = 1..(N + 1)
      /\ \A n \in DOMAIN delivered : delivered'[n] = delivered[n]
      /\ delivered'[N + 1] = x
      /\ \A n \in DOMAIN delivered' : n \in DOMAIN delivered \/ n = N + 1
  <2>1. delivered' \in Seq(Delivery) /\ Len(delivered') = N + 1
    BY <1>1, AppendProperties
  <2>2. DOMAIN delivered' = 1..(N + 1)
    BY <2>1, LenProperties
  <2>3. (\A n \in 1..N : delivered'[n] = delivered[n]) /\ delivered'[N + 1] = x
    BY <1>1, AppendProperties
  <2> QED
    BY <1>1, <2>1, <2>2, <2>3
<1>3. DefragType'
  <2>1. cons' \in [at : {"pop", "wait", "take", "copy", "own", "ignore"}, hdr : Item \cup {NoHdr}]
    OBVIOUS
  <2> QED
    BY <1>1, <1>2, <2>1 DEF DefragType
<1>4. Sources' /\ Addressed'
  BY <1>1, AddressedFrame DEF Sources
<1>5. Spent'
  <2> SUFFICES ASSUME NEW n \in DOMAIN delivered', NEW d, d = delivered'[n].d, d # Junk
               PROVE  SpentNow(d)
    BY DEF Spent, SpentNow
  <2>1. CASE n \in DOMAIN delivered
    <3>1. d = delivered[n].d
      BY <1>2, <2>1
    <3>2. \A i \in Ids : ring_addr'[i][0] \in {0, ring_addr[i][0]}
      BY Constants DEF Kept
    <3>3. ASSUME PartsOf[d] = 1
          PROVE  \E a \in 1..head' : a <= Len(mem) /\ mem[a] = HdrOf(<<d, 1>>)
      <4>1. PICK a \in 1..head : a <= Len(mem) /\ mem[a] = HdrOf(<<d, 1>>)
        BY <1>1, <2>1, <3>1, <3>3 DEF Spent
      <4>2. a \in 1..head'
        BY <1>1, <4>1
      <4> QED
        BY <4>1, <4>2
    <3>4. ASSUME PartsOf[d] > 1
          PROVE  /\ <<d, 1>> \notin todo
                 /\ prod.at \in {"push", "record"} => prod.f # <<d, 1>>
                 /\ \A i \in Ids : ring_addr'[i][0] # 0 => mem[ring_addr'[i][0]].d # d
      <4>1. /\ <<d, 1>> \notin todo
            /\ prod.at \in {"push", "record"} => prod.f # <<d, 1>>
            /\ \A i \in Ids : ring_addr[i][0] # 0 => mem[ring_addr[i][0]].d # d
        BY <1>1, <2>1, <3>1, <3>4 DEF Spent
      <4>2. ASSUME NEW i \in Ids, ring_addr'[i][0] # 0 PROVE mem[ring_addr'[i][0]].d # d
        <5>1. ring_addr'[i][0] = ring_addr[i][0]
          BY <3>2, <4>2
        <5> QED
          BY <4>1, <4>2, <5>1
      <4> QED
        BY <4>1, <4>2
    <3> QED
      BY <3>3, <3>4 DEF SpentNow
  <2>2. CASE n = N + 1
    BY <1>2, <2>2
  <2> QED
    BY <1>2, <2>1, <2>2
<1>6. OwnPayload'
  <2> SUFFICES ASSUME ~refused, NEW n \in DOMAIN delivered', delivered'[n].d \in Datagrams,
                      PartsOf[delivered'[n].d] = 1
               PROVE  delivered'[n].parts = {PayOf(<<delivered'[n].d, 1>>)}
    BY DEF OwnPayload
  <2> QED
    BY <1>1, <1>2 DEF OwnPayload
<1>7. ForwardedOnce'
  BY <1>1, <1>2 DEF ForwardedOnce
<1> QED
  BY <1>3, <1>4, <1>5, <1>6, <1>7 DEF DefragInv

\* The header of a datagram that was not fragmented is in the ring once, and it
\* is the one held: this is the only time it is forwarded.
LEMMA TakeStep == ASSUME DefragInv, TakePayload PROVE DefragInv'
<1> DEFINE d == cons.hdr.d
           x == [d |-> d, parts |-> {mem[head + 1]}]
<1>1. /\ DefragType /\ RecordType /\ Paired /\ Held /\ Sources /\ Spent /\ cons.at = "take"
      /\ head \in Nat /\ avail \in Nat /\ Len(mem) \in Nat
      /\ \A a \in 1..Len(mem) : mem[a] \in Item
  BY TypeFacts DEF DefragInv, DefragType, TakePayload
<1>2. /\ head >= 1 /\ cons.hdr \in Item /\ cons.hdr = mem[head] /\ cons.hdr.kind = "hdr"
      /\ PartsOf[d] = 1
  BY <1>1 DEF Held
<1>3. head + 1 <= Len(mem)
  BY <1>1 DEF Paired, Half
<1>4. /\ head' = head + 1 /\ delivered' = Append(delivered, x)
      /\ cons' = [at |-> "pop", hdr |-> NoHdr] /\ Zeroed(HeldId)
      /\ UNCHANGED <<todo, mem, avail, refused, prod>>
  BY <1>1, <1>3 DEF TakePayload, Goto
<1>5. d \in Datagrams /\ HeldId \in Ids /\ cons.hdr.p = 1 /\ mem[head] = HdrOf(<<d, 1>>)
  <2>1. d \in Datagrams /\ HeldId \in Ids /\ cons.hdr = HdrOf(<<d, cons.hdr.p>>)
    BY <1>2, ItemFacts, Constants DEF HeldId
  <2>2. <<d, cons.hdr.p>> \in Fragments
    BY <1>1, <1>2, <1>3 DEF Sources
  <2>3. cons.hdr.p \in Nat /\ cons.hdr.p >= 1 /\ cons.hdr.p <= 1
    BY <1>2, <2>2, FragmentFacts, Constants
  <2> QED
    BY <1>2, <2>1, <2>3
<1>6. RecordType' /\ Kept
  BY <1>1, <1>4, <1>5, ZeroedFacts
<1>7. Paired' /\ Held'
  BY <1>1, <1>4, PairDone
<1>8. x \in Delivery /\ x.d = d /\ x.parts = {mem[head + 1]}
  <2>1. mem[head + 1] \in Item
    BY <1>1, <1>3
  <2> QED
    BY <1>5, <2>1 DEF Delivery
<1>9. SpentNow(d)
  <2>1. head \in 1..head' /\ head <= Len(mem) /\ ~(PartsOf[d] > 1)
    BY <1>1, <1>2, <1>3, <1>4
  <2> QED
    BY <1>5, <2>1 DEF SpentNow
<1>10. \A n \in DOMAIN delivered : delivered[n].d # d
  <2> SUFFICES ASSUME NEW n \in DOMAIN delivered, delivered[n].d = d PROVE FALSE
    OBVIOUS
  <2>1. PICK a \in 1..head : a <= Len(mem) /\ mem[a] = HdrOf(<<d, 1>>) /\ a # head
    BY <1>1, <1>2, <1>5, Constants DEF Spent
  <2>2. a \in 1..Len(mem) /\ head \in 1..Len(mem) /\ mem[head].kind = "hdr" /\ mem[head] = mem[a]
    BY <1>1, <1>2, <1>3, <1>5, <2>1
  <2> QED
    BY <1>1, <2>1, <2>2 DEF Sources
<1>11. ~refused => x.parts = {PayOf(<<d, 1>>)}
  BY <1>1, <1>5, <1>8 DEF Paired
<1>12. cons' \in [at : {"pop", "own"}, hdr : Item \cup {NoHdr}]
  BY <1>4
<1> QED
  BY <1>1, <1>4, <1>6, <1>7, <1>8, <1>9, <1>10, <1>11, <1>12, Forwarded

\* A fragmented datagram is forwarded through the address of its first header,
\* and that address is nowhere else and cannot be recorded again.
LEMMA CopyStep == ASSUME DefragInv, CopyParts PROVE DefragInv'
<1> DEFINE i == HeldId
           first == ring_addr[i][0]
           x == [d |-> IF Intact(first) THEN mem[first].d ELSE Junk,
                 parts |-> {mem[a + 1] : a \in {b \in Addrs(i) : Intact(b)}}]
<1>1. /\ DefragType /\ RecordType /\ Paired /\ Held /\ Sources /\ Addressed /\ Spent
      /\ cons.at = "copy" /\ head \in Nat /\ avail \in Nat /\ Len(mem) \in Nat
      /\ \A a \in 1..Len(mem) : mem[a] \in Item
  BY TypeFacts DEF DefragInv, DefragType, CopyParts
<1>2. cons.hdr \in Item /\ i \in Ids
  BY <1>1, ItemFacts, Constants DEF Held, HeldId
<1>3. /\ Zeroed(i) /\ UNCHANGED <<todo, mem, head, avail, refused, prod>>
      /\ \/ delivered' = Append(delivered, x) /\ cons' = [at |-> "own", hdr |-> cons.hdr]
         \/ delivered' = delivered /\ cons' = [at |-> "ignore", hdr |-> cons.hdr]
  BY DEF CopyParts, Goto, ringv
<1>4. RecordType' /\ Kept /\ ring_addr'[i][0] = 0
  BY <1>1, <1>2, <1>3, ZeroedFacts, Constants
<1>5. cons'.hdr = cons.hdr /\ cons'.at \in {"own", "ignore"}
  BY <1>3
<1>6. Half = 1 /\ Half' = 1
  BY <1>1, <1>5 DEF Half
<1>7. Paired' /\ Held'
  BY <1>1, <1>2, <1>3, <1>5, <1>6 DEF Paired, Held
<1>8. CASE delivered' = delivered /\ cons' = [at |-> "ignore", hdr |-> cons.hdr]
  BY <1>1, <1>2, <1>3, <1>4, <1>7, <1>8, Moved
<1>9. CASE delivered' = Append(delivered, x) /\ cons' = [at |-> "own", hdr |-> cons.hdr]
  <2>1. \A s \in Slots : ring_addr[i][s] \in Nat /\ (ring_addr[i][s] # 0 => ring_addr[i][s] < Len(mem))
    BY <1>1, <1>2, TypeFacts DEF Addressed
  <2>2. x.parts \subseteq Item
    <3> SUFFICES ASSUME NEW a \in Addrs(i), Intact(a) PROVE mem[a + 1] \in Item
      OBVIOUS
    <3>1. a \in 1..Len(mem) /\ (a = 0 \/ \E s \in Slots : a = ring_addr[i][s])
      BY DEF Addrs, Intact
    <3>2. a + 1 \in 1..Len(mem)
      BY <1>1, <2>1, <3>1
    <3> QED
      BY <1>1, <3>2
  <2>3. ASSUME x.d # Junk
        PROVE  /\ first \in 1..Len(mem) /\ x.d = mem[first].d /\ x.d \in Datagrams
               /\ PartsOf[x.d] > 1 /\ IdOf[x.d] = i
               /\ mem[first].kind = "hdr" /\ mem[first] = HdrOf(<<x.d, 1>>)
               /\ prod.at = "record" => mem[first] # HdrOf(prod.f)
    <3>1. Intact(first)
      BY <2>3
    <3>2. first \in 1..Len(mem) /\ first # 0 /\ x.d = mem[first].d
      BY <1>1, <3>1 DEF Intact
    <3>3. /\ mem[first].kind = "hdr" /\ mem[first].p = 1 /\ PartsOf[mem[first].d] > 1
          /\ IdOf[mem[first].d] = i /\ (prod.at = "record" => mem[first] # HdrOf(prod.f))
      BY <1>1, <1>2, <3>2 DEF Addressed
    <3>4. mem[first] \in Item
      BY <1>1, <3>2
    <3> QED
      BY <3>2, <3>3, <3>4, ItemFacts
  <2>4. x \in Delivery
    BY <2>2, <2>3 DEF Delivery
  <2>5. ASSUME x.d # Junk PROVE SpentNow(x.d)
    <3>1. <<x.d, 1>> \notin todo
      <4>1. /\ mem[first].kind = "hdr" => <<mem[first].d, mem[first].p>> \notin todo
        BY <1>1, <2>3, <2>5 DEF Sources
      <4>2. mem[first].d = x.d /\ mem[first].p = 1
        BY <2>3, <2>5 DEF HdrOf
      <4> QED
        BY <2>3, <2>5, <4>1, <4>2
    <3>2. prod.at \in {"push", "record"} => prod.f # <<x.d, 1>>
      BY <1>1, <2>3, <2>5 DEF Sources
    <3>3. ASSUME NEW j \in Ids, ring_addr'[j][0] # 0 PROVE mem[ring_addr'[j][0]].d # x.d
      <4>1. j # i /\ ring_addr'[j][0] = ring_addr[j][0]
        BY <1>4, <3>3, Constants DEF Kept
      <4>2. IdOf[mem[ring_addr[j][0]].d] = j
        BY <1>1, <3>3, <4>1 DEF Addressed
      <4> QED
        BY <2>3, <2>5, <4>1, <4>2
    <3>4. ~(PartsOf[x.d] = 1)
      BY <2>3, <2>5
    <3> QED
      BY <3>1, <3>2, <3>3, <3>4 DEF SpentNow
  <2>6. ASSUME x.d # Junk, NEW n \in DOMAIN delivered PROVE delivered[n].d # x.d
    <3>1. first # 0
      BY <1>1, <2>3, <2>6
    <3> QED
      BY <1>1, <1>2, <2>3, <2>6, <3>1 DEF Spent
  <2>7. ~(x.d \in Datagrams /\ PartsOf[x.d] = 1)
    BY <2>3, Constants
  <2>8. cons' \in [at : {"pop", "own"}, hdr : Item \cup {NoHdr}]
    BY <1>2, <1>9
  <2>9. head' \in Nat /\ head' >= head
    BY <1>1, <1>3
  <2> HIDE DEF x
  <2> QED
    BY <1>3, <1>4, <1>7, <1>9, <2>4, <2>5, <2>6, <2>7, <2>8, <2>9, Forwarded
<1> QED
  BY <1>3, <1>8, <1>9

-----------------------------------------------------------------------------
LEMMA DefragNext == ASSUME DefragInv, [Next]_vars PROVE DefragInv'
<1>1. CASE Producer
  <2>1. ASSUME NEW f \in todo, BadStructure(f) \/ ReceiveWhole(f) \/ ReceiveMisplaced(f)
        PROVE  DefragInv'
    BY <2>1, ReceiveStep
  <2>2. ASSUME NEW f \in todo, NEW expired \in BOOLEAN, ReceiveFirst(f, expired) \/ ReceiveOther(f, expired)
        PROVE  DefragInv'
    BY <2>2, ReceiveStep
  <2> QED
    BY <1>1, <2>1, <2>2, PushStep, PushRefusedStep, RecordWholeStep, RecordFirstStep,
       RecordOtherStep, AdvanceStep DEF Producer
<1>2. CASE Consumer
  BY <1>2, PopStep, WaitCompleteStep, WaitOverStep, TakeStep, CopyStep, DropStep DEF Consumer
<1>3. CASE UNCHANGED vars
  <2>1. Paired' /\ Held' /\ OwnPayload' /\ ForwardedOnce'
    BY <1>3, RingFrame, DeliveredFrame DEF vars, ringv
  <2>2. DefragType' /\ Sources' /\ Addressed' /\ Spent'
    BY <1>3 DEF vars, ringv, recs, DefragInv, DefragType, RecordType, Sources, Addressed, Spent
  <2> QED
    BY <2>1, <2>2 DEF DefragInv
<1> QED
  BY <1>1, <1>2, <1>3 DEF Next

\* What the two threads keep true together, whatever frames arrive, whatever
\* ids they share and wherever the two are in their calls.
THEOREM DefragInvariant == Spec => []DefragInv
<1>1. DefragInv /\ [Next]_vars => DefragInv'
  BY DefragNext
<1> QED
  BY DefragInit, <1>1, PTL DEF Spec

\* poped_defraged_packet takes exactly two items from the ring on each of its
\* ways out, so the next one it finds is a header with its own payload, for
\* any size of the ring, as long as no payload was refused.
THEOREM AlwaysAligned == Spec => []Aligned
<1>1. ASSUME DefragInv PROVE Aligned
  <2> SUFFICES ASSUME ~refused, cons.at = "pop"
               PROVE  /\ Len(mem) = head + 2 * avail
                      /\ \A k \in 1..avail :
                            /\ mem[head + 2*k - 1].kind = "hdr"
                            /\ mem[head + 2*k] = [mem[head + 2*k - 1] EXCEPT !.kind = "pay"]
    BY DEF Aligned
  <2>1. DefragType /\ Paired /\ head \in Nat /\ avail \in Nat /\ Half = 0
    BY <1>1, TypeFacts DEF DefragInv, Half
  <2>2. Len(mem) = head + 2 * avail
    BY <2>1 DEF Paired
  <2>3. ASSUME NEW k \in 1..avail
        PROVE  /\ mem[head + 2*k - 1].kind = "hdr"
               /\ mem[head + 2*k] = [mem[head + 2*k - 1] EXCEPT !.kind = "pay"]
    <3> DEFINE h == mem[head + 2*k - 1]
    <3>1. IsPair(mem[head + 0 + 2*k - 1], mem[head + 0 + 2*k])
      BY <2>1 DEF Paired
    <3>2. head + 0 + 2*k - 1 = head + 2*k - 1 /\ head + 0 + 2*k = head + 2*k
      BY <2>1
    <3>3. h.kind = "hdr" /\ mem[head + 2*k] = PayOf(<<h.d, h.p>>)
      BY <3>1, <3>2 DEF IsPair
    <3>4. h \in Item
      <4>1. head + 2*k - 1 \in 1..Len(mem)
        BY <2>1, <2>2
      <4> QED
        BY <2>1, <4>1, TypeFacts
    <3> QED
      BY <3>3, <3>4, ItemFacts
  <2> QED
    BY <2>2, <2>3
<1> QED
  BY <1>1, DefragInvariant, PTL

\* A datagram that was not fragmented leaves with its own payload, whatever the
\* records hold, however many datagrams share its IP id.
THEOREM AlwaysOwnPayload == Spec => []OwnPayload
<1>1. DefragInv => OwnPayload
  BY DEF DefragInv
<1> QED
  BY <1>1, DefragInvariant, PTL

\* No datagram is forwarded twice when the network delivers each frame once:
\* neither a cleared record nor a header left behind can revive it.
THEOREM NeverTwice == Spec => []ForwardedOnce
<1>1. DefragInv => ForwardedOnce
  BY DEF DefragInv
<1> QED
  BY <1>1, DefragInvariant, PTL

\* The head never overtakes the ring, and the records hold addresses in it only.
THEOREM TypeCorrect == Spec => []TypeOK
<1>1. ASSUME DefragInv PROVE TypeOK
  <2>1. /\ DefragType /\ RecordType /\ Paired /\ Addressed
        /\ head \in Nat /\ avail \in Nat /\ Len(mem) \in Nat
    BY <1>1, TypeFacts DEF DefragInv, DefragType
  <2>2. head \in 0..Len(mem) /\ avail \in 0..Len(mem)
    BY <2>1 DEF Paired, Half
  <2>3. \A i \in Ids : ring_addr[i] \in [Slots -> 0..Len(mem)]
    <3> SUFFICES ASSUME NEW i \in Ids PROVE ring_addr[i] \in [Slots -> 0..Len(mem)]
      OBVIOUS
    <3>1. ring_addr[i] \in [Slots -> Nat]
      BY <2>1 DEF RecordType
    <3>2. \A s \in Slots : ring_addr[i][s] \in 0..Len(mem)
      BY <2>1, <3>1 DEF Addressed
    <3> QED
      BY <3>1, <3>2
  <2>4. ring_addr \in [Ids -> [Slots -> 0..Len(mem)]]
    BY <2>1, <2>3 DEF RecordType
  <2>5. \A i \in DOMAIN delivered : delivered[i].d \in Datagrams \cup {Junk}
    BY <2>1, TypeFacts
  <2>6. /\ cons.at \in {"pop", "wait", "take", "copy", "own", "ignore"}
        /\ cons.hdr \in Item \cup {NoHdr}
    BY <2>1 DEF DefragType
  <2>7. /\ todo \subseteq Fragments /\ mem \in Seq(Item) /\ refused \in BOOLEAN
        /\ prod \in [at : {"push", "record", "advance"}, f : Fragments] \cup {Idle}
    BY <2>1 DEF DefragType
  <2>8. /\ dirty \in [Ids -> BOOLEAN] /\ data_length \in [Ids -> 0..MaxFragments]
        /\ data_progress \in [Ids -> Nat] /\ last_pos \in [Ids -> Nat]
    BY <2>1 DEF RecordType
  <2> QED
    BY <2>2, <2>4, <2>5, <2>6, <2>7, <2>8 DEF TypeOK
<1> QED
  BY <1>1, DefragInvariant, PTL
=============================================================================

-------------------------- MODULE PacketMngrProofs --------------------------
(***************************************************************************)
(* Proofs about PacketMngr, for any number of packets, any segment size,   *)
(* stride and skip, with and without "post enter" outputs; then that       *)
(* PacketMngr implements PacketFate when no output asks for "post enter":  *)
(* every step of the threads is, for the packets' fates, an arrival, one   *)
(* delivery, a drop of held packets, or nothing.                           *)
(***************************************************************************)
EXTENDS PacketMngr, FiniteSetTheorems, TLAPS

Live == {s \in filled \cup {active, pseg} : s # 0}

\* Nothing is known of a packet before it arrives.
Unseen ==
    \A p \in Packets : p > arrived =>
        /\ ram[p] = "none" /\ pub[p] = "none" /\ priv[p] = "none"
        /\ wire[p] = 0 /\ seg[p] = 0 /\ p \notin excused

\* A segment is being filled, or waits, or is with the sender, never two of
\* these; every copy in memory is in such a segment, and a new segment gets a
\* name no packet carries yet.
Segments ==
    /\ active <= arrived /\ pseg <= arrived /\ \A s \in filled : s <= arrived
    /\ active \notin filled /\ pseg \notin filled
    /\ active # 0 => active # pseg
    /\ \A p \in Packets :
          /\ seg[p] <= arrived
          /\ ram[p] = "none" => seg[p] = 0
          /\ ram[p] = "freed" => seg[p] \notin Live
          /\ ram[p] \notin {"none", "freed"} => seg[p] \in Live

\* Where the sender is in its segment.
Pass ==
    /\ spc = "loop" <=> pseg = 0
    /\ spc = "loop" => pending = {}
    /\ \A p \in pending : seg[p] = pseg
    /\ spc = "send" /\ ~fault =>
          \A p \in Packets \ pending :
              seg[p] = pseg /\ ram[p] = "ps_on_L2_RAM" => p \in excused
    /\ spc = "store" =>
          \A p \in Packets \ pending : seg[p] = pseg => ram[p] # "ps_on_L2_RAM"

\* Who owns the packet. A copy to be sent is the only one.
Copies ==
    \A p \in Packets :
        /\ ram[p] \in {"none", "ps_on_L2_RAM", "ps_replicated_one_on_pub_file",
                       "ps_sent"} => ~OnDisk(p)
        /\ pub[p] = "none" \/ priv[p] = "none"
        /\ ram[p] = "ps_sent" => wire[p] > 0
        /\ pub[p] = "ps_sent" => wire[p] > 0
        /\ priv[p] = "ps_sent" => wire[p] > 0
        /\ ram[p] = "ps_replicated_one_on_pub_file" => wire[p] > 0 \/ p \in excused

\* A plain output gets the packet once: a copy that may be sent has not been.
Unsent ==
    \A p \in Packets \ PostEnter :
        /\ wire[p] <= 1
        /\ ram[p] \in {"none", "ps_on_L2_RAM", "ps_replicated_one_on_pub_file"}
             => wire[p] = 0
        /\ OnDisk(p) => wire[p] = 0

\* What NoSilentLoss says of a packet that has left memory for the disk.
Accounted ==
    \A p \in Packets :
        /\ ram[p] \in {"ps_original_remain_packet_on_ram", "freed"}
             => wire[p] > 0 \/ OnDisk(p) \/ p \in excused
        /\ p <= arrived /\ ram[p] = "none" => p \in excused

IInv == TypeOK /\ Unseen /\ Segments /\ Pass /\ Copies /\ Unsent /\ Accounted

-----------------------------------------------------------------------------
(* What the operators of the model give.                                   *)

\* send_segment_itm writes a copy at most once, and then its state is ps_sent;
\* only "post enter" can report a failure after the payload went out.
LEMMA SendFacts ==
    ASSUME NEW p, NEW st, NEW o \in send_segment_itm(p, st)
    PROVE  /\ o.sent \in {0, 1}
           /\ o.sent = 1 => /\ o.state = "ps_sent"
                            /\ st \notin {"ps_sent", "ps_original_remain_packet_on_ram"}
                            /\ p \notin PostEnter => o.ret = "errOK"
           /\ o.sent = 0 => o.state = st
           /\ o.ret = "errOK" /\ o.sent = 0
                => st \in {"ps_sent", "ps_original_remain_packet_on_ram"}
  BY DEF send_segment_itm, AlreadyDone, CoolDown, Limited, FastMethod,
         NoRoute, SlowMethod, Outcome

\* The items skipped are items that were still to be visited.
LEMMA SkipFacts == ASSUME NEW items, NEW k PROVE Next_k(items, k) \subseteq items
  BY DEF Next_k

\* The payload of p went out: it has been sent, once if it had not been before.
Sent(p) ==
    /\ wire' \in [Packets -> 0..2]
    /\ wire'[p] > 0
    /\ wire[p] = 0 => wire'[p] = 1
    /\ \A q \in Packets : q # p => wire'[q] = wire[q]

\* What Written does when something or nothing was written.
LEMMA WrittenFacts ==
    ASSUME TypeOK, NEW p \in Packets
    PROVE  /\ Written(p, 1) => Sent(p)
           /\ Written(p, 0) => wire' = wire
<1>1. wire \in [Packets -> 0..2]
  BY DEF TypeOK
<1>2. Written(p, 1) => Sent(p)
  BY <1>1 DEF Sent, Written
<1>3. Written(p, 0) => wire' = wire
  BY <1>1 DEF Written
<1> QED
  BY <1>2, <1>3

\* A visit of the sender: the item is as it was, and then it was already taken
\* care of or the pass is at fault; or it went out and is ps_sent.
SendEffect(p, skip) ==
    /\ spc = "send"
    /\ pending' = (pending \ {p}) \ skip
    /\ excused' = excused \cup {q \in skip : ram[q] = "ps_on_L2_RAM"}
    /\ fault => fault'
    /\ \/ /\ ram' = ram /\ wire' = wire
          /\ \/ fault'
             \/ ram[p] \in {"ps_sent", "ps_original_remain_packet_on_ram"}
       \/ /\ ram' = [ram EXCEPT ![p] = "ps_sent"] /\ Sent(p)
          /\ ram[p] \notin {"ps_sent", "ps_original_remain_packet_on_ram"}
    /\ UNCHANGED <<arrived, segments, spc, pseg, stride, files, phase>>

\* SenderSend has that effect on the last item not visited.
LEMMA SenderSendFacts ==
    ASSUME TypeOK, SenderSend
    PROVE  \E p \in pending : \E skip \in SUBSET (pending \ {p}) : SendEffect(p, skip)
<1>1. PICK p \in pending, n \in 0..MaxSkip : \E o \in send_segment_itm(p, ram[p]) :
        LET rest == pending \ {p}
            skip == Next_k(rest, stride - 1 + IF o.ret = "errOK" THEN n ELSE 0)
        IN  /\ ram' = [ram EXCEPT ![p] = o.state]
            /\ Written(p, o.sent)
            /\ fault' = (fault \/ IsFault(o.ret))
            /\ pending' = rest \ skip
            /\ excused' = excused \cup {q \in skip : ram[q] = "ps_on_L2_RAM"}
  BY Zenon DEF SenderSend
<1>2. PICK o \in send_segment_itm(p, ram[p]) :
        LET rest == pending \ {p}
            skip == Next_k(rest, stride - 1 + IF o.ret = "errOK" THEN n ELSE 0)
        IN  /\ ram' = [ram EXCEPT ![p] = o.state]
            /\ Written(p, o.sent)
            /\ fault' = (fault \/ IsFault(o.ret))
            /\ pending' = rest \ skip
            /\ excused' = excused \cup {q \in skip : ram[q] = "ps_on_L2_RAM"}
  BY <1>1, Zenon
<1> DEFINE skip == Next_k(pending \ {p}, stride - 1 + IF o.ret = "errOK" THEN n ELSE 0)
<1>3. skip \in SUBSET (pending \ {p})
  BY SkipFacts, Zenon
<1>4. fault => fault'
  BY <1>2, Zenon
<1>5. o.ret # "errOK" => fault'
  BY <1>2, Zenon DEF IsFault
<1>6. p \in Packets
  BY DEF TypeOK
<1>7. \/ /\ ram' = ram /\ wire' = wire
         /\ fault' \/ ram[p] \in {"ps_sent", "ps_original_remain_packet_on_ram"}
      \/ /\ ram' = [ram EXCEPT ![p] = "ps_sent"] /\ Sent(p)
         /\ ram[p] \notin {"ps_sent", "ps_original_remain_packet_on_ram"}
  <2> HIDE DEF skip
  <2>1. o.sent = 0 \/ o.sent = 1
    BY SendFacts
  <2>2. CASE o.sent = 0
    <3>1. ram' = ram /\ wire' = wire
      BY <1>2, <1>6, <2>2, SendFacts, WrittenFacts DEF TypeOK
    <3>2. fault' \/ ram[p] \in {"ps_sent", "ps_original_remain_packet_on_ram"}
      BY <1>5, <2>2, SendFacts, Zenon
    <3> QED
      BY <3>1, <3>2, Zenon
  <2>3. CASE o.sent = 1
    BY <1>2, <1>6, <2>3, SendFacts, WrittenFacts
  <2> QED
    BY <2>1, <2>2, <2>3
<1>8. pending' = (pending \ {p}) \ skip
      /\ excused' = excused \cup {q \in skip : ram[q] = "ps_on_L2_RAM"}
  BY <1>2, Zenon
<1>9. UNCHANGED <<arrived, segments, spc, pseg, stride, files, phase>>
  BY Zenon DEF SenderSend
<1>10. SendEffect(p, skip)
  <2> HIDE DEF skip
  <2> QED
    BY <1>4, <1>7, <1>8, <1>9, Zenon DEF SendEffect, SenderSend
<1> QED
  BY <1>3, <1>10, Zenon

\* A packet of the stack: kept; gone, because it was sent before; sent; sent
\* and kept after a failed "post enter"; or moved to its queue.
PubEffect(p) ==
    /\ pub[p] # "none"
    /\ \/ pub' = pub /\ priv' = priv /\ wire' = wire
       \/ /\ pub[p] = "ps_sent" /\ wire' = wire
          /\ pub' = [pub EXCEPT ![p] = "none"] /\ priv' = priv
       \/ /\ Sent(p)
          /\ pub' = [pub EXCEPT ![p] = "none"] /\ priv' = priv
       \/ /\ Sent(p) /\ p \in PostEnter
          /\ pub' = [pub EXCEPT ![p] = "ps_sent"] /\ priv' = priv
       \/ /\ wire' = wire \/ (Sent(p) /\ p \in PostEnter)
          /\ pub' = [pub EXCEPT ![p] = "none"]
          /\ priv' = [priv EXCEPT ![p] = "ps_replicated_one_on_priv_file"]
    /\ UNCHANGED <<arrived, ram, segments, sender, excused, phase>>

\* DischargePub has that effect on some packet.
LEMMA DischargePubFacts ==
    ASSUME TypeOK, DischargePub
    PROVE  \E p \in Packets : PubEffect(p)
<1>1. PICK p \in Packets : pub[p] # "none" /\ \E o \in send_segment_itm(p, pub[p]) :
        /\ Written(p, o.sent)
        /\ \/ /\ o.ret = "errOK"
              /\ pub' = [pub EXCEPT ![p] = "none"] /\ priv' = priv
           \/ /\ o.ret = "errNoPeer"
              /\ pub' = [pub EXCEPT ![p] = "none"]
              /\ priv' = [priv EXCEPT ![p] = "ps_replicated_one_on_priv_file"]
           \/ /\ o.ret # "errOK"
              /\ pub' = [pub EXCEPT ![p] = o.state] /\ priv' = priv
  BY DEF DischargePub, pgstk_remapped
<1>2. PICK o \in send_segment_itm(p, pub[p]) :
        /\ Written(p, o.sent)
        /\ \/ /\ o.ret = "errOK"
              /\ pub' = [pub EXCEPT ![p] = "none"] /\ priv' = priv
           \/ /\ o.ret = "errNoPeer"
              /\ pub' = [pub EXCEPT ![p] = "none"]
              /\ priv' = [priv EXCEPT ![p] = "ps_replicated_one_on_priv_file"]
           \/ /\ o.ret # "errOK"
              /\ pub' = [pub EXCEPT ![p] = o.state] /\ priv' = priv
  BY <1>1
<1>0. UNCHANGED <<arrived, ram, segments, sender, excused, phase>>
  BY Zenon DEF DischargePub
<1>3. o.sent = 0 \/ o.sent = 1
  BY SendFacts
<1>4. CASE o.sent = 0
  <2>1. wire' = wire
    BY <1>2, <1>4, WrittenFacts
  <2>2. o.ret = "errOK" => pub[p] = "ps_sent"
    BY <1>4, SendFacts DEF TypeOK, PubState
  <2>3. o.state = pub[p]
    BY <1>4, SendFacts
  <2>4. pub = [pub EXCEPT ![p] = pub[p]]
    BY DEF TypeOK
  <2> QED
    BY <1>0, <1>1, <1>2, <2>1, <2>2, <2>3, <2>4 DEF PubEffect
<1>5. CASE o.sent = 1
  <2>1. Sent(p)
    BY <1>2, <1>5, WrittenFacts
  <2>2. o.state = "ps_sent" /\ (o.ret # "errOK" => p \in PostEnter)
    BY <1>5, SendFacts
  <2> QED
    BY <1>0, <1>1, <1>2, <2>1, <2>2 DEF PubEffect
<1> QED
  BY <1>3, <1>4, <1>5

\* A packet of a queue: kept; gone, because it was sent before; sent; or sent
\* and kept, or queued again, after a failed "post enter".
PrivEffect(p) ==
    /\ priv[p] # "none"
    /\ \/ priv' = priv /\ wire' = wire
       \/ /\ priv[p] = "ps_sent" /\ wire' = wire
          /\ priv' = [priv EXCEPT ![p] = "none"]
       \/ /\ Sent(p)
          /\ priv' = [priv EXCEPT ![p] = "none"]
       \/ /\ Sent(p) /\ p \in PostEnter
          /\ \/ priv' = [priv EXCEPT ![p] = "ps_sent"]
             \/ priv' = [priv EXCEPT ![p] = "ps_replicated_one_on_priv_file"]
       \/ /\ wire' = wire
          /\ priv' = [priv EXCEPT ![p] = "ps_replicated_one_on_priv_file"]
    /\ UNCHANGED <<arrived, ram, segments, sender, pub, excused, phase>>

\* DischargePriv has that effect on some packet.
LEMMA DischargePrivFacts ==
    ASSUME TypeOK, DischargePriv
    PROVE  \E p \in Packets : PrivEffect(p)
<1>1. PICK p \in Packets : priv[p] # "none" /\ \E o \in send_segment_itm(p, priv[p]) :
        /\ Written(p, o.sent)
        /\ \/ o.ret = "errOK" /\ priv' = [priv EXCEPT ![p] = "none"]
           \/ /\ o.ret # "errOK"
              /\ \/ priv' = [priv EXCEPT ![p] = "ps_replicated_one_on_priv_file"]
                 \/ priv' = [priv EXCEPT ![p] = o.state]
  BY DEF DischargePriv
<1>2. PICK o \in send_segment_itm(p, priv[p]) :
        /\ Written(p, o.sent)
        /\ \/ o.ret = "errOK" /\ priv' = [priv EXCEPT ![p] = "none"]
           \/ /\ o.ret # "errOK"
              /\ \/ priv' = [priv EXCEPT ![p] = "ps_replicated_one_on_priv_file"]
                 \/ priv' = [priv EXCEPT ![p] = o.state]
  BY <1>1
<1>0. UNCHANGED <<arrived, ram, segments, sender, pub, excused, phase>>
  BY Zenon DEF DischargePriv
<1>3. o.sent = 0 \/ o.sent = 1
  BY SendFacts
<1>4. CASE o.sent = 0
  <2>1. wire' = wire
    BY <1>2, <1>4, WrittenFacts
  <2>2. o.ret = "errOK" => priv[p] = "ps_sent"
    BY <1>4, SendFacts DEF TypeOK, PrivState
  <2>3. o.state = priv[p]
    BY <1>4, SendFacts
  <2>4. priv = [priv EXCEPT ![p] = priv[p]]
    BY DEF TypeOK
  <2> QED
    BY <1>0, <1>1, <1>2, <2>1, <2>2, <2>3, <2>4 DEF PrivEffect
<1>5. CASE o.sent = 1
  <2>1. Sent(p)
    BY <1>2, <1>5, WrittenFacts
  <2>2. o.state = "ps_sent" /\ (o.ret # "errOK" => p \in PostEnter)
    BY <1>5, SendFacts
  <2> QED
    BY <1>0, <1>1, <1>2, <2>1, <2>2 DEF PrivEffect
<1> QED
  BY <1>3, <1>4, <1>5

\* An item the sender visits is in memory.
LEMMA VisitedItem ==
    ASSUME IInv, spc = "send", NEW p \in pending
    PROVE  /\ p \in Packets
           /\ ram[p] \in {"ps_on_L2_RAM", "ps_replicated_one_on_pub_file",
                          "ps_original_remain_packet_on_ram", "ps_sent"}
  BY DEF IInv, TypeOK, RamState, Segments, Pass, Live

\* TypeOK but for the two Booleans.
RangesOK ==
    /\ arrived \in 0..N
    /\ ram \in [Packets -> RamState]
    /\ seg \in [Packets -> 0..N]
    /\ active \in 0..N
    /\ filled \subseteq Packets
    /\ spc \in {"loop", "send", "store"}
    /\ pseg \in 0..N
    /\ pending \subseteq Packets
    /\ stride \in 1..MaxStride
    /\ pub \in [Packets -> PubState]
    /\ priv \in [Packets -> PrivState]
    /\ wire \in [Packets -> 0..2]
    /\ excused \subseteq Packets
    /\ phase \in Phase

\* Every step keeps the variables in their ranges.
LEMMA RangesStep == IInv /\ [Next]_vars => RangesOK'
<1> SUFFICES ASSUME IInv, [Next]_vars PROVE RangesOK'
  OBVIOUS
<1> USE PacketAssumption
    DEF IInv, TypeOK, RangesOK, RamState, PubState, PrivState, Phase, Items, Packets, segments, sender, files
<1>1. CASE RejectPacket
  BY <1>1 DEF RejectPacket
<1>2. CASE fast_ring_2_huge_ring
  <2> DEFINE p == arrived + 1
  <2>1. p \in Packets /\ ram' = [ram EXCEPT ![p] = "ps_on_L2_RAM"] /\ arrived' = p
    BY <1>2 DEF fast_ring_2_huge_ring
  <2>2. CASE active # 0 /\ seg' = [seg EXCEPT ![p] = active]
               /\ UNCHANGED <<active, filled>>
    BY <1>2, <2>1, <2>2 DEF fast_ring_2_huge_ring
  <2>3. CASE seg' = [seg EXCEPT ![p] = p] /\ active' = p
               /\ filled' = IF active = 0 THEN filled ELSE filled \cup {active}
    <3>1. CASE active = 0
      BY <1>2, <2>1, <2>3, <3>1 DEF fast_ring_2_huge_ring
    <3>2. CASE active # 0
      BY <1>2, <2>1, <2>3, <3>2 DEF fast_ring_2_huge_ring
    <3> QED
      BY <3>1, <3>2
  <2> QED
    BY <1>2, <2>2, <2>3 DEF fast_ring_2_huge_ring, NewSegment
<1>3. CASE SegmentIdles
  BY <1>3 DEF SegmentIdles
<1>4. CASE ReleaseThread
  <2>1. CASE UNCHANGED <<active, filled>>
    BY <1>4, <2>1 DEF ReleaseThread
  <2>2. CASE active # 0 /\ active' = 0 /\ filled' = filled \cup {active}
    BY <1>4, <2>2 DEF ReleaseThread
  <2> QED
    BY <1>4, <2>1, <2>2 DEF ReleaseThread, try_release_halffill_segment
<1>5. CASE SenderPop
  BY <1>5 DEF SenderPop
<1>6. CASE SenderSend
  <2>1. PICK p \in pending : \E skip \in SUBSET (pending \ {p}) : SendEffect(p, skip)
    BY <1>6, SenderSendFacts
  <2>2. PICK skip \in SUBSET (pending \ {p}) : SendEffect(p, skip)
    BY <2>1
  <2>3. CASE ram' = ram /\ wire' = wire
    BY <2>2, <2>3 DEF SendEffect
  <2>4. CASE ram' = [ram EXCEPT ![p] = "ps_sent"] /\ Sent(p)
               /\ ram[p] \notin {"ps_sent", "ps_original_remain_packet_on_ram"}
    <3>1. ram[p] \in {"ps_on_L2_RAM", "ps_replicated_one_on_pub_file"}
      BY <2>2, <2>4, VisitedItem DEF SendEffect
    <3> QED
      BY <2>2, <2>4, <3>1 DEF SendEffect, Sent
  <2> QED
    BY <2>2, <2>3, <2>4 DEF SendEffect
<1>7. CASE SenderFault
  BY <1>7 DEF SenderFault
<1>8. CASE SenderStore
  <2>1. PICK p \in Packets : store_segment_item(p)
    BY <1>8 DEF SenderStore
  <2>2. UNCHANGED <<arrived, segments, spc, pseg, fault, stride, priv, wire, phase>>
    BY <1>8 DEF SenderStore
  <2>3. CASE UNCHANGED <<ram, pub, excused>>
    BY <1>8, <2>2, <2>3 DEF SenderStore
  <2>4. CASE /\ ram[p] = "ps_on_L2_RAM"
             /\ pub' = [pub EXCEPT ![p] = "ps_replicated_one_on_pub_file"]
             /\ ram' = [ram EXCEPT ![p] = "ps_original_remain_packet_on_ram"]
             /\ excused' = excused \ {p}
    BY <1>8, <2>2, <2>4 DEF SenderStore
  <2>5. CASE /\ ram[p] = "ps_on_L2_RAM"
             /\ ram' = [ram EXCEPT ![p] = "ps_replicated_one_on_pub_file"]
             /\ excused' = excused \cup {p} /\ pub' = pub
    BY <1>8, <2>2, <2>5 DEF SenderStore
  <2> QED
    BY <2>1, <2>3, <2>4, <2>5 DEF store_segment_item
<1>9. CASE SenderMarkEmpty
  BY <1>9 DEF SenderMarkEmpty, SenderDone
<1>10. CASE Evacuate
  BY <1>10 DEF Evacuate, store_segment_item
<1>11. CASE DischargePub
  <2>1. PICK p \in Packets : PubEffect(p)
    BY <1>11, DischargePubFacts
  <2> QED
    BY <2>1 DEF PubEffect, Sent
<1>12. CASE DischargePriv
  <2>1. PICK p \in Packets : PrivEffect(p)
    BY <1>12, DischargePrivFacts
  <2> QED
    BY <2>1 DEF PrivEffect, Sent
<1>13. CASE SigInt
  BY <1>13 DEF SigInt
<1>14. CASE NoMoreUdp
  <2>1. CASE UNCHANGED <<active, filled>>
    BY <1>14, <2>1 DEF NoMoreUdp
  <2>2. CASE active # 0 /\ active' = 0 /\ filled' = filled \cup {active}
    BY <1>14, <2>2 DEF NoMoreUdp
  <2> QED
    BY <1>14, <2>1, <2>2 DEF NoMoreUdp, try_release_halffill_segment
<1>15. CASE UNCHANGED vars
  BY <1>15 DEF vars
<1> QED
  BY <1>1, <1>2, <1>3, <1>4, <1>5, <1>6, <1>7, <1>8, <1>9, <1>10, <1>11, <1>12, <1>13, <1>14, <1>15
     DEF Next, Sender

\* The two Booleans, and so all of TypeOK.
LEMMA TypeStep == IInv /\ [Next]_vars => TypeOK'
<1> SUFFICES ASSUME IInv, [Next]_vars PROVE TypeOK'
  OBVIOUS
<1>1. fresh \in BOOLEAN /\ fault \in BOOLEAN
  BY DEF IInv, TypeOK
<1>2. fresh' \in BOOLEAN /\ fault' \in BOOLEAN
  BY <1>1, Zenon
     DEF Next, Sender, vars, segments, sender, RejectPacket, fast_ring_2_huge_ring,
         SegmentIdles, ReleaseThread, SenderPop, SenderSend, SenderFault,
         SenderStore, SenderMarkEmpty, Evacuate, DischargePub, DischargePriv,
         SigInt, NoMoreUdp
<1>3. RangesOK'
  BY RangesStep
<1> QED
  BY <1>2, <1>3, Zenon DEF TypeOK, RangesOK

\* No step touches a packet before it arrives.
LEMMA UnseenStep == IInv /\ [Next]_vars => Unseen'
<1> SUFFICES ASSUME IInv, [Next]_vars PROVE Unseen'
  OBVIOUS
<1> USE PacketAssumption
    DEF IInv, TypeOK, Unseen, Segments, Pass, Items, Packets, segments, sender, files
<1>1. CASE RejectPacket
  BY <1>1 DEF RejectPacket
<1>2. CASE fast_ring_2_huge_ring
  <2> DEFINE p == arrived + 1
  <2>1. p \in Packets /\ ram' = [ram EXCEPT ![p] = "ps_on_L2_RAM"] /\ arrived' = p
    BY <1>2 DEF fast_ring_2_huge_ring
  <2>2. CASE active # 0 /\ seg' = [seg EXCEPT ![p] = active]
               /\ UNCHANGED <<active, filled>>
    BY <1>2, <2>1, <2>2 DEF fast_ring_2_huge_ring
  <2>3. CASE seg' = [seg EXCEPT ![p] = p] /\ active' = p
               /\ filled' = IF active = 0 THEN filled ELSE filled \cup {active}
    <3>1. CASE active = 0
      BY <1>2, <2>1, <2>3, <3>1 DEF fast_ring_2_huge_ring
    <3>2. CASE active # 0
      BY <1>2, <2>1, <2>3, <3>2 DEF fast_ring_2_huge_ring
    <3> QED
      BY <3>1, <3>2
  <2> QED
    BY <1>2, <2>2, <2>3 DEF fast_ring_2_huge_ring, NewSegment
<1>3. CASE SegmentIdles
  BY <1>3 DEF SegmentIdles
<1>4. CASE ReleaseThread
  <2>1. CASE UNCHANGED <<active, filled>>
    BY <1>4, <2>1 DEF ReleaseThread
  <2>2. CASE active # 0 /\ active' = 0 /\ filled' = filled \cup {active}
    BY <1>4, <2>2 DEF ReleaseThread
  <2> QED
    BY <1>4, <2>1, <2>2 DEF ReleaseThread, try_release_halffill_segment
<1>5. CASE SenderPop
  BY <1>5 DEF SenderPop
<1>6. CASE SenderSend
  <2>1. PICK p \in pending : \E skip \in SUBSET (pending \ {p}) : SendEffect(p, skip)
    BY <1>6, SenderSendFacts
  <2>2. PICK skip \in SUBSET (pending \ {p}) : SendEffect(p, skip)
    BY <2>1
  <2>3. CASE ram' = ram /\ wire' = wire
    BY <2>2, <2>3 DEF SendEffect
  <2>4. CASE ram' = [ram EXCEPT ![p] = "ps_sent"] /\ Sent(p)
               /\ ram[p] \notin {"ps_sent", "ps_original_remain_packet_on_ram"}
    <3>1. ram[p] \in {"ps_on_L2_RAM", "ps_replicated_one_on_pub_file"}
      BY <2>2, <2>4, VisitedItem DEF SendEffect
    <3> QED
      BY <2>2, <2>4, <3>1 DEF SendEffect, Sent
  <2> QED
    BY <2>2, <2>3, <2>4 DEF SendEffect
<1>7. CASE SenderFault
  BY <1>7 DEF SenderFault
<1>8. CASE SenderStore
  BY <1>8 DEF SenderStore, store_segment_item
<1>9. CASE SenderMarkEmpty
  BY <1>9 DEF SenderMarkEmpty, SenderDone
<1>10. CASE Evacuate
  BY <1>10 DEF Evacuate, store_segment_item
<1>11. CASE DischargePub
  <2>1. PICK p \in Packets : PubEffect(p)
    BY <1>11, DischargePubFacts
  <2> QED
    BY <2>1 DEF PubEffect, Sent
<1>12. CASE DischargePriv
  <2>1. PICK p \in Packets : PrivEffect(p)
    BY <1>12, DischargePrivFacts
  <2> QED
    BY <2>1 DEF PrivEffect, Sent
<1>13. CASE SigInt
  BY <1>13 DEF SigInt
<1>14. CASE NoMoreUdp
  <2>1. CASE UNCHANGED <<active, filled>>
    BY <1>14, <2>1 DEF NoMoreUdp
  <2>2. CASE active # 0 /\ active' = 0 /\ filled' = filled \cup {active}
    BY <1>14, <2>2 DEF NoMoreUdp
  <2> QED
    BY <1>14, <2>1, <2>2 DEF NoMoreUdp, try_release_halffill_segment
<1>15. CASE UNCHANGED vars
  BY <1>15 DEF vars
<1> QED
  BY <1>1, <1>2, <1>3, <1>4, <1>5, <1>6, <1>7, <1>8, <1>9, <1>10, <1>11, <1>12, <1>13, <1>14, <1>15
     DEF Next, Sender

\* Segments move from active to filled to the sender, one at a time.
LEMMA SegmentsStep == IInv /\ [Next]_vars => Segments'
<1> SUFFICES ASSUME IInv, [Next]_vars PROVE Segments'
  OBVIOUS
<1> USE PacketAssumption
    DEF IInv, TypeOK, Unseen, Segments, Pass, Live, Items, Packets, segments, sender, files
<1>1. CASE RejectPacket
  BY <1>1 DEF RejectPacket
<1>2. CASE fast_ring_2_huge_ring
  <2> DEFINE p == arrived + 1
  <2>1. p \in Packets /\ ram' = [ram EXCEPT ![p] = "ps_on_L2_RAM"] /\ arrived' = p
        /\ pseg' = pseg
    BY <1>2 DEF fast_ring_2_huge_ring
  <2>2. CASE active # 0 /\ seg' = [seg EXCEPT ![p] = active]
               /\ UNCHANGED <<active, filled>>
    <3>1. Live' = Live /\ active \in Live
      BY <2>1, <2>2
    <3>2. \A q \in Packets : q # p => seg'[q] = seg[q] /\ ram'[q] = ram[q]
      BY <2>1, <2>2
    <3>3. seg'[p] = active /\ ram'[p] = "ps_on_L2_RAM"
      BY <2>1, <2>2
    <3> HIDE DEF Live
    <3> QED
      BY <2>1, <2>2, <3>1, <3>2, <3>3
  <2>3. CASE seg' = [seg EXCEPT ![p] = p] /\ active' = p
               /\ filled' = IF active = 0 THEN filled ELSE filled \cup {active}
    <3>1. CASE active = 0
      BY <1>2, <2>1, <2>3, <3>1 DEF fast_ring_2_huge_ring
    <3>2. CASE active # 0
      BY <1>2, <2>1, <2>3, <3>2 DEF fast_ring_2_huge_ring
    <3> QED
      BY <3>1, <3>2
  <2> QED
    BY <1>2, <2>2, <2>3 DEF fast_ring_2_huge_ring, NewSegment
<1>3. CASE SegmentIdles
  BY <1>3 DEF SegmentIdles
<1>4. CASE ReleaseThread
  <2>1. CASE UNCHANGED <<active, filled>>
    BY <1>4, <2>1 DEF ReleaseThread
  <2>2. CASE active # 0 /\ active' = 0 /\ filled' = filled \cup {active}
    BY <1>4, <2>2 DEF ReleaseThread
  <2> QED
    BY <1>4, <2>1, <2>2 DEF ReleaseThread, try_release_halffill_segment
<1>5. CASE SenderPop
  BY <1>5 DEF SenderPop
<1>6. CASE SenderSend
  <2>1. PICK p \in pending : \E skip \in SUBSET (pending \ {p}) : SendEffect(p, skip)
    BY <1>6, SenderSendFacts
  <2>2. PICK skip \in SUBSET (pending \ {p}) : SendEffect(p, skip)
    BY <2>1
  <2>3. CASE ram' = ram /\ wire' = wire
    BY <2>2, <2>3 DEF SendEffect
  <2>4. CASE ram' = [ram EXCEPT ![p] = "ps_sent"] /\ Sent(p)
               /\ ram[p] \notin {"ps_sent", "ps_original_remain_packet_on_ram"}
    <3>1. ram[p] \in {"ps_on_L2_RAM", "ps_replicated_one_on_pub_file"}
      BY <2>2, <2>4, VisitedItem DEF SendEffect
    <3> QED
      BY <2>2, <2>4, <3>1 DEF SendEffect, Sent
  <2> QED
    BY <2>2, <2>3, <2>4 DEF SendEffect
<1>7. CASE SenderFault
  BY <1>7 DEF SenderFault
<1>8. CASE SenderStore
  BY <1>8 DEF SenderStore, store_segment_item
<1>9. CASE SenderMarkEmpty
  BY <1>9 DEF SenderMarkEmpty, SenderDone
<1>10. CASE Evacuate
  BY <1>10 DEF Evacuate, store_segment_item
<1>11. CASE DischargePub
  <2>1. PICK p \in Packets : PubEffect(p)
    BY <1>11, DischargePubFacts
  <2> QED
    BY <2>1 DEF PubEffect, Sent
<1>12. CASE DischargePriv
  <2>1. PICK p \in Packets : PrivEffect(p)
    BY <1>12, DischargePrivFacts
  <2> QED
    BY <2>1 DEF PrivEffect, Sent
<1>13. CASE SigInt
  BY <1>13 DEF SigInt
<1>14. CASE NoMoreUdp
  <2>1. CASE UNCHANGED <<active, filled>>
    BY <1>14, <2>1 DEF NoMoreUdp
  <2>2. CASE active # 0 /\ active' = 0 /\ filled' = filled \cup {active}
    BY <1>14, <2>2 DEF NoMoreUdp
  <2> QED
    BY <1>14, <2>1, <2>2 DEF NoMoreUdp, try_release_halffill_segment
<1>15. CASE UNCHANGED vars
  BY <1>15 DEF vars
<1> QED
  BY <1>1, <1>2, <1>3, <1>4, <1>5, <1>6, <1>7, <1>8, <1>9, <1>10, <1>11, <1>12, <1>13, <1>14, <1>15
     DEF Next, Sender

\* The sender accounts for every item it leaves behind.
LEMMA PassStep == IInv /\ [Next]_vars => Pass'
<1> SUFFICES ASSUME IInv, [Next]_vars PROVE Pass'
  OBVIOUS
<1> USE PacketAssumption
    DEF IInv, TypeOK, Unseen, Segments, Pass, Live, Items, Packets, segments, sender, files
<1>1. CASE RejectPacket
  BY <1>1 DEF RejectPacket
<1>2. CASE fast_ring_2_huge_ring
  <2> DEFINE p == arrived + 1
  <2>1. p \in Packets /\ ram' = [ram EXCEPT ![p] = "ps_on_L2_RAM"] /\ arrived' = p
    BY <1>2 DEF fast_ring_2_huge_ring
  <2>2. CASE active # 0 /\ seg' = [seg EXCEPT ![p] = active]
               /\ UNCHANGED <<active, filled>>
    BY <1>2, <2>1, <2>2 DEF fast_ring_2_huge_ring
  <2>3. CASE seg' = [seg EXCEPT ![p] = p] /\ active' = p
               /\ filled' = IF active = 0 THEN filled ELSE filled \cup {active}
    <3>1. CASE active = 0
      BY <1>2, <2>1, <2>3, <3>1 DEF fast_ring_2_huge_ring
    <3>2. CASE active # 0
      BY <1>2, <2>1, <2>3, <3>2 DEF fast_ring_2_huge_ring
    <3> QED
      BY <3>1, <3>2
  <2> QED
    BY <1>2, <2>2, <2>3 DEF fast_ring_2_huge_ring, NewSegment
<1>3. CASE SegmentIdles
  BY <1>3 DEF SegmentIdles
<1>4. CASE ReleaseThread
  <2>1. CASE UNCHANGED <<active, filled>>
    BY <1>4, <2>1 DEF ReleaseThread
  <2>2. CASE active # 0 /\ active' = 0 /\ filled' = filled \cup {active}
    BY <1>4, <2>2 DEF ReleaseThread
  <2> QED
    BY <1>4, <2>1, <2>2 DEF ReleaseThread, try_release_halffill_segment
<1>5. CASE SenderPop
  BY <1>5 DEF SenderPop
<1>6. CASE SenderSend
  <2>1. PICK p \in pending : \E skip \in SUBSET (pending \ {p}) : SendEffect(p, skip)
    BY <1>6, SenderSendFacts
  <2>2. PICK skip \in SUBSET (pending \ {p}) : SendEffect(p, skip)
    BY <2>1
  <2>3. /\ spc' = "send" /\ pseg' = pseg /\ seg' = seg /\ spc = "send"
        /\ pending' \subseteq pending
    BY <2>2 DEF SendEffect
  <2>4. ASSUME ~fault', NEW q \in Packets \ pending', seg[q] = pseg,
               ram'[q] = "ps_on_L2_RAM"
        PROVE  q \in excused'
    <3>1. ~fault
      BY <2>2, <2>4, Zenon DEF SendEffect
    <3>2. q # p
      BY <2>2, <2>4, VisitedItem DEF SendEffect
    <3>3. ram[q] = "ps_on_L2_RAM"
      BY <2>2, <2>4, <3>2 DEF SendEffect
    <3>4. CASE q \in skip
      BY <2>2, <3>3, <3>4 DEF SendEffect
    <3>5. CASE q \notin pending
      <4>1. q \in excused
        BY <2>3, <2>4, <3>1, <3>3, <3>5, Zenon
      <4> QED
        BY <2>2, <4>1 DEF SendEffect
    <3> QED
      BY <2>2, <2>4, <3>2, <3>4, <3>5 DEF SendEffect
  <2> QED
    BY <2>3, <2>4
<1>7. CASE SenderFault
  BY <1>7 DEF SenderFault
<1>8. CASE SenderStore
  BY <1>8 DEF SenderStore, store_segment_item
<1>9. CASE SenderMarkEmpty
  BY <1>9 DEF SenderMarkEmpty, SenderDone
<1>10. CASE Evacuate
  BY <1>10 DEF Evacuate, store_segment_item
<1>11. CASE DischargePub
  <2>1. PICK p \in Packets : PubEffect(p)
    BY <1>11, DischargePubFacts
  <2> QED
    BY <2>1 DEF PubEffect, Sent
<1>12. CASE DischargePriv
  <2>1. PICK p \in Packets : PrivEffect(p)
    BY <1>12, DischargePrivFacts
  <2> QED
    BY <2>1 DEF PrivEffect, Sent
<1>13. CASE SigInt
  BY <1>13 DEF SigInt
<1>14. CASE NoMoreUdp
  <2>1. CASE UNCHANGED <<active, filled>>
    BY <1>14, <2>1 DEF NoMoreUdp
  <2>2. CASE active # 0 /\ active' = 0 /\ filled' = filled \cup {active}
    BY <1>14, <2>2 DEF NoMoreUdp
  <2> QED
    BY <1>14, <2>1, <2>2 DEF NoMoreUdp, try_release_halffill_segment
<1>15. CASE UNCHANGED vars
  BY <1>15 DEF vars
<1> QED
  BY <1>1, <1>2, <1>3, <1>4, <1>5, <1>6, <1>7, <1>8, <1>9, <1>10, <1>11, <1>12, <1>13, <1>14, <1>15
     DEF Next, Sender

\* No step makes a second copy that may be sent.
LEMMA CopiesStep == IInv /\ [Next]_vars => Copies'
<1> SUFFICES ASSUME IInv, [Next]_vars PROVE Copies'
  OBVIOUS
<1> USE PacketAssumption
    DEF IInv, TypeOK, RamState, Unseen, Segments, Pass, Copies, OnDisk, Items, Packets, segments, sender, files
<1>1. CASE RejectPacket
  BY <1>1 DEF RejectPacket
<1>2. CASE fast_ring_2_huge_ring
  <2> DEFINE p == arrived + 1
  <2>1. p \in Packets /\ ram' = [ram EXCEPT ![p] = "ps_on_L2_RAM"] /\ arrived' = p
    BY <1>2 DEF fast_ring_2_huge_ring
  <2>2. CASE active # 0 /\ seg' = [seg EXCEPT ![p] = active]
               /\ UNCHANGED <<active, filled>>
    BY <1>2, <2>1, <2>2 DEF fast_ring_2_huge_ring
  <2>3. CASE seg' = [seg EXCEPT ![p] = p] /\ active' = p
               /\ filled' = IF active = 0 THEN filled ELSE filled \cup {active}
    <3>1. CASE active = 0
      BY <1>2, <2>1, <2>3, <3>1 DEF fast_ring_2_huge_ring
    <3>2. CASE active # 0
      BY <1>2, <2>1, <2>3, <3>2 DEF fast_ring_2_huge_ring
    <3> QED
      BY <3>1, <3>2
  <2> QED
    BY <1>2, <2>2, <2>3 DEF fast_ring_2_huge_ring, NewSegment
<1>3. CASE SegmentIdles
  BY <1>3 DEF SegmentIdles
<1>4. CASE ReleaseThread
  <2>1. CASE UNCHANGED <<active, filled>>
    BY <1>4, <2>1 DEF ReleaseThread
  <2>2. CASE active # 0 /\ active' = 0 /\ filled' = filled \cup {active}
    BY <1>4, <2>2 DEF ReleaseThread
  <2> QED
    BY <1>4, <2>1, <2>2 DEF ReleaseThread, try_release_halffill_segment
<1>5. CASE SenderPop
  BY <1>5 DEF SenderPop
<1>6. CASE SenderSend
  <2>1. PICK p \in pending : \E skip \in SUBSET (pending \ {p}) : SendEffect(p, skip)
    BY <1>6, SenderSendFacts
  <2>2. PICK skip \in SUBSET (pending \ {p}) : SendEffect(p, skip)
    BY <2>1
  <2>3. CASE ram' = ram /\ wire' = wire
    BY <2>2, <2>3 DEF SendEffect
  <2>4. CASE ram' = [ram EXCEPT ![p] = "ps_sent"] /\ Sent(p)
               /\ ram[p] \notin {"ps_sent", "ps_original_remain_packet_on_ram"}
    <3>1. ram[p] \in {"ps_on_L2_RAM", "ps_replicated_one_on_pub_file"}
      BY <2>2, <2>4, VisitedItem DEF SendEffect
    <3> QED
      BY <2>2, <2>4, <3>1 DEF SendEffect, Sent
  <2> QED
    BY <2>2, <2>3, <2>4 DEF SendEffect
<1>7. CASE SenderFault
  BY <1>7 DEF SenderFault
<1>8. CASE SenderStore
  <2>1. PICK p \in Packets : store_segment_item(p)
    BY <1>8 DEF SenderStore
  <2>2. UNCHANGED <<arrived, segments, spc, pseg, fault, stride, priv, wire, phase>>
    BY <1>8 DEF SenderStore
  <2>3. CASE UNCHANGED <<ram, pub, excused>>
    BY <1>8, <2>2, <2>3 DEF SenderStore
  <2>4. CASE /\ ram[p] = "ps_on_L2_RAM"
             /\ pub' = [pub EXCEPT ![p] = "ps_replicated_one_on_pub_file"]
             /\ ram' = [ram EXCEPT ![p] = "ps_original_remain_packet_on_ram"]
             /\ excused' = excused \ {p}
    BY <1>8, <2>2, <2>4 DEF SenderStore
  <2>5. CASE /\ ram[p] = "ps_on_L2_RAM"
             /\ ram' = [ram EXCEPT ![p] = "ps_replicated_one_on_pub_file"]
             /\ excused' = excused \cup {p} /\ pub' = pub
    BY <1>8, <2>2, <2>5 DEF SenderStore
  <2> QED
    BY <2>1, <2>3, <2>4, <2>5 DEF store_segment_item
<1>9. CASE SenderMarkEmpty
  BY <1>9 DEF SenderMarkEmpty, SenderDone
<1>10. CASE Evacuate
  <2>1. PICK p \in Packets : store_segment_item(p)
    BY <1>10 DEF Evacuate
  <2>2. UNCHANGED <<arrived, segments, sender, priv, wire, phase>>
    BY <1>10 DEF Evacuate
  <2>3. CASE UNCHANGED <<ram, pub, excused>>
    BY <1>10, <2>2, <2>3 DEF Evacuate
  <2>4. CASE /\ ram[p] = "ps_on_L2_RAM"
             /\ pub' = [pub EXCEPT ![p] = "ps_replicated_one_on_pub_file"]
             /\ ram' = [ram EXCEPT ![p] = "ps_original_remain_packet_on_ram"]
             /\ excused' = excused \ {p}
    BY <1>10, <2>2, <2>4 DEF Evacuate
  <2>5. CASE /\ ram[p] = "ps_on_L2_RAM"
             /\ ram' = [ram EXCEPT ![p] = "ps_replicated_one_on_pub_file"]
             /\ excused' = excused \cup {p} /\ pub' = pub
    BY <1>10, <2>2, <2>5 DEF Evacuate
  <2> QED
    BY <2>1, <2>3, <2>4, <2>5 DEF store_segment_item
<1>11. CASE DischargePub
  <2>1. PICK p \in Packets : PubEffect(p)
    BY <1>11, DischargePubFacts
  <2>2. pub[p] # "none" /\ UNCHANGED <<arrived, ram, segments, sender, excused, phase>>
    BY <2>1 DEF PubEffect
  <2>3. CASE pub' = pub /\ priv' = priv /\ wire' = wire
    BY <2>2, <2>3
  <2>4. CASE /\ pub[p] = "ps_sent" /\ wire' = wire
             /\ pub' = [pub EXCEPT ![p] = "none"] /\ priv' = priv
    BY <2>2, <2>4
  <2>5. CASE Sent(p) /\ pub' = [pub EXCEPT ![p] = "none"] /\ priv' = priv
    BY <2>2, <2>5 DEF Sent
  <2>6. CASE Sent(p) /\ p \in PostEnter /\ pub' = [pub EXCEPT ![p] = "ps_sent"] /\ priv' = priv
    BY <2>2, <2>6 DEF Sent
  <2>7. CASE /\ wire' = wire \/ (Sent(p) /\ p \in PostEnter)
             /\ pub' = [pub EXCEPT ![p] = "none"]
             /\ priv' = [priv EXCEPT ![p] = "ps_replicated_one_on_priv_file"]
    <3>1. CASE wire' = wire
      BY <2>2, <2>7, <3>1
    <3>2. CASE Sent(p)
      BY <2>2, <2>7, <3>2 DEF Sent
    <3> QED
      BY <2>7, <3>1, <3>2
  <2> QED
    BY <2>1, <2>3, <2>4, <2>5, <2>6, <2>7 DEF PubEffect
<1>12. CASE DischargePriv
  <2>1. PICK p \in Packets : PrivEffect(p)
    BY <1>12, DischargePrivFacts
  <2>2. priv[p] # "none" /\ UNCHANGED <<arrived, ram, segments, sender, pub, excused, phase>>
    BY <2>1 DEF PrivEffect
  <2>3. CASE priv' = priv /\ wire' = wire
    BY <2>2, <2>3
  <2>4. CASE priv[p] = "ps_sent" /\ wire' = wire /\ priv' = [priv EXCEPT ![p] = "none"]
    BY <2>2, <2>4
  <2>5. CASE Sent(p) /\ priv' = [priv EXCEPT ![p] = "none"]
    BY <2>2, <2>5 DEF Sent
  <2>6. CASE Sent(p) /\ priv' = [priv EXCEPT ![p] = "ps_sent"]
    BY <2>2, <2>6 DEF Sent
  <2>7. CASE Sent(p) /\ priv' = [priv EXCEPT ![p] = "ps_replicated_one_on_priv_file"]
    BY <2>2, <2>7 DEF Sent
  <2>8. CASE wire' = wire /\ priv' = [priv EXCEPT ![p] = "ps_replicated_one_on_priv_file"]
    BY <2>2, <2>8
  <2> QED
    BY <2>1, <2>3, <2>4, <2>5, <2>6, <2>7, <2>8 DEF PrivEffect
<1>13. CASE SigInt
  BY <1>13 DEF SigInt
<1>14. CASE NoMoreUdp
  <2>1. CASE UNCHANGED <<active, filled>>
    BY <1>14, <2>1 DEF NoMoreUdp
  <2>2. CASE active # 0 /\ active' = 0 /\ filled' = filled \cup {active}
    BY <1>14, <2>2 DEF NoMoreUdp
  <2> QED
    BY <1>14, <2>1, <2>2 DEF NoMoreUdp, try_release_halffill_segment
<1>15. CASE UNCHANGED vars
  BY <1>15 DEF vars
<1> QED
  BY <1>1, <1>2, <1>3, <1>4, <1>5, <1>6, <1>7, <1>8, <1>9, <1>10, <1>11, <1>12, <1>13, <1>14, <1>15
     DEF Next, Sender

\* A plain output gets a packet once.
LEMMA UnsentStep == IInv /\ [Next]_vars => Unsent'
<1> SUFFICES ASSUME IInv, [Next]_vars PROVE Unsent'
  OBVIOUS
<1> USE PacketAssumption
    DEF IInv, TypeOK, Unseen, Copies, Unsent, OnDisk, Items, Packets, segments, sender, files
<1>1. CASE RejectPacket
  BY <1>1 DEF RejectPacket
<1>2. CASE fast_ring_2_huge_ring
  <2> DEFINE p == arrived + 1
  <2>1. p \in Packets /\ ram' = [ram EXCEPT ![p] = "ps_on_L2_RAM"] /\ arrived' = p
    BY <1>2 DEF fast_ring_2_huge_ring
  <2>2. CASE active # 0 /\ seg' = [seg EXCEPT ![p] = active]
               /\ UNCHANGED <<active, filled>>
    BY <1>2, <2>1, <2>2 DEF fast_ring_2_huge_ring
  <2>3. CASE seg' = [seg EXCEPT ![p] = p] /\ active' = p
               /\ filled' = IF active = 0 THEN filled ELSE filled \cup {active}
    <3>1. CASE active = 0
      BY <1>2, <2>1, <2>3, <3>1 DEF fast_ring_2_huge_ring
    <3>2. CASE active # 0
      BY <1>2, <2>1, <2>3, <3>2 DEF fast_ring_2_huge_ring
    <3> QED
      BY <3>1, <3>2
  <2> QED
    BY <1>2, <2>2, <2>3 DEF fast_ring_2_huge_ring, NewSegment
<1>3. CASE SegmentIdles
  BY <1>3 DEF SegmentIdles
<1>4. CASE ReleaseThread
  <2>1. CASE UNCHANGED <<active, filled>>
    BY <1>4, <2>1 DEF ReleaseThread
  <2>2. CASE active # 0 /\ active' = 0 /\ filled' = filled \cup {active}
    BY <1>4, <2>2 DEF ReleaseThread
  <2> QED
    BY <1>4, <2>1, <2>2 DEF ReleaseThread, try_release_halffill_segment
<1>5. CASE SenderPop
  BY <1>5 DEF SenderPop
<1>6. CASE SenderSend
  <2>1. PICK p \in pending : \E skip \in SUBSET (pending \ {p}) : SendEffect(p, skip)
    BY <1>6, SenderSendFacts
  <2>2. PICK skip \in SUBSET (pending \ {p}) : SendEffect(p, skip)
    BY <2>1
  <2>3. CASE ram' = ram /\ wire' = wire
    BY <2>2, <2>3 DEF SendEffect
  <2>4. CASE ram' = [ram EXCEPT ![p] = "ps_sent"] /\ Sent(p)
               /\ ram[p] \notin {"ps_sent", "ps_original_remain_packet_on_ram"}
    <3>1. ram[p] \in {"ps_on_L2_RAM", "ps_replicated_one_on_pub_file"}
      BY <2>2, <2>4, VisitedItem DEF SendEffect
    <3> QED
      BY <2>2, <2>4, <3>1 DEF SendEffect, Sent
  <2> QED
    BY <2>2, <2>3, <2>4 DEF SendEffect
<1>7. CASE SenderFault
  BY <1>7 DEF SenderFault
<1>8. CASE SenderStore
  BY <1>8 DEF SenderStore, store_segment_item
<1>9. CASE SenderMarkEmpty
  BY <1>9 DEF SenderMarkEmpty, SenderDone
<1>10. CASE Evacuate
  BY <1>10 DEF Evacuate, store_segment_item
<1>11. CASE DischargePub
  <2>1. PICK p \in Packets : PubEffect(p)
    BY <1>11, DischargePubFacts
  <2> QED
    BY <2>1 DEF PubEffect, Sent
<1>12. CASE DischargePriv
  <2>1. PICK p \in Packets : PrivEffect(p)
    BY <1>12, DischargePrivFacts
  <2> QED
    BY <2>1 DEF PrivEffect, Sent
<1>13. CASE SigInt
  BY <1>13 DEF SigInt
<1>14. CASE NoMoreUdp
  <2>1. CASE UNCHANGED <<active, filled>>
    BY <1>14, <2>1 DEF NoMoreUdp
  <2>2. CASE active # 0 /\ active' = 0 /\ filled' = filled \cup {active}
    BY <1>14, <2>2 DEF NoMoreUdp
  <2> QED
    BY <1>14, <2>1, <2>2 DEF NoMoreUdp, try_release_halffill_segment
<1>15. CASE UNCHANGED vars
  BY <1>15 DEF vars
<1> QED
  BY <1>1, <1>2, <1>3, <1>4, <1>5, <1>6, <1>7, <1>8, <1>9, <1>10, <1>11, <1>12, <1>13, <1>14, <1>15
     DEF Next, Sender

\* A packet leaves memory sent, stored or excused.
LEMMA AccountedStep == IInv /\ [Next]_vars => Accounted'
<1> SUFFICES ASSUME IInv, [Next]_vars PROVE Accounted'
  OBVIOUS
<1> USE PacketAssumption
    DEF IInv, TypeOK, Unseen, Segments, Pass, Copies, Accounted, OnDisk, Items, Packets, segments, sender, files
<1>1. CASE RejectPacket
  BY <1>1 DEF RejectPacket
<1>2. CASE fast_ring_2_huge_ring
  <2> DEFINE p == arrived + 1
  <2>1. p \in Packets /\ ram' = [ram EXCEPT ![p] = "ps_on_L2_RAM"] /\ arrived' = p
    BY <1>2 DEF fast_ring_2_huge_ring
  <2>2. CASE active # 0 /\ seg' = [seg EXCEPT ![p] = active]
               /\ UNCHANGED <<active, filled>>
    BY <1>2, <2>1, <2>2 DEF fast_ring_2_huge_ring
  <2>3. CASE seg' = [seg EXCEPT ![p] = p] /\ active' = p
               /\ filled' = IF active = 0 THEN filled ELSE filled \cup {active}
    <3>1. CASE active = 0
      BY <1>2, <2>1, <2>3, <3>1 DEF fast_ring_2_huge_ring
    <3>2. CASE active # 0
      BY <1>2, <2>1, <2>3, <3>2 DEF fast_ring_2_huge_ring
    <3> QED
      BY <3>1, <3>2
  <2> QED
    BY <1>2, <2>2, <2>3 DEF fast_ring_2_huge_ring, NewSegment
<1>3. CASE SegmentIdles
  BY <1>3 DEF SegmentIdles
<1>4. CASE ReleaseThread
  <2>1. CASE UNCHANGED <<active, filled>>
    BY <1>4, <2>1 DEF ReleaseThread
  <2>2. CASE active # 0 /\ active' = 0 /\ filled' = filled \cup {active}
    BY <1>4, <2>2 DEF ReleaseThread
  <2> QED
    BY <1>4, <2>1, <2>2 DEF ReleaseThread, try_release_halffill_segment
<1>5. CASE SenderPop
  BY <1>5 DEF SenderPop
<1>6. CASE SenderSend
  <2>1. PICK p \in pending : \E skip \in SUBSET (pending \ {p}) : SendEffect(p, skip)
    BY <1>6, SenderSendFacts
  <2>2. PICK skip \in SUBSET (pending \ {p}) : SendEffect(p, skip)
    BY <2>1
  <2>3. CASE ram' = ram /\ wire' = wire
    BY <2>2, <2>3 DEF SendEffect
  <2>4. CASE ram' = [ram EXCEPT ![p] = "ps_sent"] /\ Sent(p)
               /\ ram[p] \notin {"ps_sent", "ps_original_remain_packet_on_ram"}
    <3>1. ram[p] \in {"ps_on_L2_RAM", "ps_replicated_one_on_pub_file"}
      BY <2>2, <2>4, VisitedItem DEF SendEffect
    <3> QED
      BY <2>2, <2>4, <3>1 DEF SendEffect, Sent
  <2> QED
    BY <2>2, <2>3, <2>4 DEF SendEffect
<1>7. CASE SenderFault
  BY <1>7 DEF SenderFault
<1>8. CASE SenderStore
  <2>1. PICK p \in Packets : store_segment_item(p)
    BY <1>8 DEF SenderStore
  <2>2. UNCHANGED <<arrived, segments, spc, pseg, fault, stride, priv, wire, phase>>
    BY <1>8 DEF SenderStore
  <2>3. CASE UNCHANGED <<ram, pub, excused>>
    BY <1>8, <2>2, <2>3 DEF SenderStore
  <2>4. CASE /\ ram[p] = "ps_on_L2_RAM"
             /\ pub' = [pub EXCEPT ![p] = "ps_replicated_one_on_pub_file"]
             /\ ram' = [ram EXCEPT ![p] = "ps_original_remain_packet_on_ram"]
             /\ excused' = excused \ {p}
    BY <1>8, <2>2, <2>4 DEF SenderStore
  <2>5. CASE /\ ram[p] = "ps_on_L2_RAM"
             /\ ram' = [ram EXCEPT ![p] = "ps_replicated_one_on_pub_file"]
             /\ excused' = excused \cup {p} /\ pub' = pub
    BY <1>8, <2>2, <2>5 DEF SenderStore
  <2> QED
    BY <2>1, <2>3, <2>4, <2>5 DEF store_segment_item
<1>9. CASE SenderMarkEmpty
  <2>1. UNCHANGED <<arrived, pub, priv, wire, excused>>
    BY <1>9 DEF SenderMarkEmpty
  <2>2. ASSUME NEW p \in Packets, seg[p] = pseg
        PROVE  wire[p] > 0 \/ OnDisk(p) \/ p \in excused
    <3>1. ram[p] = "ps_on_L2_RAM" => p \in excused
      BY <1>9, <2>2, Zenon DEF SenderMarkEmpty, SenderDone
    <3>2. ram[p] # "none"
      BY <1>9, <2>2 DEF SenderMarkEmpty, SenderDone
    <3> QED
      BY <3>1, <3>2 DEF RamState
  <2>3. \A p \in Packets : ram'[p] = IF seg[p] = pseg THEN "freed" ELSE ram[p]
    BY <1>9 DEF SenderMarkEmpty
  <2> QED
    BY <2>1, <2>2, <2>3
<1>10. CASE Evacuate
  BY <1>10 DEF Evacuate, store_segment_item
<1>11. CASE DischargePub
  <2>1. PICK p \in Packets : PubEffect(p)
    BY <1>11, DischargePubFacts
  <2>2. pub[p] # "none" /\ UNCHANGED <<arrived, ram, segments, sender, excused, phase>>
    BY <2>1 DEF PubEffect
  <2>3. CASE pub' = pub /\ priv' = priv /\ wire' = wire
    BY <2>2, <2>3
  <2>4. CASE /\ pub[p] = "ps_sent" /\ wire' = wire
             /\ pub' = [pub EXCEPT ![p] = "none"] /\ priv' = priv
    BY <2>2, <2>4
  <2>5. CASE Sent(p) /\ pub' = [pub EXCEPT ![p] = "none"] /\ priv' = priv
    BY <2>2, <2>5 DEF Sent
  <2>6. CASE Sent(p) /\ p \in PostEnter /\ pub' = [pub EXCEPT ![p] = "ps_sent"] /\ priv' = priv
    BY <2>2, <2>6 DEF Sent
  <2>7. CASE /\ wire' = wire \/ (Sent(p) /\ p \in PostEnter)
             /\ pub' = [pub EXCEPT ![p] = "none"]
             /\ priv' = [priv EXCEPT ![p] = "ps_replicated_one_on_priv_file"]
    <3>1. CASE wire' = wire
      BY <2>2, <2>7, <3>1
    <3>2. CASE Sent(p)
      BY <2>2, <2>7, <3>2 DEF Sent
    <3> QED
      BY <2>7, <3>1, <3>2
  <2> QED
    BY <2>1, <2>3, <2>4, <2>5, <2>6, <2>7 DEF PubEffect
<1>12. CASE DischargePriv
  <2>1. PICK p \in Packets : PrivEffect(p)
    BY <1>12, DischargePrivFacts
  <2>2. priv[p] # "none" /\ UNCHANGED <<arrived, ram, segments, sender, pub, excused, phase>>
    BY <2>1 DEF PrivEffect
  <2>3. CASE priv' = priv /\ wire' = wire
    BY <2>2, <2>3
  <2>4. CASE priv[p] = "ps_sent" /\ wire' = wire /\ priv' = [priv EXCEPT ![p] = "none"]
    BY <2>2, <2>4
  <2>5. CASE Sent(p) /\ priv' = [priv EXCEPT ![p] = "none"]
    BY <2>2, <2>5 DEF Sent
  <2>6. CASE Sent(p) /\ priv' = [priv EXCEPT ![p] = "ps_sent"]
    BY <2>2, <2>6 DEF Sent
  <2>7. CASE Sent(p) /\ priv' = [priv EXCEPT ![p] = "ps_replicated_one_on_priv_file"]
    BY <2>2, <2>7 DEF Sent
  <2>8. CASE wire' = wire /\ priv' = [priv EXCEPT ![p] = "ps_replicated_one_on_priv_file"]
    BY <2>2, <2>8
  <2> QED
    BY <2>1, <2>3, <2>4, <2>5, <2>6, <2>7, <2>8 DEF PrivEffect
<1>13. CASE SigInt
  BY <1>13 DEF SigInt
<1>14. CASE NoMoreUdp
  <2>1. CASE UNCHANGED <<active, filled>>
    BY <1>14, <2>1 DEF NoMoreUdp
  <2>2. CASE active # 0 /\ active' = 0 /\ filled' = filled \cup {active}
    BY <1>14, <2>2 DEF NoMoreUdp
  <2> QED
    BY <1>14, <2>1, <2>2 DEF NoMoreUdp, try_release_halffill_segment
<1>15. CASE UNCHANGED vars
  BY <1>15 DEF vars
<1> QED
  BY <1>1, <1>2, <1>3, <1>4, <1>5, <1>6, <1>7, <1>8, <1>9, <1>10, <1>11, <1>12, <1>13, <1>14, <1>15
     DEF Next, Sender

\* harbor_memory, the page stack and the queues start empty.
LEMMA InitIInv == Init => IInv
<1> SUFFICES ASSUME Init PROVE IInv
  OBVIOUS
<1> USE PacketAssumption DEF Init, Packets
<1>1. RangesOK
  BY DEF RangesOK, RamState, PubState, PrivState, Phase
<1>2. fresh \in BOOLEAN /\ fault \in BOOLEAN
  BY Zenon
<1>3. TypeOK
  BY <1>1, <1>2, Zenon DEF TypeOK, RangesOK
<1>4. Unseen /\ Segments /\ Pass
  BY DEF Unseen, Segments, Pass, Live
<1>5. Copies /\ Unsent /\ Accounted
  BY DEF Copies, Unsent, Accounted, OnDisk
<1> QED
  BY <1>3, <1>4, <1>5 DEF IInv

\* The inductive invariant holds in every reachable state.
THEOREM Invariance == Spec => []IInv
<1>1. IInv /\ [Next]_vars => IInv'
  BY TypeStep, UnseenStep, SegmentsStep, PassStep, CopiesStep, UnsentStep,
     AccountedStep DEF IInv
<1> QED
  BY InitIInv, <1>1, PTL DEF Spec

\* Packets, segments and their states stay in their ranges.
THEOREM TypeCorrect == Spec => []TypeOK
  BY Invariance, PTL DEF IInv

\* A copy in memory and unsent is in a live segment.
LEMMA OnRamFacts ==
    ASSUME IInv, NEW p \in Packets
    PROVE  OnRam(p) <=> ram[p] \in {"ps_on_L2_RAM", "ps_replicated_one_on_pub_file"}
  BY DEF IInv, Segments, Live, OnRam

\* However sender, evacuator and discharger interleave, an accepted packet is
\* sent, held, or lost for a recorded reason: process_filled_tcp_segment_proc,
\* store_segment_item and remap_storage_data.
THEOREM LossSafe == Spec => []NoSilentLoss
<1>1. IInv => NoSilentLoss
  <2> SUFFICES ASSUME IInv, NEW p \in 1..arrived
               PROVE  wire[p] > 0 \/ OnRam(p) \/ OnDisk(p) \/ p \in excused
    BY DEF NoSilentLoss
  <2>1. p \in Packets /\ p <= arrived
    BY PacketAssumption DEF IInv, TypeOK, Packets
  <2>2. ram[p] \in RamState
    BY <2>1 DEF IInv, TypeOK
  <2> QED
    BY <2>1, <2>2, OnRamFacts DEF RamState, IInv, Copies, Accounted
<1> QED
  BY Invariance, <1>1, PTL

\* send_segment_itm never writes a packet of a plain output twice, from
\* whichever copy and thread.
THEOREM OnceSafe == Spec => []AtMostOnce
<1>1. IInv => AtMostOnce
  BY DEF IInv, Unsent, AtMostOnce
<1> QED
  BY Invariance, <1>1, PTL

\* Memory, page stack and queue never hold two copies that could both be sent.
THEOREM OneCopySafe == Spec => []OneCopyToSend
<1>1. IInv => OneCopyToSend
  BY DEF IInv, Copies, OneCopyToSend
<1> QED
  BY Invariance, <1>1, PTL

-----------------------------------------------------------------------------
(* The fate of a packet.                                                   *)

\* Whether an accepted packet may be dropped.
Lossy == MaxStride > 1 \/ MaxSkip > 0 \/ StoreMayFail

\* Without sampling and with a disk that accepts every packet, only a packet
\* refused on arrival is ever excused.
Lossless == ~Lossy => \A p \in Packets : p \in excused => ram[p] = "none"

\* With stride 1 and no extra skip the sender passes over no item.
LEMMA NoSkip ==
    ASSUME NEW items \in SUBSET Packets
    PROVE  Next_k(items, 0) = {}
<1>1. SUFFICES ASSUME NEW q \in items, Cardinality({r \in items : r >= q}) <= 0
               PROVE  FALSE
  BY DEF Next_k
<1> DEFINE above == {r \in items : r >= q}
<1>2. IsFiniteSet(Packets)
  BY PacketAssumption, FS_Interval DEF Packets
<1>3. IsFiniteSet(above)
  BY <1>2, FS_Subset
<1>4. q \in above
  BY DEF Packets
<1>5. Cardinality(above) \in Nat /\ Cardinality(above) # 0
  BY <1>3, <1>4, FS_CardinalityType, FS_EmptySet
<1> QED
  BY <1>1, <1>5

\* Lossless is inductive together with IInv.
LEMMA LosslessStep == IInv /\ Lossless /\ [Next]_vars => Lossless'
<1> SUFFICES ASSUME IInv, Lossless, [Next]_vars, ~Lossy,
                    NEW p \in Packets, p \in excused'
             PROVE  ram'[p] = "none"
  BY DEF Lossless, Lossy
<1> USE PacketAssumption
<1>0. MaxStride = 1 /\ MaxSkip = 0 /\ ~StoreMayFail
  BY DEF Lossy
<1>a. p \in excused => ram[p] = "none"
  BY DEF Lossless
<1>b. /\ arrived \in 0..N /\ ram \in [Packets -> RamState]
      /\ pending \subseteq Packets /\ stride = 1
  BY <1>0 DEF IInv, TypeOK
<1>c. ram[arrived + 1] = "none" \/ arrived = N
  BY <1>b DEF IInv, Unseen, Packets
<1>1. CASE RejectPacket
  BY <1>1, <1>a, <1>b, <1>c DEF RejectPacket
<1>2. CASE fast_ring_2_huge_ring
  <2>1. excused' = excused /\ ram' = [ram EXCEPT ![arrived + 1] = "ps_on_L2_RAM"]
        /\ arrived < N
    BY <1>2 DEF fast_ring_2_huge_ring
  <2>2. arrived + 1 \notin excused
    BY <1>b, <2>1 DEF IInv, Unseen, Packets
  <2> QED
    BY <1>a, <1>b, <2>1, <2>2
<1>3. CASE SenderSend
  <2>0. PICK q \in pending, n \in 0..MaxSkip : \E o \in send_segment_itm(q, ram[q]) :
          /\ ram' = [ram EXCEPT ![q] = o.state]
          /\ excused' = excused \cup
               {r \in Next_k(pending \ {q}, stride - 1 + IF o.ret = "errOK" THEN n ELSE 0) :
                    ram[r] = "ps_on_L2_RAM"}
    BY <1>3, Zenon DEF SenderSend
  <2>1. PICK o \in send_segment_itm(q, ram[q]) :
          /\ ram' = [ram EXCEPT ![q] = o.state]
          /\ excused' = excused \cup
               {r \in Next_k(pending \ {q}, stride - 1 + IF o.ret = "errOK" THEN n ELSE 0) :
                    ram[r] = "ps_on_L2_RAM"}
    BY <2>0
  <2>2. stride - 1 + (IF o.ret = "errOK" THEN n ELSE 0) = 0
    BY <1>0, <1>b
  <2>3. excused' = excused
    BY <1>b, <2>1, <2>2, NoSkip
  <2>4. spc = "send"
    BY <1>3 DEF SenderSend
  <2>5. ram[q] # "none"
    BY <2>4, VisitedItem
  <2> QED
    BY <1>a, <1>b, <2>1, <2>3, <2>5
<1>4. CASE SenderStore \/ Evacuate
  <2>1. PICK q \in Packets : store_segment_item(q)
    BY <1>4, <1>b DEF SenderStore, Evacuate
  <2> QED
    BY <1>0, <1>a, <1>b, <2>1 DEF store_segment_item
<1>5. CASE SenderMarkEmpty
  <2>1. excused' = excused /\ ram' = [q \in Packets |-> IF q \in Items(pseg) THEN "freed" ELSE ram[q]]
    BY <1>5 DEF SenderMarkEmpty
  <2>2. pseg # 0
    BY <1>5 DEF SenderMarkEmpty, SenderDone, IInv, Pass
  <2>3. p \notin Items(pseg)
    BY <1>a, <2>1, <2>2 DEF Items, IInv, Segments
  <2> QED
    BY <1>a, <2>1, <2>3
<1>6. CASE UNCHANGED <<ram, excused>>
  BY <1>6, <1>a
<1> QED
  <2>1. SegmentIdles \/ ReleaseThread \/ SenderPop \/ SenderFault \/ DischargePub
          \/ DischargePriv \/ SigInt \/ NoMoreUdp \/ UNCHANGED vars
            => UNCHANGED <<ram, excused>>
    BY DEF SegmentIdles, ReleaseThread, SenderPop, SenderFault, DischargePub,
           DischargePriv, SigInt, NoMoreUdp, vars
  <2> QED
    BY <1>1, <1>2, <1>3, <1>4, <1>5, <1>6, <2>1 DEF Next, Sender

-----------------------------------------------------------------------------
(* The refinement.                                                         *)

\* The abstract state.
fates == [p \in 1..N |-> Fate(p)]

\* Under the invariant a fate depends on the packet's own copies only.
OwnFate(p) ==
    IF p > arrived THEN "unseen"
    ELSE IF wire[p] > 0 THEN "delivered"
    ELSE IF ram[p] \in {"ps_on_L2_RAM", "ps_replicated_one_on_pub_file"} \/ OnDisk(p)
    THEN "held"
    ELSE "dropped"

\* The fates, read off the own copies of each packet.
LEMMA FateFacts == IInv => fates = [p \in 1..N |-> OwnFate(p)]
  BY OnRamFacts DEF fates, Fate, OwnFate, Packets

\* The same after a step.
LEMMA FateFactsNext ==
    IInv' => fates' = [p \in 1..N |-> OwnFate(p)']
<1>1. (IInv => fates = [p \in 1..N |-> OwnFate(p)])'
  BY FateFacts, PTL
<1> QED
  BY <1>1

\* A step after which the fate of one held packet is "delivered" and every
\* other fate is what it was is a delivery.
LEMMA DeliverFacts ==
    ASSUME IInv, IInv', NEW p \in Packets, OwnFate(p) = "held",
           OwnFate(p)' = "delivered",
           \A q \in Packets : q # p => OwnFate(q)' = OwnFate(q)
    PROVE  Promise!Deliver
<1>1. fates = [q \in 1..N |-> OwnFate(q)]
  BY FateFacts
<1>2. fates' = [q \in 1..N |-> OwnFate(q)']
  BY FateFactsNext
<1>3. fates[p] = "held" /\ fates' = [fates EXCEPT ![p] = "delivered"]
  BY <1>1, <1>2 DEF Packets
<1> QED
  BY <1>3 DEF Promise!Deliver, fates, Packets

\* A step that changes no fate is a stuttering step of the promise.
LEMMA StutterFacts ==
    ASSUME IInv, IInv', \A q \in Packets : OwnFate(q)' = OwnFate(q)
    PROVE  UNCHANGED fates
<1>1. fates = [q \in 1..N |-> OwnFate(q)]
  BY FateFacts
<1>2. fates' = [q \in 1..N |-> OwnFate(q)']
  BY FateFactsNext
<1> QED
  BY <1>1, <1>2 DEF Packets

\* When a packet that has not been sent goes out, that is a delivery.
LEMMA SentIsDeliver ==
    ASSUME IInv, IInv', PostEnter = {}, NEW p \in Packets, Sent(p),
           arrived' = arrived,
           ram[p] \in {"ps_on_L2_RAM", "ps_replicated_one_on_pub_file"} \/ OnDisk(p),
           \A q \in Packets : q # p =>
               ram'[q] = ram[q] /\ pub'[q] = pub[q] /\ priv'[q] = priv[q]
    PROVE  Promise!Deliver
<1>1. p <= arrived /\ wire[p] = 0
  BY PacketAssumption DEF IInv, TypeOK, Unseen, Unsent, OnDisk, Packets
<1>2. OwnFate(p) = "held"
  BY <1>1, PacketAssumption DEF OwnFate, IInv, TypeOK, Packets
<1>3. OwnFate(p)' = "delivered"
  BY <1>1, PacketAssumption DEF OwnFate, Sent, IInv, TypeOK, Packets
<1>4. \A q \in Packets : q # p => OwnFate(q)' = OwnFate(q)
  BY DEF OwnFate, OnDisk, Sent
<1> QED
  BY <1>2, <1>3, <1>4, DeliverFacts

\* The arrival of a packet, accepted or refused.
LEMMA ArriveFacts ==
    ASSUME IInv, IInv', RejectPacket \/ fast_ring_2_huge_ring
    PROVE  Promise!Arrive
<1>a. arrived \in 0..N /\ arrived < N /\ arrived + 1 \in Packets
  BY PacketAssumption DEF RejectPacket, fast_ring_2_huge_ring, IInv, TypeOK, Packets
<1>b. PICK p \in Packets : p = arrived + 1
  BY <1>a
<1>0. arrived \in 0..N /\ arrived < N /\ arrived' = p /\ p = arrived + 1
      /\ wire' = wire /\ pub' = pub /\ priv' = priv
  BY <1>a, <1>b DEF RejectPacket, fast_ring_2_huge_ring, files
<1>1. wire[p] = 0 /\ pub[p] = "none" /\ priv[p] = "none" /\ ram[p] = "none"
  BY <1>0, PacketAssumption DEF IInv, Unseen, Packets
<1>2. /\ ram'[p] \in {"none", "ps_on_L2_RAM"}
      /\ \A q \in Packets : q # p => ram'[q] = ram[q]
  BY <1>0, <1>1 DEF RejectPacket, fast_ring_2_huge_ring, IInv, TypeOK
<1>3. \A q \in Packets : q # p => OwnFate(q)' = OwnFate(q)
  BY <1>0, <1>2 DEF OwnFate, OnDisk, Packets
<1>4. OwnFate(p) = "unseen" /\ OwnFate(p)' \in {"held", "dropped"}
  <2>1. OwnFate(p) = "unseen"
    BY <1>0 DEF OwnFate
  <2>2. ~(p > arrived') /\ ~(wire'[p] > 0)
    BY <1>0, <1>1
  <2>3. OwnFate(p)' = IF ram'[p] \in {"ps_on_L2_RAM", "ps_replicated_one_on_pub_file"}
                           \/ pub'[p] # "none" \/ priv'[p] # "none"
                      THEN "held" ELSE "dropped"
    BY <2>2 DEF OwnFate, OnDisk
  <2> QED
    BY <2>1, <2>3
<1>5. \A q \in Packets : q < p => OwnFate(q) # "unseen"
  BY <1>0 DEF OwnFate, Packets
<1>6. fates = [q \in 1..N |-> OwnFate(q)] /\ fates' = [q \in 1..N |-> OwnFate(q)']
  BY FateFacts, FateFactsNext
<1>7. \E f \in {"held", "dropped"} : fates' = [fates EXCEPT ![p] = f]
  <2>1. ASSUME NEW q \in 1..N
        PROVE  fates'[q] = IF q = p THEN OwnFate(p)' ELSE fates[q]
    BY <1>3, <1>6 DEF Packets
  <2>2. fates' = [fates EXCEPT ![p] = fates'[p]] /\ fates'[p] = OwnFate(p)'
    BY <1>0, <1>6, <2>1 DEF Packets
  <2> QED
    BY <1>4, <2>2
<1>8. fates[p] = "unseen" /\ \A q \in 1..N : q < p => fates[q] # "unseen"
  BY <1>0, <1>4, <1>5, <1>6 DEF Packets
<1> QED
  BY <1>0, <1>7, <1>8 DEF Promise!Arrive, fates, Packets

\* Freeing a segment drops its unsent, unstored packets, of which there are
\* none in a lossless configuration.
LEMMA FreeFacts ==
    ASSUME IInv, IInv', Lossless, SenderMarkEmpty
    PROVE  Promise!Drop \/ UNCHANGED fates
<1>1. /\ arrived' = arrived /\ wire' = wire /\ pub' = pub /\ priv' = priv
      /\ ram' = [p \in Packets |-> IF seg[p] = pseg THEN "freed" ELSE ram[p]]
  BY DEF SenderMarkEmpty, files, Items
<1>2. \A p \in Packets :
          OwnFate(p)' = OwnFate(p) \/ (OwnFate(p) = "held" /\ OwnFate(p)' = "dropped")
  <2> SUFFICES ASSUME NEW p \in Packets
               PROVE  OwnFate(p)' = OwnFate(p)
                        \/ (OwnFate(p) = "held" /\ OwnFate(p)' = "dropped")
    OBVIOUS
  <2>1. ram'[p] = (IF seg[p] = pseg THEN "freed" ELSE ram[p])
    BY <1>1
  <2>2. ram'[p] = ram[p]
          \/ ~(ram'[p] \in {"ps_on_L2_RAM", "ps_replicated_one_on_pub_file"})
    BY <2>1
  <2>3. CASE ram'[p] = ram[p]
    BY <1>1, <2>3 DEF OwnFate, OnDisk
  <2>4. CASE ~(ram'[p] \in {"ps_on_L2_RAM", "ps_replicated_one_on_pub_file"})
    BY <1>1, <2>4 DEF OwnFate, OnDisk
  <2> QED
    BY <2>2, <2>3, <2>4
<1>3. CASE Lossy
  <2>1. fates = [q \in 1..N |-> OwnFate(q)] /\ fates' = [q \in 1..N |-> OwnFate(q)']
    BY FateFacts, FateFactsNext
  <2>2. \A p \in Packets : OwnFate(p)' \in Promise!Fate
    BY DEF OwnFate, Promise!Fate
  <2>3. fates' \in [1..N -> Promise!Fate]
    BY <2>1, <2>2 DEF Packets
  <2>4. \A p \in 1..N : fates'[p] = fates[p]
                           \/ (fates[p] = "held" /\ fates'[p] = "dropped")
    BY <1>2, <2>1 DEF Packets
  <2> QED
    BY <1>3, <2>3, <2>4 DEF Promise!Drop, fates, Lossy
<1>4. CASE ~Lossy
  <2>1. ASSUME NEW p \in Packets, seg[p] = pseg
        PROVE  wire[p] > 0 \/ OnDisk(p)
    <3>1. pseg # 0 /\ ram[p] # "none"
      BY <2>1 DEF SenderMarkEmpty, SenderDone, IInv, Pass, Segments
    <3>2. p \notin excused
      BY <1>4, <3>1 DEF Lossless
    <3>3. ram[p] # "ps_on_L2_RAM"
      BY <2>1, <3>2, Zenon DEF SenderMarkEmpty, SenderDone, IInv, Pass
    <3> QED
      BY <3>1, <3>2, <3>3 DEF IInv, TypeOK, RamState, Copies, Accounted
  <2>2. \A p \in Packets : OwnFate(p)' = OwnFate(p)
    BY <1>1, <2>1 DEF OwnFate, OnDisk
  <2> QED
    BY <2>2, StutterFacts
<1> QED
  BY <1>3, <1>4

\* Every step of the threads is a step of the promise, or none.
LEMMA FateStep ==
    ASSUME IInv, IInv', Lossless, PostEnter = {}, [Next]_vars
    PROVE  [Promise!Next]_fates
<1>1. CASE RejectPacket \/ fast_ring_2_huge_ring
  BY <1>1, ArriveFacts DEF Promise!Next
<1>2. CASE SenderMarkEmpty
  BY <1>2, FreeFacts DEF Promise!Next
<1>3. CASE SenderSend
  <2>1. PICK p \in pending : \E skip \in SUBSET (pending \ {p}) : SendEffect(p, skip)
    BY <1>3, SenderSendFacts DEF IInv
  <2>2. UNCHANGED <<arrived, pub, priv>> /\ spc = "send"
    BY <2>1 DEF SendEffect, files
  <2>3. CASE ram' = ram /\ wire' = wire
    BY <2>2, <2>3, StutterFacts DEF OwnFate, OnDisk
  <2>4. CASE ram' = [ram EXCEPT ![p] = "ps_sent"] /\ Sent(p)
               /\ ram[p] \notin {"ps_sent", "ps_original_remain_packet_on_ram"}
    <3>1. p \in Packets /\ ram[p] \in {"ps_on_L2_RAM", "ps_replicated_one_on_pub_file"}
      BY <2>2, <2>4, VisitedItem
    <3>2. \A q \in Packets : q # p => ram'[q] = ram[q]
      BY <2>4 DEF IInv, TypeOK
    <3> QED
      BY <2>2, <2>4, <3>1, <3>2, SentIsDeliver DEF Promise!Next
  <2> QED
    BY <2>1, <2>3, <2>4 DEF SendEffect
<1>4. CASE SenderStore \/ Evacuate
  <2>1. UNCHANGED <<arrived, wire, priv>>
    BY <1>4 DEF SenderStore, Evacuate
  <2>2. PICK p \in Packets : store_segment_item(p)
    BY <1>4 DEF SenderStore, Evacuate, IInv, TypeOK
  <2>3. \A q \in Packets : OwnFate(q)' = OwnFate(q)
    BY <2>1, <2>2 DEF store_segment_item, OwnFate, OnDisk, IInv, TypeOK, Copies
  <2> QED
    BY <2>3, StutterFacts
<1>5. CASE DischargePub
  <2>1. PICK p \in Packets : PubEffect(p)
    BY <1>5, DischargePubFacts DEF IInv
  <2>2. UNCHANGED <<arrived, ram>> /\ OnDisk(p)
    BY <2>1 DEF PubEffect, OnDisk
  <2>3. \A q \in Packets : q # p => pub'[q] = pub[q] /\ priv'[q] = priv[q]
    BY <2>1 DEF PubEffect, IInv, TypeOK
  <2>4. CASE Sent(p)
    BY <2>2, <2>3, <2>4, SentIsDeliver DEF Promise!Next
  <2>5. CASE ~Sent(p)
    <3>1. wire' = wire /\ pub[p] # "ps_sent"
      BY <2>1, <2>2, <2>5 DEF PubEffect, IInv, Copies, Unsent, TypeOK
    <3>2. OnDisk(p)'
      BY <2>1, <2>5, <3>1 DEF PubEffect, OnDisk, IInv, TypeOK
    <3>3. \A q \in Packets : OwnFate(q)' = OwnFate(q)
      BY <2>2, <2>3, <3>1, <3>2 DEF OwnFate, OnDisk
    <3> QED
      BY <3>3, StutterFacts
  <2> QED
    BY <2>4, <2>5
<1>6. CASE DischargePriv
  <2>1. PICK p \in Packets : PrivEffect(p)
    BY <1>6, DischargePrivFacts DEF IInv
  <2>2. UNCHANGED <<arrived, ram, pub>> /\ OnDisk(p)
    BY <2>1 DEF PrivEffect, OnDisk
  <2>3. \A q \in Packets : q # p => priv'[q] = priv[q]
    BY <2>1 DEF PrivEffect, IInv, TypeOK
  <2>4. CASE Sent(p)
    BY <2>2, <2>3, <2>4, SentIsDeliver DEF Promise!Next
  <2>5. CASE ~Sent(p)
    <3>1. wire' = wire /\ priv[p] # "ps_sent"
      BY <2>1, <2>2, <2>5 DEF PrivEffect, IInv, Copies, Unsent, TypeOK
    <3>2. OnDisk(p)'
      BY <2>1, <2>5, <3>1 DEF PrivEffect, OnDisk, IInv, TypeOK
    <3>3. \A q \in Packets : OwnFate(q)' = OwnFate(q)
      BY <2>2, <2>3, <3>1, <3>2 DEF OwnFate, OnDisk
    <3> QED
      BY <3>3, StutterFacts
  <2> QED
    BY <2>4, <2>5
<1>7. CASE UNCHANGED <<arrived, ram, wire, pub, priv>>
  <2>1. \A q \in Packets : OwnFate(q)' = OwnFate(q)
    BY <1>7 DEF OwnFate, OnDisk
  <2> QED
    BY <2>1, StutterFacts
<1> QED
  <2>1. SegmentIdles \/ ReleaseThread \/ SenderPop \/ SenderFault
          \/ SigInt \/ NoMoreUdp \/ UNCHANGED vars
            => UNCHANGED <<arrived, ram, wire, pub, priv>>
    BY DEF SegmentIdles, ReleaseThread, SenderPop, SenderFault, SigInt, NoMoreUdp,
           vars, files
  <2> QED
    BY <1>1, <1>2, <1>3, <1>4, <1>5, <1>6, <1>7, <2>1 DEF Next, Sender

\* Where no output asks for "post enter", the packet manager keeps its promise:
\* one delivery per packet, no fate revised, and no accepted packet dropped
\* unless the configuration samples or the disk refuses packets.
THEOREM PromiseKept ==
    ASSUME PostEnter = {}
    PROVE  Spec => KeepsPromise
<1>1. Init => Promise!Init
  <2> SUFFICES ASSUME Init PROVE fates = [p \in 1..N |-> "unseen"]
    BY DEF Promise!Init, fates
  <2> QED
    BY DEF Init, fates, Fate
<1>2. Init => Lossless
  BY DEF Init, Lossless
<1>3. IInv /\ IInv' /\ Lossless /\ [Next]_vars => [Promise!Next]_fates
  BY FateStep
<1>4. Spec => []Lossless
  BY <1>2, Invariance, LosslessStep, PTL DEF Spec
<1> QED
  BY <1>1, <1>3, <1>4, Invariance, PTL DEF Spec, KeepsPromise, Promise!Spec, fates
=============================================================================

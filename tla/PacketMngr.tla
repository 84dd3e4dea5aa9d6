----------------------------- MODULE PacketMngr -----------------------------
(***************************************************************************)
(* The life of a packet between the rings of the bridges and the TCP       *)
(* outputs (packet_mngr.c): the segments of harbor_memory, the page stack  *)
(* on disk (pub) and its per-destination queues (priv).                    *)
(*                                                                         *)
(* Four threads and the quit callbacks move packets:                       *)
(*   - a bridge appends them, fast_ring_2_huge_ring;                       *)
(*   - the sender, process_filled_tcp_segment_proc, takes the newest       *)
(*     filled segment, sends its items tail to head, stores what it could  *)
(*     not send and frees the segment;                                     *)
(*   - the evacuator stores items of old segments that nobody has taken;   *)
(*   - the discharger sends what is on disk, and moves a packet without a  *)
(*     peer from the stack to its destination's queue;                     *)
(*   - the release thread and a quit callback close the active segment.    *)
(*                                                                         *)
(* send_segment_itm runs under pm_lock, so a send is one step. Packet p is *)
(* the p-th to arrive. When the sender prefers the disk is the concern of  *)
(* PagestackGateway: here it may take a segment at any time.               *)
(***************************************************************************)
EXTENDS Integers, FiniteSets

CONSTANTS
    N,              \* bound: number of packets that arrive
    SegCap,         \* packets that fit in a segment
    MaxStride,      \* largest sampling_sent_packet_stride
    MaxSkip,        \* largest skip_n that on_ram_send_segment_itm_wrapper asks for
    PostEnter,      \* packets whose output has post_action "post enter"
    StoreMayFail    \* whether the page stack may refuse a packet

ASSUME PacketAssumption ==
    /\ N \in Nat
    /\ SegCap \in Nat \ {0}
    /\ MaxStride \in Nat \ {0}
    /\ MaxSkip \in Nat
    /\ PostEnter \subseteq 1..N
    /\ StoreMayFail \in BOOLEAN

Packets == 1..N

VARIABLES
    arrived,        \* number of packets seen so far
    ram,            \* metadata.state of the copy in harbor_memory
    seg,            \* the segment a packet is in, named by its first packet
    active,         \* the segment being filled, or 0
    filled,         \* segments waiting for the sender
    fresh,          \* the last item of active is younger than its timeout
    spc,            \* where the sender is
    pseg,           \* the segment it has taken, or 0
    pending,        \* items of the taken segment the sender has yet to visit
    fault,          \* ci_sgm_iter_items is going to return an error
    stride,         \* sampling stride of this pass
    pub,            \* metadata.state of the copy in the page stack
    priv,           \* metadata.state of the copy in the destination's queue
    wire,           \* times the payload was written to the output, up to 2
    excused,        \* history: packets rejected, sampled out or not storable
    phase           \* cleanup_state, as far as the segments see it

segments == <<seg, active, filled, fresh>>
sender   == <<spc, pseg, pending, fault, stride>>
files    == <<pub, priv>>
vars     == <<arrived, ram, segments, sender, files, wire, excused, phase>>

\* pkt_state; "none" and "freed" stand for no packet in that place.
RamState == {"none", "ps_on_L2_RAM", "ps_replicated_one_on_pub_file",
             "ps_original_remain_packet_on_ram", "ps_sent", "freed"}
PubState == {"none", "ps_replicated_one_on_pub_file", "ps_sent"}
PrivState == {"none", "ps_replicated_one_on_priv_file", "ps_sent"}

\* clean_globals (0, as in every static variable) while the program runs,
\* then _begin_cleanup_item, then wait_until_no_more_unsaved_packet.
Phase == {"clean_globals", "_begin_cleanup_item",
          "wait_until_no_more_unsaved_packet"}

TypeOK ==
    /\ arrived \in 0..N
    /\ ram \in [Packets -> RamState]
    /\ seg \in [Packets -> 0..N]
    /\ active \in 0..N
    /\ filled \subseteq Packets
    /\ fresh \in BOOLEAN
    /\ spc \in {"loop", "send", "store"}
    /\ pseg \in 0..N
    /\ pending \subseteq Packets
    /\ fault \in BOOLEAN
    /\ stride \in 1..MaxStride
    /\ pub \in [Packets -> PubState]
    /\ priv \in [Packets -> PrivState]
    /\ wire \in [Packets -> 0..2]
    /\ excused \subseteq Packets
    /\ phase \in Phase

Init ==
    /\ arrived = 0
    /\ ram = [p \in Packets |-> "none"]
    /\ seg = [p \in Packets |-> 0]
    /\ active = 0
    /\ filled = {}
    /\ fresh = FALSE
    /\ spc = "loop"
    /\ pseg = 0
    /\ pending = {}
    /\ fault = FALSE
    /\ stride = 1
    /\ pub = [p \in Packets |-> "none"]
    /\ priv = [p \in Packets |-> "none"]
    /\ wire = [p \in Packets |-> 0]
    /\ excused = {}
    /\ phase = "clean_globals"

\* signal_thread sets block_sending_1 together with _begin_cleanup_item.
block_sending_1 == phase # "clean_globals"

Items(s) == {p \in Packets : seg[p] = s}

-----------------------------------------------------------------------------
(* Appending to harbor_memory (segmgr_append is external).                 *)

\* sampling_threshold_stage >= prss_skip_section, or segmgr_append failed.
RejectPacket ==
    /\ phase # "wait_until_no_more_unsaved_packet"
    /\ arrived < N
    /\ arrived' = arrived + 1
    /\ excused' = excused \cup {arrived + 1}
    /\ UNCHANGED <<ram, segments, sender, files, wire, phase>>

\* Mutant: the segment that overflows is dropped, not queued for the sender.
NewSegment_Dropped(p) == active' = p /\ UNCHANGED filled

\* The packet does not fit: active is queued and a new segment started.
NewSegment(p) ==
    /\ active' = p
    /\ filled' = IF active = 0 THEN filled ELSE filled \cup {active}

fast_ring_2_huge_ring ==
    /\ phase # "wait_until_no_more_unsaved_packet"
    /\ arrived < N
    /\ LET p == arrived + 1
           room == active # 0 /\ Cardinality(Items(active)) < SegCap
       IN  /\ arrived' = p
           /\ ram' = [ram EXCEPT ![p] = "ps_on_L2_RAM"]
           /\ seg' = [seg EXCEPT ![p] = IF room THEN active ELSE p]
           /\ IF room THEN UNCHANGED <<active, filled>> ELSE NewSegment(p)
    /\ fresh' = TRUE
    /\ UNCHANGED <<sender, files, wire, excused, phase>>

\* L2_idle_active_segment_expiration_timeout_sec passes without a packet.
SegmentIdles ==
    /\ fresh
    /\ fresh' = FALSE
    /\ UNCHANGED <<arrived, ram, seg, active, filled, sender, files, wire,
                   excused, phase>>

\* cleanup_state <= getting_new_udp_stoped, or the last item is old. The
\* comparison holds for clean_globals, the value of a program that runs.
release_halffill_segment_condition ==
    phase \in {"clean_globals", "wait_until_no_more_unsaved_packet"} \/ ~fresh

try_release_halffill_segment ==
    IF active # 0 /\ release_halffill_segment_condition
    THEN active' = 0 /\ filled' = filled \cup {active}
    ELSE UNCHANGED <<active, filled>>

\* One pass of proc_and_release_halffill_segment; a pass that began before
\* Ctrl+C may still end after it.
ReleaseThread ==
    /\ active # 0
    /\ try_release_halffill_segment
    /\ UNCHANGED <<arrived, ram, seg, fresh, sender, files, wire, excused, phase>>

-----------------------------------------------------------------------------
(* Sending one item.                                                       *)

\* An attempt to send a copy: its state after, the status, and whether the
\* payload went out. errPeerClosed is treated like errNoPeer everywhere, and
\* so is not told apart.
Outcome(s, r, n) == [state |-> s, ret |-> r, sent |-> n]

\* A copy that was sent, or that another copy stands for, is left alone.
AlreadyDone(st) == st \in {"ps_sent", "ps_original_remain_packet_on_ram"}

\* A copy read from a file is tried once a second.
CoolDown(st) ==
    IF st = "ps_on_L2_RAM" THEN {} ELSE {Outcome(st, "errTooManyAttempt", 0)}

\* send_gap_nsec or send_throughput_limit_Bps holds the output back.
Limited(st) == {Outcome(st, "errPortOccupied", 0)}

\* The fast method's write. The payload counts as sent even when the newline
\* that a "post enter" output appends cannot be written.
FastMethod(p, st) ==
    {Outcome("ps_sent", "errOK", 1)}
    \cup {Outcome(st, r, 0) : r \in {"errNoPeer", "errGeneral"}}
    \cup {Outcome("ps_sent", r, 1) : r \in IF p \in PostEnter
                                          THEN {"errNoPeer", "errGeneral"} ELSE {}}

\* No output of that name is established: errNoPeer only when none is.
NoRoute(st) == {Outcome(st, r, 0) : r \in {"errCanceled", "errNoPeer"}}

\* The slow method looks the output up by name, then does what the fast does.
SlowMethod(p, st) == Limited(st) \cup FastMethod(p, st) \cup NoRoute(st)

\* What send_segment_itm may do to a copy in state st; errTimeout when
\* pm_lock is not free within a second.
send_segment_itm(p, st) ==
    {Outcome(st, "errTimeout", 0)}
    \cup (IF AlreadyDone(st) THEN {Outcome(st, "errOK", 0)}
          ELSE IF block_sending_1 THEN {Outcome(st, "errCanceled", 0)}
          ELSE CoolDown(st) \cup Limited(st) \cup FastMethod(p, st)
               \cup SlowMethod(p, st))

Written(p, n) ==
    wire' = [wire EXCEPT ![p] = IF @ + n > 2 THEN 2 ELSE @ + n]

-----------------------------------------------------------------------------
(* The sender.                                                             *)

\* segmgr_pop_filled_segment, LIFO. Under block_sending_1 nothing is sent.
SenderPop ==
    /\ spc = "loop"
    /\ \E s \in filled, k \in 1..MaxStride :
          /\ \A r \in filled : r <= s
          /\ filled' = filled \ {s}
          /\ pseg' = s
          /\ pending' = Items(s)
          /\ stride' = k
    /\ spc' = IF block_sending_1 THEN "store" ELSE "send"
    /\ fault' = FALSE
    /\ UNCHANGED <<arrived, ram, seg, active, fresh, files, wire, excused, phase>>

\* The k items that come before the others in the tail-to-head order.
Next_k(items, k) == {q \in items : Cardinality({r \in items : r >= q}) <= k}

\* Mutant: a send that was refused is not a fault of the pass.
IsFault_NoPeerOnly(ret) == ret = "errNoPeer"

\* ci_sgm_iter_items returns an error if one of the items did.
IsFault(ret) == ret # "errOK"

\* on_ram_send_segment_itm_wrapper on the last item not visited; it may ask
\* to skip more items than the stride does.
SenderSend ==
    /\ spc = "send"
    /\ \E p \in pending, n \in 0..MaxSkip :
          /\ \A q \in pending : q <= p
          /\ \E o \in send_segment_itm(p, ram[p]) :
                LET rest == pending \ {p}
                    skip == Next_k(rest, stride - 1
                                   + IF o.ret = "errOK" THEN n ELSE 0)
                IN  /\ ram' = [ram EXCEPT ![p] = o.state]
                    /\ Written(p, o.sent)
                    /\ fault' = (fault \/ IsFault(o.ret))
                    /\ pending' = rest \ skip
                    /\ excused' = excused \cup
                                    {q \in skip : ram[q] = "ps_on_L2_RAM"}
    /\ UNCHANGED <<arrived, segments, spc, pseg, stride, files, phase>>

\* Some item failed: every item is offered to the page stack.
SenderFault ==
    /\ spc = "send"
    /\ pending = {}
    /\ fault
    /\ spc' = "store"
    /\ pending' = Items(pseg)
    /\ UNCHANGED <<arrived, ram, segments, pseg, fault, stride, files, wire,
                   excused, phase>>

\* Mutant: a packet that is on disk keeps its sendable state in memory.
store_segment_item_StillOnRam(p) ==
    IF ram[p] # "ps_on_L2_RAM"
    THEN UNCHANGED <<ram, pub, excused>>
    ELSE /\ pub' = [pub EXCEPT ![p] = "ps_replicated_one_on_pub_file"]
         /\ excused' = excused \ {p}
         /\ UNCHANGED ram

\* The copy is written with the state it will have on disk; that state stays
\* in memory when persistant_cache_mngr_store_data fails.
store_segment_item(p) ==
    \/ /\ ram[p] # "ps_on_L2_RAM"
       /\ UNCHANGED <<ram, pub, excused>>
    \/ /\ ram[p] = "ps_on_L2_RAM"
       /\ pub' = [pub EXCEPT ![p] = "ps_replicated_one_on_pub_file"]
       /\ ram' = [ram EXCEPT ![p] = "ps_original_remain_packet_on_ram"]
       /\ excused' = excused \ {p}
    \/ /\ ram[p] = "ps_on_L2_RAM"
       /\ StoreMayFail
       /\ ram' = [ram EXCEPT ![p] = "ps_replicated_one_on_pub_file"]
       /\ excused' = excused \cup {p}
       /\ UNCHANGED pub

\* on_ram_store_itm_wrapper, head to tail.
SenderStore ==
    /\ spc = "store"
    /\ \E p \in pending :
          /\ \A q \in pending : p <= q
          /\ store_segment_item(p)
          /\ pending' = pending \ {p}
    /\ UNCHANGED <<arrived, segments, spc, pseg, fault, stride, priv, wire, phase>>

\* Nothing is left to do for this segment.
SenderDone == spc = "store" \/ (spc = "send" /\ ~fault)

\* ci_sgm_mark_empty: the memory of the items is reused.
SenderMarkEmpty ==
    /\ SenderDone
    /\ pending = {}
    /\ ram' = [p \in Packets |-> IF p \in Items(pseg) THEN "freed" ELSE ram[p]]
    /\ spc' = "loop"
    /\ pseg' = 0
    /\ stride' = 1
    /\ fault' = FALSE
    /\ UNCHANGED <<arrived, segments, pending, files, wire, excused, phase>>

-----------------------------------------------------------------------------
(* The evacuator: store_old_segment_item on an item of a segment that waits *)
(* for the sender (segmgr_try_process_filled_segment is external: it works  *)
(* on the filled segments only, an item at a time). A pass that began       *)
(* before Ctrl+C may still go on after it.                                 *)
Evacuate ==
    /\ \E p \in Packets :
          /\ seg[p] \in filled
          /\ ram[p] = "ps_on_L2_RAM"
          /\ store_segment_item(p)
    /\ UNCHANGED <<arrived, segments, sender, priv, wire, phase>>

-----------------------------------------------------------------------------
(* The discharger: discharge_persistent_storage_data on a stored packet,   *)
(* and what the page stack does with the answer.                           *)

\* Mutant: a packet that was moved to the queue also stays on the stack.
pgstk_remapped_Kept(p, st) == pub' = [pub EXCEPT ![p] = st]

\* Mutant: the packet is marked as moved where it is and never leaves.
pgstk_remapped_InPlace(p, st) ==
    pub' = [pub EXCEPT ![p] = "ps_replicated_one_on_priv_file"]

\* pgstk_remapped: the packet leaves the stack.
pgstk_remapped(p, st) == pub' = [pub EXCEPT ![p] = "none"]

\* A packet from the stack. Without a peer remap_storage_data moves it to
\* the queue, or puts its state back when that fails.
DischargePub ==
    \E p \in Packets :
      /\ pub[p] # "none"
      /\ \E o \in send_segment_itm(p, pub[p]) :
            /\ Written(p, o.sent)
            /\ CASE o.ret = "errOK" ->
                      /\ pub' = [pub EXCEPT ![p] = "none"]
                      /\ UNCHANGED priv
                 [] o.ret = "errNoPeer" ->
                      \/ /\ pgstk_remapped(p, o.state)
                         /\ priv' = [priv EXCEPT ![p] = "ps_replicated_one_on_priv_file"]
                      \/ /\ StoreMayFail
                         /\ pub' = [pub EXCEPT ![p] = o.state]
                         /\ UNCHANGED priv
                 [] OTHER ->
                      /\ pub' = [pub EXCEPT ![p] = o.state]
                      /\ UNCHANGED priv
      /\ UNCHANGED <<arrived, ram, segments, sender, excused, phase>>

\* A packet from its queue: errDoneAlready keeps it there. A copy whose state
\* is ps_sent by then is queued once more.
DischargePriv ==
    \E p \in Packets :
      /\ priv[p] # "none"
      /\ \E o \in send_segment_itm(p, priv[p]) :
            /\ Written(p, o.sent)
            /\ CASE o.ret = "errOK" ->
                      priv' = [priv EXCEPT ![p] = "none"]
                 [] o.ret = "errNoPeer" ->
                      priv' \in {[priv EXCEPT ![p] = "ps_replicated_one_on_priv_file"]}
                                 \cup (IF StoreMayFail
                                       THEN {[priv EXCEPT ![p] = o.state]} ELSE {})
                 [] OTHER ->
                      priv' = [priv EXCEPT ![p] = o.state]
      /\ UNCHANGED <<arrived, ram, segments, sender, pub, excused, phase>>

-----------------------------------------------------------------------------
(* Shutdown.                                                               *)

SigInt ==
    /\ phase = "clean_globals"
    /\ phase' = "_begin_cleanup_item"
    /\ UNCHANGED <<arrived, ram, segments, sender, files, wire, excused>>

\* The callbacks up to getting_new_udp_stoped, the last of which closes the
\* active segment; then waiting_until_no_more_unsaved_packet.
NoMoreUdp ==
    /\ phase = "_begin_cleanup_item"
    /\ try_release_halffill_segment
    /\ phase' = "wait_until_no_more_unsaved_packet"
    /\ UNCHANGED <<arrived, ram, seg, fresh, sender, files, wire, excused>>

-----------------------------------------------------------------------------
Sender == SenderPop \/ SenderSend \/ SenderFault \/ SenderStore \/ SenderMarkEmpty

Next ==
    \/ RejectPacket \/ fast_ring_2_huge_ring \/ SegmentIdles \/ ReleaseThread
    \/ Sender \/ Evacuate \/ DischargePub \/ DischargePriv
    \/ SigInt \/ NoMoreUdp

Spec == Init /\ [][Next]_vars

-----------------------------------------------------------------------------
(* Properties.                                                             *)

\* In memory, unsent, and in a segment that somebody still looks after.
OnRam(p) ==
    /\ ram[p] \in {"ps_on_L2_RAM", "ps_replicated_one_on_pub_file"}
    /\ seg[p] \in filled \cup {active, pseg}

OnDisk(p) == pub[p] # "none" \/ priv[p] # "none"

\* No accepted packet disappears: it was sent, or it is in memory or on disk,
\* or it was sampled out or refused by the disk.
NoSilentLoss ==
    \A p \in 1..arrived :
        wire[p] > 0 \/ OnRam(p) \/ OnDisk(p) \/ p \in excused

\* Sender, evacuator and discharger never send the same packet twice, where
\* the output has no "post enter".
AtMostOnce == \A p \in Packets \ PostEnter : wire[p] <= 1

\* A copy on disk that is still to be sent is the only one: neither memory nor
\* the other store holds a second that could be sent.
OneCopyToSend ==
    \A p \in Packets :
        /\ OnDisk(p) => ram[p] # "ps_on_L2_RAM"
        /\ pub[p] = "none" \/ priv[p] = "none"

\* What became of a packet, as PacketFate tells it.
Fate(p) ==
    IF p > arrived THEN "unseen"
    ELSE IF wire[p] > 0 THEN "delivered"
    ELSE IF OnRam(p) \/ OnDisk(p) THEN "held"
    ELSE "dropped"

Promise == INSTANCE PacketFate WITH
    Lossy <- MaxStride > 1 \/ MaxSkip > 0 \/ StoreMayFail,
    fate  <- [p \in 1..N |-> Fate(p)]

\* Segments, evacuation, page stack and queues together keep the promise: no
\* packet is delivered twice, comes back after it was dropped, or (without
\* sampling and with a sound disk) is dropped once it was accepted.
KeepsPromise == Promise!Spec
=============================================================================

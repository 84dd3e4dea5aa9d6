------------------------------ MODULE UdpDefrag ------------------------------
(***************************************************************************)
(* Reassembly of captured UDP datagrams (udp_defragmentator.c).            *)
(*                                                                         *)
(* The capture thread calls defragment_pcap_data for every frame.  It      *)
(* pushes a header and a payload on the packed ring raw_xudp_cache and     *)
(* keeps one record per IP identification, ids[id].  The forwarding thread *)
(* calls poped_defraged_packet, which pops a header, waits until the       *)
(* record says that the datagram is complete, copies its parts out of the  *)
(* ring by address and clears the record.  Both threads use the record at  *)
(* the same time: __lock and __unlock are empty macros.                    *)
(*                                                                         *)
(* Lengths are counted in fragments, so that data_length_B is the number   *)
(* of fragments of the datagram.  The statistics counters are left out.    *)
(***************************************************************************)
EXTENDS Naturals, Sequences

CONSTANTS
    Datagrams,      \* the datagrams the network carries
    Ids,            \* IP identifications
    IdOf,           \* [Datagrams -> Ids]
    PartsOf,        \* [Datagrams -> 1..MaxFragments]; 1: not fragmented
    MaxFragments,   \* MAXIMUM_FRAGMENT_MADE, the entries of ring_addr
    RingCap         \* items (headers and payloads) that fit in the ring

ASSUME DefragAssumption ==
    /\ MaxFragments \in Nat \ {0}
    /\ RingCap \in Nat \ {0}
    /\ IdOf \in [Datagrams -> Ids]
    /\ PartsOf \in [Datagrams -> 1..MaxFragments]
    /\ "junk" \notin Datagrams

VARIABLES
    todo,       \* fragments <<d, p>> the network has yet to deliver
    mem,        \* every item ever pushed; an address is a position in it
    head,       \* the number of items popped
    avail,      \* the ring's semaphore: one post for each pushed pair
    refused,    \* a payload was refused after its header was pushed
    dirty, data_length, data_progress, last_pos, ring_addr,   \* ids[id]
    prod,       \* the capture thread: [at, f], f the fragment it handles
    cons,       \* the forwarding thread: [at, hdr]
    delivered   \* what poped_defraged_packet returned with errOK

recs   == <<dirty, data_length, data_progress, last_pos, ring_addr>>
ringv  == <<mem, head, avail, refused>>
vars   == <<todo, ringv, recs, prod, cons, delivered>>

Fragments == {f \in Datagrams \X (1..MaxFragments) : f[2] <= PartsOf[f[1]]}
Item      == [kind : {"hdr", "pay"}, d : Datagrams, p : 1..MaxFragments]
NoHdr     == [kind |-> "none"]
Idle      == [at |-> "idle", f |-> <<>>]
Junk      == "junk"
Slots     == 0..MaxFragments     \* the last one is past the end of ring_addr
NoAddr    == [s \in Slots |-> 0]

TypeOK ==
    /\ todo \subseteq Fragments
    /\ mem \in Seq(Item) /\ head \in 0..Len(mem)
    /\ avail \in 0..Len(mem) /\ refused \in BOOLEAN
    /\ dirty \in [Ids -> BOOLEAN]
    /\ data_length \in [Ids -> 0..MaxFragments]
    /\ data_progress \in [Ids -> Nat] /\ last_pos \in [Ids -> Nat]
    /\ ring_addr \in [Ids -> [Slots -> 0..Len(mem)]]
    /\ prod \in [at : {"push", "record", "advance"}, f : Fragments] \cup {Idle}
    /\ cons.at \in {"pop", "wait", "take", "copy", "own", "ignore"}
    /\ cons.hdr \in Item \cup {NoHdr}
    /\ \A i \in DOMAIN delivered : delivered[i].d \in Datagrams \cup {Junk}

Init ==
    /\ todo = Fragments
    /\ mem = <<>> /\ head = 0 /\ avail = 0 /\ refused = FALSE
    /\ dirty = [i \in Ids |-> FALSE]
    /\ data_length = [i \in Ids |-> 0] /\ data_progress = [i \in Ids |-> 0]
    /\ last_pos = [i \in Ids |-> 0] /\ ring_addr = [i \in Ids |-> NoAddr]
    /\ prod = Idle
    /\ cons = [at |-> "pop", hdr |-> NoHdr]
    /\ delivered = <<>>

(***************************************************************************)
(* The record of an id.  MEMSET_ZERO_O clears it.                          *)
(***************************************************************************)
Zeroed(i) ==
    /\ dirty' = [dirty EXCEPT ![i] = FALSE]
    /\ data_length' = [data_length EXCEPT ![i] = 0]
    /\ data_progress' = [data_progress EXCEPT ![i] = 0]
    /\ last_pos' = [last_pos EXCEPT ![i] = 0]
    /\ ring_addr' = [ring_addr EXCEPT ![i] = NoAddr]

Complete(i) == data_length[i] # 0 /\ data_progress[i] = data_length[i]

(***************************************************************************)
(* The capture thread.                                                     *)
(***************************************************************************)
Busy(f) == prod' = [at |-> "push", f |-> f]

\* Not IPv4, not UDP, too short: refused before any record is touched.
BadStructure(f) ==
    /\ prod.at = "idle" /\ f \in todo
    /\ todo' = todo \ {f}
    /\ UNCHANGED <<ringv, recs, prod, cons, delivered>>

\* Case 1, not fragmented: addresses and position are cleared, length and
\* progress are not.
ReceiveWhole(f) ==
    LET i == IdOf[f[1]] IN
    /\ prod.at = "idle" /\ f \in todo /\ PartsOf[f[1]] = 1
    /\ todo' = todo \ {f}
    /\ ring_addr' = [ring_addr EXCEPT ![i] = NoAddr]
    /\ last_pos' = [last_pos EXCEPT ![i] = 0]
    /\ dirty' = [dirty EXCEPT ![i] = TRUE]
    /\ Busy(f)
    /\ UNCHANGED <<ringv, data_length, data_progress, cons, delivered>>

\* What makes cases 2 and 3 start a dirty record anew: the previous datagram
\* is too old (expired), has too many parts, or more bytes than its length.
StartsAnew(i, expired) ==
    /\ dirty[i]
    /\ \/ expired
       \/ last_pos[i] >= MaxFragments
       \/ data_length[i] # 0 /\ data_progress[i] > data_length[i]

ReceivePart(f, expired) ==
    LET i == IdOf[f[1]]
        anew == StartsAnew(i, expired)
        keep(v, zero) == [v EXCEPT ![i] = IF anew THEN zero ELSE @]
    IN
    /\ prod.at = "idle" /\ f \in todo /\ PartsOf[f[1]] > 1
    /\ todo' = todo \ {f}
    /\ data_length' = keep(data_length, 0)
    /\ data_progress' = keep(data_progress, 0)
    /\ last_pos' = keep(last_pos, 0)
    /\ ring_addr' = keep(ring_addr, NoAddr)
    /\ dirty' = [dirty EXCEPT ![i] = TRUE]
    /\ Busy(f)
    /\ UNCHANGED <<ringv, cons, delivered>>

\* Case 2: the first part.
ReceiveFirst(f, expired) == f[2] = 1 /\ ReceivePart(f, expired)

\* Case 3: any other part.
ReceiveOther(f, expired) == f[2] > 1 /\ ReceivePart(f, expired)

\* An offset inside the UDP header, or a part that no output buffer can
\* hold, clears the record of the id it names.
ReceiveMisplaced(f) ==
    /\ prod.at = "idle" /\ f \in todo /\ f[2] > 1
    /\ todo' = todo \ {f}
    /\ Zeroed(IdOf[f[1]])
    /\ UNCHANGED <<ringv, prod, cons, delivered>>

HdrOf(f) == [kind |-> "hdr", d |-> f[1], p |-> f[2]]
PayOf(f) == [kind |-> "pay", d |-> f[1], p |-> f[2]]
Free     == RingCap - (Len(mem) - head)

\* Header and payload are two pushes; only the second one posts, so that the
\* forwarding thread cannot see the first one alone.
Push ==
    /\ prod.at = "push" /\ Free >= 2
    /\ mem' = mem \o <<HdrOf(prod.f), PayOf(prod.f)>>
    /\ avail' = avail + 1
    /\ prod' = [prod EXCEPT !.at = "record"]
    /\ UNCHANGED <<todo, head, refused, recs, cons, delivered>>

\* A refused push clears the record; a header already pushed stays behind.
PushRefused ==
    /\ prod.at = "push" /\ Free < 2
    /\ mem' = IF Free = 1 THEN Append(mem, HdrOf(prod.f)) ELSE mem
    /\ refused' = (refused \/ Free = 1)
    /\ Zeroed(IdOf[prod.f[1]])
    /\ prod' = Idle
    /\ UNCHANGED <<todo, head, avail, cons, delivered>>

\* The header just pushed is the last but one item of the ring.
RecordWhole ==
    LET i == IdOf[prod.f[1]] IN
    /\ prod.at = "record" /\ PartsOf[prod.f[1]] = 1
    /\ data_length' = [data_length EXCEPT ![i] = 1]
    /\ data_progress' = [data_progress EXCEPT ![i] = 1]
    /\ prod' = Idle
    /\ UNCHANGED <<todo, ringv, dirty, last_pos, ring_addr, cons, delivered>>

RecordFirst ==
    LET i == IdOf[prod.f[1]] IN
    /\ prod.at = "record" /\ PartsOf[prod.f[1]] > 1 /\ prod.f[2] = 1
    /\ data_length' = [data_length EXCEPT ![i] = PartsOf[prod.f[1]]]
    /\ ring_addr' = [ring_addr EXCEPT ![i][0] = Len(mem) - 1]
    /\ data_progress' = [data_progress EXCEPT ![i] = @ + 1]
    /\ prod' = Idle
    /\ UNCHANGED <<todo, ringv, dirty, last_pos, cons, delivered>>

\* The progress is raised before the position is.
RecordOther ==
    LET i == IdOf[prod.f[1]]
        s == last_pos[i] + 1
    IN
    /\ prod.at = "record" /\ prod.f[2] > 1
    /\ ring_addr' = IF s \in Slots
                    THEN [ring_addr EXCEPT ![i][s] = Len(mem) - 1]
                    ELSE ring_addr
    /\ data_progress' = [data_progress EXCEPT ![i] = @ + 1]
    /\ prod' = [prod EXCEPT !.at = "advance"]
    /\ UNCHANGED <<todo, ringv, dirty, data_length, last_pos, cons, delivered>>

AdvancePosition ==
    /\ prod.at = "advance"
    /\ last_pos' = [last_pos EXCEPT ![IdOf[prod.f[1]]] = @ + 1]
    /\ prod' = Idle
    /\ UNCHANGED <<todo, ringv, dirty, data_length, data_progress, ring_addr,
                   cons, delivered>>

(***************************************************************************)
(* The forwarding thread.                                                  *)
(***************************************************************************)
Goto(at) == cons' = [at |-> at, hdr |-> IF at = "pop" THEN NoHdr ELSE cons.hdr]

\* A payload in the place of a header is refused by its size (the pop fails
\* and nothing else is taken) or by its mark (one more item is dropped).
PopHeader ==
    LET it == mem[head + 1] IN
    /\ cons.at = "pop" /\ avail > 0
    /\ avail' = avail - 1 /\ head' = head + 1
    /\ \/ it.kind = "pay" /\ cons' \in [at : {"pop", "ignore"}, hdr : {NoHdr}]
       \/ /\ it.kind = "hdr"
          /\ cons' = [at |-> IF dirty[IdOf[it.d]] THEN "wait" ELSE "ignore",
                      hdr |-> it]
    /\ UNCHANGED <<todo, mem, refused, recs, prod, delivered>>

HeldId == IdOf[cons.hdr.d]

\* The wait ends because the record is complete ...
WaitComplete ==
    /\ cons.at = "wait" /\ Complete(HeldId)
    /\ Goto(IF PartsOf[cons.hdr.d] = 1 THEN "take" ELSE "copy")
    /\ UNCHANGED <<todo, ringv, recs, prod, delivered>>

\* Mutant: The wait has no timeout.
WaitOverNever == cons.at = "wait" /\ data_progress[HeldId] > MaxFragments
                 /\ Goto("ignore") /\ Zeroed(HeldId)
                 /\ UNCHANGED <<todo, ringv, prod, delivered>>

\* ... or because the delay is over (or the progress is past the length):
\* the record is cleared and the part is dropped.
WaitOver ==
    /\ cons.at = "wait" /\ ~Complete(HeldId)
    /\ Zeroed(HeldId)
    /\ Goto("ignore")
    /\ UNCHANGED <<todo, ringv, prod, delivered>>

\* Mutant: The payload is looked up through the record, as for a fragmented datagram.
TakePayloadOfLast ==
    /\ cons.at = "take"
    /\ head' = head + 1
    /\ delivered' = Append(delivered,
          [d |-> cons.hdr.d, parts |-> {mem[Len(mem)]}])
    /\ Zeroed(HeldId)
    /\ Goto("pop")
    /\ UNCHANGED <<todo, mem, avail, refused, prod>>

\* A datagram that was not fragmented: its payload is the next item.
TakePayload ==
    /\ cons.at = "take"
    /\ IF head < Len(mem)
       THEN /\ head' = head + 1
            /\ delivered' = Append(delivered,
                   [d |-> cons.hdr.d, parts |-> {mem[head + 1]}])
       ELSE UNCHANGED <<head, delivered>>
    /\ Zeroed(HeldId)
    /\ Goto("pop")
    /\ UNCHANGED <<todo, mem, avail, refused, prod>>

\* cbuf_pked_blindcopy: an item is there until the ring has wrapped over it.
Intact(a) == a \in 1..Len(mem) /\ a + RingCap > Len(mem)
Addrs(i)  == {IF s \in Slots THEN ring_addr[i][s] ELSE 0 : s \in 0..last_pos[i]}

\* Mutant: The record of a forwarded datagram is left as it is.
CopyPartsKeepsRecord ==
    LET i == HeldId
        first == ring_addr[i][0]
    IN
    /\ cons.at = "copy"
    /\ delivered' = Append(delivered,
          [d |-> IF Intact(first) THEN mem[first].d ELSE Junk,
           parts |-> {mem[a + 1] : a \in {b \in Addrs(i) : Intact(b)}}])
    /\ Goto("own")
    /\ UNCHANGED <<todo, ringv, prod, recs>>

\* Every part is read back from its address; what was overwritten either has
\* a bad mark, and the datagram is dropped, or passes for a part.
CopyParts ==
    LET i == HeldId
        first == ring_addr[i][0]
    IN
    /\ cons.at = "copy"
    /\ \/ /\ delivered' = Append(delivered,
                [d |-> IF Intact(first) THEN mem[first].d ELSE Junk,
                 parts |-> {mem[a + 1] : a \in {b \in Addrs(i) : Intact(b)}}])
          /\ Goto("own")
       \/ /\ \E a \in Addrs(i) : ~Intact(a)
          /\ UNCHANGED delivered
          /\ Goto("ignore")
    /\ Zeroed(i)
    /\ UNCHANGED <<todo, ringv, prod>>

\* Mutant: A complete record is forwarded without dropping the header's own payload.
DropPayloadKeepsIt ==
    /\ cons.at \in {"own", "ignore"}
    /\ head' = IF cons.at = "ignore" /\ head < Len(mem) THEN head + 1 ELSE head
    /\ Goto("pop")
    /\ UNCHANGED <<todo, mem, avail, refused, recs, prod, delivered>>

\* The payload of the popped header: copied already, or ignored.
DropPayload ==
    /\ cons.at \in {"own", "ignore"}
    /\ head' = IF head < Len(mem) THEN head + 1 ELSE head
    /\ Goto("pop")
    /\ UNCHANGED <<todo, mem, avail, refused, recs, prod, delivered>>

Producer ==
    \/ \E f \in todo : \/ BadStructure(f) \/ ReceiveWhole(f)
                       \/ ReceiveMisplaced(f)
                       \/ \E expired \in BOOLEAN :
                             ReceiveFirst(f, expired) \/ ReceiveOther(f, expired)
    \/ Push \/ PushRefused
    \/ RecordWhole \/ RecordFirst \/ RecordOther \/ AdvancePosition

Consumer ==
    \/ PopHeader \/ WaitComplete \/ WaitOver
    \/ TakePayload \/ CopyParts \/ DropPayload

Next == Producer \/ Consumer

\* The forwarding thread runs until it is stopped; its wait is a timed one.
Spec == Init /\ [][Next]_vars /\ WF_vars(Consumer)

-----------------------------------------------------------------------------
(***************************************************************************)
(* Properties                                                              *)
(***************************************************************************)

\* The two threads agree on what an item of the ring is: unless a payload was
\* refused behind its header, the forwarding thread finds a header, followed
\* by its own payload, whenever it pops the next one, whatever way the
\* previous one was disposed of (poped_defraged_packet's five ways out).
Aligned ==
    ~refused /\ cons.at = "pop" =>
        /\ Len(mem) = head + 2 * avail
        /\ \A k \in 1..avail :
              LET h == mem[head + 2*k - 1] IN
              h.kind = "hdr" /\ mem[head + 2*k] = [h EXCEPT !.kind = "pay"]

\* A datagram that was not fragmented is forwarded with its own payload, even
\* when other datagrams with the same IP id are in the ring.
OwnPayload ==
    ~refused => \A n \in DOMAIN delivered :
        LET x == delivered[n] IN
        x.d \in {d \in Datagrams : PartsOf[d] = 1} =>
            x.parts = {PayOf(<<x.d, 1>>)}

\* The network delivers each fragment once, and then no datagram is forwarded
\* twice: the headers of a datagram that was forwarded find a cleared record.
ForwardedOnce ==
    \A m, n \in DOMAIN delivered :
        delivered[m].d = delivered[n].d /\ delivered[m].d # Junk => m = n

\* A missing fragment never stops the forwarding thread: it always gets back
\* to an empty ring.
KeepsUp == []<>(avail = 0 /\ cons.at = "pop")
=============================================================================

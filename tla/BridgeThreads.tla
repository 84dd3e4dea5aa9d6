---------------------------- MODULE BridgeThreads ----------------------------
(***************************************************************************)
(* The threads of the bridges and the ordered shutdown: who is started for *)
(* a bridge (apply_new_protocol_bridge_config), how the two kinds of       *)
(* receivers and the forwarding thread run and stop, and the callbacks of  *)
(* bcast_quit the signal thread walks through, from stop_input_udp down to *)
(* clean_globals (cleanup_priority_order).                                 *)
(*                                                                         *)
(* A capture bridge ("pcap") has a capture thread and a forwarding thread  *)
(* with the fast ring between them.  A socket bridge ("krnl") has a thread *)
(* that opens its sockets and a receiver that selects on them and hands    *)
(* what it reads to the outputs itself.  The waits of the shutdown are     *)
(* bounded by INFINITE_LOOP_GUARD; that bound is taken to be longer than   *)
(* any timed wait of the awaited thread, so that it runs out only when the *)
(* thread is not there or is blocked (Unanswered).                         *)
(***************************************************************************)
EXTENDS Integers, FiniteSets

CONSTANTS
    NB,         \* the number of bridges
    Kind,       \* [1..NB -> {"pcap", "krnl"}]
    NU,         \* sockets of a socket bridge
    RingCap,    \* packets the fast ring holds
    MaxPackets  \* bound: packets the network sends to each bridge

Bridges == 1..NB
Sockets == 1..NU

ASSUME ThreadsAssumption ==
    /\ NB \in Nat \ {0} /\ NU \in Nat \ {0}
    /\ RingCap \in Nat \ {0} /\ MaxPackets \in [Bridges -> Nat]
    /\ Kind \in [Bridges -> {"pcap", "krnl"}]

VARIABLES
    applied,            \* bridges apply_new_protocol_bridge_config has started
    post_cfg,           \* bafter_post_cfg_called
    rcv, fwd, con,      \* the threads of each bridge
    tcp, snd,           \* the connection thread, the relay that sends
    established,        \* [Bridges -> SUBSET Sockets]
    watched,            \* readfds
    pending,            \* sockets with unread packets
    sent,               \* packets the network sent to a bridge
    handle, breaking,   \* pcp_handle # NULL; pcap_breakloop was called
    stop_receiving, receive_stoped, stop_sending, send_stoped,
    ring,               \* packets in raw_xudp_cache
    destroyed,          \* cleanup_after_nomore_udp ran
    misused,            \* bridges whose ring or distributor was used after it
    registered,         \* registered_thread
    awaited,            \* what cleanup_threads waits for
    mtx, pm,            \* tcps_trd.mtx and pm_lock: the owner
    sig,                \* the signal thread: [at, b]
    quit,               \* quit_first_level_thread_3
    noloss,             \* quit_noloss_data_thread_4
    quit_app,           \* quit_app_4
    exited

start == <<applied, post_cfg>>
net   == <<established, watched, pending, sent>>
pcap  == <<handle, breaking>>
stops == <<stop_receiving, receive_stoped, stop_sending, send_stoped>>
data  == <<ring, destroyed, misused>>
reg   == <<registered, awaited>>
locks == <<mtx, pm>>
flags == <<quit, noloss, quit_app, exited>>
thr   == <<rcv, fwd, con, tcp, snd>>
vars  == <<start, thr, net, pcap, stops, data, reg, locks, sig, flags>>

RcvAt == {"none", "born", "waitcfg", "loop", "top", "select", "drain", "gone"}
FwdAt == {"none", "born", "outer", "inner", "have", "gone"}
ConAt == {"none", "born", "waitcfg", "connect", "gone"}
SigAt == {"wait", "break", "breaking", "stoprcv", "rcvstop", "stopsnd",
          "sndstop", "mtx", "pm", "unlock", "unlockagain", "destroy",
          "saved", "threads", "joining", "ignorable", "rest", "done"}
Thread == [k : {"rcv", "fwd", "con"}, b : Bridges] \cup [k : {"tcp", "snd"}, b : {0}]
T(k, b) == [k |-> k, b |-> b]
Free == "free"

TypeOK ==
    /\ applied \subseteq Bridges /\ post_cfg \in BOOLEAN
    /\ rcv \in [Bridges -> RcvAt] /\ fwd \in [Bridges -> FwdAt]
    /\ con \in [Bridges -> ConAt]
    /\ tcp \in {"none", "idle", "held", "gone"}
    /\ snd \in {"idle", "pm", "both", "gone"}
    /\ established \in [Bridges -> SUBSET Sockets]
    /\ watched \in [Bridges -> SUBSET Sockets]
    /\ pending \in [Bridges -> SUBSET Sockets]
    /\ sent \in [Bridges -> Nat]
    /\ handle \in [Bridges -> BOOLEAN] /\ breaking \in [Bridges -> BOOLEAN]
    /\ stop_receiving \in [Bridges -> BOOLEAN] /\ receive_stoped \in [Bridges -> BOOLEAN]
    /\ stop_sending \in [Bridges -> BOOLEAN] /\ send_stoped \in [Bridges -> BOOLEAN]
    /\ ring \in [Bridges -> 0..RingCap]
    /\ destroyed \subseteq Bridges /\ misused \subseteq Bridges
    /\ registered \subseteq Thread /\ awaited \subseteq Thread
    /\ mtx \in {Free, "tcp", "snd", "sig"} /\ pm \in {Free, "snd", "sig"}
    /\ sig \in [at : SigAt, b : 1..NB + 1]
    /\ quit \in BOOLEAN /\ noloss \in BOOLEAN /\ quit_app \in BOOLEAN
    /\ exited \in BOOLEAN

Init ==
    /\ applied = {} /\ post_cfg = FALSE
    /\ rcv = [b \in Bridges |-> "none"] /\ fwd = [b \in Bridges |-> "none"]
    /\ con = [b \in Bridges |-> "none"]
    /\ tcp = "none" /\ snd = "idle"
    /\ established = [b \in Bridges |-> {}] /\ watched = [b \in Bridges |-> {}]
    /\ pending = [b \in Bridges |-> {}] /\ sent = [b \in Bridges |-> 0]
    /\ handle = [b \in Bridges |-> FALSE] /\ breaking = [b \in Bridges |-> FALSE]
    /\ stop_receiving = [b \in Bridges |-> FALSE]
    /\ receive_stoped = [b \in Bridges |-> FALSE]
    /\ stop_sending = [b \in Bridges |-> FALSE]
    /\ send_stoped = [b \in Bridges |-> FALSE]
    /\ ring = [b \in Bridges |-> 0] /\ destroyed = {} /\ misused = {}
    /\ registered = {T("snd", 0)} /\ awaited = {}
    /\ mtx = Free /\ pm = Free
    /\ sig = [at |-> "wait", b |-> 1]
    /\ quit = FALSE /\ noloss = FALSE /\ quit_app = FALSE /\ exited = FALSE

(***************************************************************************)
(* Starting: the configuration thread applies the bridges one by one, then *)
(* publishes bcast_post_cfg and starts the connection thread.  It stops    *)
(* when it sees the quit flag.                                             *)
(***************************************************************************)
HasForwarder(b) == Kind[b] = "pcap"
HasConnector(b) == Kind[b] = "krnl"

Apply(b) ==
    /\ ~quit /\ b \notin applied /\ 1..b-1 \subseteq applied
    /\ applied' = applied \cup {b}
    /\ rcv' = [rcv EXCEPT ![b] = "born"]
    /\ fwd' = [fwd EXCEPT ![b] = IF HasForwarder(b) THEN "born" ELSE "none"]
    /\ con' = [con EXCEPT ![b] = IF HasConnector(b) THEN "born" ELSE "none"]
    /\ UNCHANGED <<post_cfg, tcp, snd, net, pcap, stops, data, reg, locks, sig, flags>>

PostConfig ==
    /\ ~quit /\ applied = Bridges /\ ~post_cfg
    /\ post_cfg' = TRUE
    /\ tcp' = "idle" /\ registered' = registered \cup {T("tcp", 0)}
    /\ UNCHANGED <<applied, rcv, fwd, con, snd, net, pcap, stops, data, awaited,
                   locks, sig, flags>>

\* A thread puts itself on the list first; receivers and connectors then wait
\* for post_cfg, the forwarding thread does not.
thread_registration(k, b) ==
    /\ registered' = registered \cup {T(k, b)}
    /\ UNCHANGED <<start, tcp, snd, net, pcap, stops, data, awaited, locks, sig, flags>>

CaptureStarts(b) ==
    /\ Kind[b] = "pcap" /\ rcv[b] = "born"
    /\ rcv' = [rcv EXCEPT ![b] = "waitcfg"] /\ UNCHANGED <<fwd, con>>
    /\ thread_registration("rcv", b)

SocketReceiverStarts(b) ==
    /\ Kind[b] = "krnl" /\ rcv[b] = "born"
    /\ rcv' = [rcv EXCEPT ![b] = "waitcfg"] /\ UNCHANGED <<fwd, con>>
    /\ thread_registration("rcv", b)

ForwarderStarts(b) ==
    /\ fwd[b] = "born"
    /\ fwd' = [fwd EXCEPT ![b] = "outer"] /\ UNCHANGED <<rcv, con>>
    /\ thread_registration("fwd", b)

ConnectorStarts(b) ==
    /\ con[b] = "born"
    /\ con' = [con EXCEPT ![b] = "waitcfg"] /\ UNCHANGED <<rcv, fwd>>
    /\ thread_registration("con", b)

\* connect_udps_proc opens the sockets in turn and gives up at the first
\* failure; thread_goes_out_of_scope takes the thread off the list.
ConnectUdp(b, ok) ==
    LET u == Cardinality(established[b]) + 1
        last == ~ok \/ u = NU
    IN
    /\ con[b] \in {"waitcfg", "connect"} /\ post_cfg
    /\ established' = [established EXCEPT ![b] = IF ok THEN @ \cup {u} ELSE @]
    /\ con' = [con EXCEPT ![b] = IF last THEN "gone" ELSE "connect"]
    /\ registered' = IF last THEN registered \ {T("con", b)} ELSE registered
    /\ UNCHANGED <<start, rcv, fwd, tcp, snd, watched, pending, sent, pcap, stops,
                   data, awaited, locks, sig, flags>>

(***************************************************************************)
(* Receivers.                                                              *)
(***************************************************************************)
\* A packet for a socket of a bridge, or for its capture device.
Arrives(b, u) ==
    /\ u \in established[b] /\ sent[b] < MaxPackets[b]
    /\ sent' = [sent EXCEPT ![b] = @ + 1]
    /\ pending' = [pending EXCEPT ![b] = @ \cup {u}]
    /\ UNCHANGED <<start, thr, established, watched, pcap, stops, data, reg, locks,
                   sig, flags>>

Leave(b) ==
    /\ rcv' = [rcv EXCEPT ![b] = "gone"]
    /\ receive_stoped' = [receive_stoped EXCEPT ![b] = TRUE]
    /\ registered' = registered \ {T("rcv", b)}

\* stablish_pcap_udp_connection: the device opens, or the thread is done.
PcapOpen(b, ok) ==
    /\ Kind[b] = "pcap" /\ rcv[b] = "waitcfg" /\ post_cfg
    /\ handle' = [handle EXCEPT ![b] = ok]
    /\ IF ok
       THEN /\ rcv' = [rcv EXCEPT ![b] = "loop"]
            /\ established' = [established EXCEPT ![b] = {1}]
            /\ UNCHANGED <<receive_stoped, registered>>
       ELSE Leave(b) /\ UNCHANGED established
    /\ UNCHANGED <<start, fwd, con, tcp, snd, watched, pending, sent, breaking,
                   stop_receiving, stop_sending, send_stoped, data, awaited, locks,
                   sig, flags>>

\* handle_pcap_udp_receiver: a packet is stored, or says that it is the end.
PcapPacket(b) ==
    /\ rcv[b] = "loop" /\ pending[b] # {}
    /\ pending' = [pending EXCEPT ![b] = {}]
    /\ IF stop_receiving[b]
       THEN /\ receive_stoped' = [receive_stoped EXCEPT ![b] = TRUE]
            /\ UNCHANGED <<ring, misused>>
       ELSE /\ ring' = [ring EXCEPT ![b] = IF @ < RingCap THEN @ + 1 ELSE @]
            /\ misused' = IF b \in destroyed THEN misused \cup {b} ELSE misused
            /\ UNCHANGED receive_stoped
    /\ UNCHANGED <<start, thr, established, watched, sent, pcap, stop_receiving,
                   stop_sending, send_stoped, destroyed, reg, locks, sig, flags>>

\* pcap_loop returns after pcap_breakloop; the handle is closed and cleared.
PcapBroken(b) ==
    /\ rcv[b] = "loop" /\ breaking[b]
    /\ handle' = [handle EXCEPT ![b] = FALSE]
    /\ Leave(b)
    /\ UNCHANGED <<start, fwd, con, tcp, snd, net, breaking, stop_receiving,
                   stop_sending, send_stoped, data, awaited, locks, sig, flags>>

SocketStep(b) ==
    UNCHANGED <<start, fwd, con, tcp, snd, established, sent, pcap, stop_receiving,
                stop_sending, send_stoped, ring, destroyed, awaited, locks, sig, flags>>

\* The receiver starts once post_cfg is set; the sockets that are open at
\* this moment are the only ones it will select on, and without one it ends.
SocketsOpen(b) ==
    /\ Kind[b] = "krnl" /\ rcv[b] = "waitcfg" /\ post_cfg
    /\ IF stop_receiving[b] \/ established[b] = {}
       THEN Leave(b) /\ UNCHANGED watched
       ELSE /\ rcv' = [rcv EXCEPT ![b] = "top"]
            /\ watched' = [watched EXCEPT ![b] = established[b]]
            /\ UNCHANGED <<receive_stoped, registered>>
    /\ UNCHANGED <<pending, misused>> /\ SocketStep(b)

SelectOrLeave(b) ==
    /\ rcv[b] = "top"
    /\ IF stop_receiving[b]
       THEN Leave(b)
       ELSE rcv' = [rcv EXCEPT ![b] = "select"] /\ UNCHANGED <<receive_stoped, registered>>
    /\ UNCHANGED <<watched, pending, misused>> /\ SocketStep(b)

\* select has no timeout, and overwrites readfds with the ready sockets.
Selected(b) ==
    /\ rcv[b] = "select" /\ pending[b] \cap watched[b] # {}
    /\ rcv' = [rcv EXCEPT ![b] = "drain"]
    /\ watched' = [watched EXCEPT ![b] = @ \cap pending[b]]
    /\ UNCHANGED <<pending, receive_stoped, registered, misused>> /\ SocketStep(b)

\* Every ready socket is read until it is empty; each packet is published.
Drain(b) ==
    /\ rcv[b] = "drain"
    /\ rcv' = [rcv EXCEPT ![b] = "top"]
    /\ pending' = [pending EXCEPT ![b] = @ \ watched[b]]
    /\ misused' = IF b \in destroyed THEN misused \cup {b} ELSE misused
    /\ UNCHANGED <<watched, receive_stoped, registered>> /\ SocketStep(b)

(***************************************************************************)
(* many_tcp_out_thread_proc: from the fast ring to the outputs.            *)
(***************************************************************************)
FwdStep(b) ==
    UNCHANGED <<start, rcv, con, tcp, snd, net, pcap, stop_receiving, receive_stoped,
                destroyed, awaited, locks, sig, flags>>

FwdOuter(b) ==
    /\ fwd[b] = "outer"
    /\ IF stop_sending[b]
       THEN /\ fwd' = [fwd EXCEPT ![b] = "gone"]
            /\ send_stoped' = [send_stoped EXCEPT ![b] = TRUE]
            /\ registered' = registered \ {T("fwd", b)}
       ELSE fwd' = [fwd EXCEPT ![b] = "inner"] /\ UNCHANGED <<send_stoped, registered>>
    /\ UNCHANGED <<stop_sending, ring, misused>> /\ FwdStep(b)

FwdPop(b) ==
    /\ fwd[b] = "inner"
    /\ fwd' = [fwd EXCEPT ![b] = IF ring[b] > 0 THEN "have" ELSE "outer"]
    /\ ring' = [ring EXCEPT ![b] = IF @ > 0 THEN @ - 1 ELSE @]
    /\ misused' = IF b \in destroyed THEN misused \cup {b} ELSE misused
    /\ UNCHANGED <<stop_sending, send_stoped, registered>> /\ FwdStep(b)

\* The packet just popped is dropped when the bridge is to stop.
FwdPublish(b) ==
    /\ fwd[b] = "have"
    /\ fwd' = [fwd EXCEPT ![b] = IF stop_sending[b] THEN "outer" ELSE "inner"]
    /\ misused' = IF b \in destroyed /\ ~stop_sending[b]
                  THEN misused \cup {b} ELSE misused
    /\ UNCHANGED <<stop_sending, send_stoped, ring, registered>> /\ FwdStep(b)

(***************************************************************************)
(* The users of the two locks the shutdown takes: the connection thread    *)
(* holds tcps_trd.mtx for a round, the relay takes pm_lock (timed) and then *)
(* tcps_trd.mtx for as long as it sends a packet.                          *)
(***************************************************************************)
LockStep == UNCHANGED <<start, rcv, fwd, con, net, pcap, stops, data, awaited, sig, flags>>

TcpRound ==
    /\ \/ /\ tcp = "idle" /\ ~quit /\ mtx = Free
          /\ tcp' = "held" /\ mtx' = "tcp" /\ UNCHANGED registered
       \/ /\ tcp = "held"
          /\ tcp' = "idle" /\ mtx' = Free /\ UNCHANGED registered
       \/ /\ tcp = "idle" /\ quit
          /\ tcp' = "gone" /\ registered' = registered \ {T("tcp", 0)}
          /\ UNCHANGED mtx
    /\ UNCHANGED <<snd, pm>> /\ LockStep

SndRound ==
    /\ \/ /\ snd = "idle" /\ ~noloss /\ pm = Free
          /\ snd' = "pm" /\ pm' = "snd" /\ UNCHANGED <<mtx, registered>>
       \/ /\ snd = "pm" /\ mtx = Free
          /\ snd' = "both" /\ mtx' = "snd" /\ UNCHANGED <<pm, registered>>
       \/ /\ snd = "both"
          /\ snd' = "idle" /\ mtx' = Free /\ pm' = Free /\ UNCHANGED registered
       \/ /\ snd = "idle" /\ noloss
          /\ snd' = "gone" /\ registered' = registered \ {T("snd", 0)}
          /\ UNCHANGED <<mtx, pm>>
    /\ UNCHANGED tcp /\ LockStep

(***************************************************************************)
(* The signal thread.  Each phase runs over the bridges that were applied. *)
(***************************************************************************)
Go(at)      == sig' = [sig EXCEPT !.at = at]
NextIn(at, done) ==
    sig' = IF sig.b < Cardinality(applied)
           THEN [at |-> at, b |-> sig.b + 1] ELSE [at |-> done, b |-> 1]
SigStep     == UNCHANGED <<start, thr, net, handle, receive_stoped, send_stoped, ring,
                           misused, registered, exited>>

\* Without an applied bridge the phases that run over them have nothing to do.
SigInt ==
    /\ sig.at = "wait"
    /\ quit' = TRUE
    /\ Go(IF applied = {} THEN "saved" ELSE "break")
    /\ UNCHANGED <<breaking, stop_receiving, stop_sending, destroyed, awaited, locks,
                   noloss, quit_app>> /\ SigStep

\* stop_input_udp: the capture threads that have subscribed are broken off.
BreakLoop ==
    /\ sig.at = "break"
    /\ IF handle[sig.b]
       THEN breaking' = [breaking EXCEPT ![sig.b] = TRUE] /\ Go("breaking")
       ELSE NextIn("break", "stoprcv") /\ UNCHANGED breaking
    /\ UNCHANGED <<stop_receiving, stop_sending, destroyed, awaited, locks, quit,
                   noloss, quit_app>> /\ SigStep

LoopBroken ==
    /\ sig.at = "breaking" /\ ~handle[sig.b]
    /\ NextIn("break", "stoprcv")
    /\ UNCHANGED <<breaking, stop_receiving, stop_sending, destroyed, awaited, locks,
                   quit, noloss, quit_app>> /\ SigStep

\* bridge_insure_input_bus_stoping: flag, then wait for the answer.
StopReceiving ==
    /\ sig.at = "stoprcv"
    /\ stop_receiving' = [stop_receiving EXCEPT ![sig.b] = TRUE]
    /\ Go("rcvstop")
    /\ UNCHANGED <<breaking, stop_sending, destroyed, awaited, locks, quit, noloss,
                   quit_app>> /\ SigStep

\* The guard runs out on a receiver that has not started, on one that is
\* blocked, and on a capture thread that opened its device too late to be
\* broken off and gets no packet.
RcvUnanswered(b) == rcv[b] \in {"born", "waitcfg", "select", "loop"}

ReceiveStoped ==
    /\ sig.at = "rcvstop"
    /\ receive_stoped[sig.b] \/ RcvUnanswered(sig.b)
    /\ NextIn("stoprcv", "stopsnd")
    /\ UNCHANGED <<breaking, stop_receiving, stop_sending, destroyed, awaited, locks,
                   quit, noloss, quit_app>> /\ SigStep

\* try_stoping_sending_from_bridge.
StopSending ==
    /\ sig.at = "stopsnd"
    /\ stop_sending' = [stop_sending EXCEPT ![sig.b] = TRUE]
    /\ Go("sndstop")
    /\ UNCHANGED <<breaking, stop_receiving, destroyed, awaited, locks, quit, noloss,
                   quit_app>> /\ SigStep

\* A socket bridge has no forwarding thread that could answer.
SndUnanswered(b) == fwd[b] \in {"none", "born"}

\* Mutant: the forwarding thread is told to stop and not waited for.
SendStopedUnwaited ==
    /\ sig.at = "sndstop" /\ Go("mtx")
    /\ UNCHANGED <<breaking, stop_receiving, stop_sending, destroyed, awaited, locks,
                   quit, noloss, quit_app>> /\ SigStep

SendStoped ==
    /\ sig.at = "sndstop"
    /\ send_stoped[sig.b] \/ SndUnanswered(sig.b)
    /\ Go("mtx")
    /\ UNCHANGED <<breaking, stop_receiving, stop_sending, destroyed, awaited, locks,
                   quit, noloss, quit_app>> /\ SigStep

\* Ten timed attempts at tcps_trd.mtx; without it the bridge is passed over.
TakeMtx ==
    /\ sig.at = "mtx"
    /\ IF mtx = Free THEN mtx' = "sig" /\ Go("pm")
                     ELSE NextIn("stopsnd", "destroy") /\ UNCHANGED mtx
    /\ UNCHANGED <<breaking, stop_receiving, stop_sending, destroyed, awaited, pm,
                   quit, noloss, quit_app>> /\ SigStep

\* Mutant: pm_lock is waited for without a bound.
TakePmWaits ==
    /\ sig.at = "pm" /\ pm = Free
    /\ pm' = "sig" /\ Go("unlock")
    /\ UNCHANGED <<breaking, stop_receiving, stop_sending, destroyed, awaited, mtx,
                   quit, noloss, quit_app>> /\ SigStep

\* Ten timed attempts at pm_lock, which is never given back: the outputs are
\* closed by the one bridge that gets it.
TakePm ==
    /\ sig.at = "pm"
    /\ IF pm = Free THEN pm' = "sig" /\ Go("unlock")
                    ELSE Go("unlockagain") /\ UNCHANGED pm
    /\ UNCHANGED <<breaking, stop_receiving, stop_sending, destroyed, awaited, mtx,
                   quit, noloss, quit_app>> /\ SigStep

\* After the closing tcps_trd.mtx is unlocked, and then once more, whoever
\* holds it by then.
UnlockMtx ==
    /\ \/ sig.at = "unlock" /\ Go("unlockagain")
       \/ sig.at = "unlockagain" /\ NextIn("stopsnd", "destroy")
    /\ mtx' = Free
    /\ UNCHANGED <<breaking, stop_receiving, stop_sending, destroyed, awaited, pm,
                   quit, noloss, quit_app>> /\ SigStep

\* cleanup_after_nomore_udp: ring, defragmentator and distributors go.
DestroyInput ==
    /\ sig.at = "destroy"
    /\ destroyed' = destroyed \cup {sig.b}
    /\ NextIn("destroy", "saved")
    /\ UNCHANGED <<breaking, stop_receiving, stop_sending, awaited, locks, quit, noloss,
                   quit_app>> /\ SigStep

\* inmem_seg_cleaned_up, after the packets of the segments are saved.
SegmentsCleaned ==
    /\ sig.at = "saved"
    /\ noloss' = TRUE
    /\ Go("threads")
    /\ UNCHANGED <<breaking, stop_receiving, stop_sending, destroyed, awaited, locks,
                   quit, quit_app>> /\ SigStep

Sticky == [k : {"rcv"}, b : {x \in Bridges : Kind[x] = "pcap"}]

\* Mutant: the bridges' own threads are not waited for.
CleanupThreadsOfGlobals ==
    /\ sig.at = "threads"
    /\ awaited' = registered \cap [k : {"tcp", "snd"}, b : {0}]
    /\ Go("joining")
    /\ UNCHANGED <<breaking, stop_receiving, stop_sending, destroyed, locks, quit,
                   noloss, quit_app>> /\ SigStep

\* cleanup_threads counts the list once, so that a thread that registers
\* later is not waited for, and passes over the capture threads.
CleanupThreads ==
    /\ sig.at = "threads"
    /\ awaited' = registered \ Sticky
    /\ Go("joining")
    /\ UNCHANGED <<breaking, stop_receiving, stop_sending, destroyed, locks, quit,
                   noloss, quit_app>> /\ SigStep

ThreadsGone ==
    /\ sig.at = "joining" /\ awaited \cap registered = {}
    /\ Go("ignorable")
    /\ UNCHANGED <<breaking, stop_receiving, stop_sending, destroyed, awaited, locks,
                   quit, noloss, quit_app>> /\ SigStep

\* ignore_cleanup: from here on the program may end at any time.
IgnoreCleanup ==
    /\ sig.at = "ignorable"
    /\ quit_app' = TRUE
    /\ Go("rest")
    /\ UNCHANGED <<breaking, stop_receiving, stop_sending, destroyed, awaited, locks,
                   quit, noloss>> /\ SigStep

\* cleanup_bridges, cleanup_globals and the end of signal_thread.
CleanupRest ==
    /\ sig.at = "rest" /\ ~exited
    /\ Go("done")
    /\ UNCHANGED <<breaking, stop_receiving, stop_sending, destroyed, awaited, locks,
                   quit, noloss, quit_app>> /\ SigStep

\* The watchdog ends, main joins it and calls _exit.
Exit ==
    /\ quit_app /\ ~exited
    /\ exited' = TRUE
    /\ UNCHANGED <<start, thr, net, pcap, stops, data, reg, locks, sig, quit, noloss,
                   quit_app>>

Signal ==
    \/ BreakLoop \/ LoopBroken \/ StopReceiving \/ ReceiveStoped \/ StopSending
    \/ SendStoped \/ TakeMtx \/ TakePm \/ UnlockMtx \/ DestroyInput
    \/ SegmentsCleaned \/ CleanupThreads \/ ThreadsGone \/ IgnoreCleanup
    \/ CleanupRest

CaptureRuns(b) ==
    \/ CaptureStarts(b) \/ PcapOpen(b, TRUE) \/ PcapOpen(b, FALSE)
    \/ PcapPacket(b) \/ PcapBroken(b)

SocketRuns(b) ==
    \/ SocketReceiverStarts(b) \/ SocketsOpen(b) \/ SelectOrLeave(b)
    \/ Selected(b) \/ Drain(b)

ReceiverRuns(b) == CaptureRuns(b) \/ SocketRuns(b)

ConnectorRuns(b) ==
    ConnectorStarts(b) \/ ConnectUdp(b, TRUE) \/ ConnectUdp(b, FALSE)

ForwarderRuns(b) ==
    ForwarderStarts(b) \/ FwdOuter(b) \/ FwdPop(b) \/ FwdPublish(b)

Next ==
    \/ PostConfig \/ SigInt \/ Signal \/ Exit \/ TcpRound \/ SndRound
    \/ \E b \in Bridges : \/ Apply(b) \/ ReceiverRuns(b) \/ ConnectorRuns(b)
                          \/ ForwarderRuns(b)
                          \/ \E u \in Sockets : Arrives(b, u)

\* Every thread is scheduled; nothing is assumed of the network, of the user
\* or of the configuration thread.
Fairness ==
    /\ WF_vars(Signal) /\ WF_vars(Exit) /\ WF_vars(TcpRound) /\ WF_vars(SndRound)
    /\ \A b \in Bridges : /\ WF_vars(ReceiverRuns(b)) /\ WF_vars(ConnectorRuns(b))
                          /\ WF_vars(ForwarderRuns(b))

Spec == Init /\ [][Next]_vars /\ Fairness

-----------------------------------------------------------------------------
(***************************************************************************)
(* Properties                                                              *)
(***************************************************************************)
\* The ring, the defragmentator and the distributors of a capture bridge are
\* destroyed only when neither its capture thread nor its forwarding thread
\* will use them again (getting_new_udp_stoped comes after both stops).
CaptureTornDownQuiet == \A b \in misused : Kind[b] # "pcap"

\* When the program ends no thread but a capture thread is at work: none
\* forwards, selects, reads, sends or connects.  It takes cleanup_threads for
\* those on its list and the flags set before it for those that registered
\* too late to be on it.
NoWorkAtExit ==
    exited =>
        /\ \A b \in Bridges : /\ fwd[b] \notin {"inner", "have"}
                              /\ rcv[b] \notin {"top", "select", "drain"}
        /\ tcp # "held" /\ snd = "gone"

\* After a signal the program ends, although pm_lock is kept and the waits
\* run out, unless a thread is left that waits for a packet or for the
\* configuration that will not come any more.
Quits ==
    <>quit => \/ <>exited
              \/ <>[](\E b \in Bridges : rcv[b] \in {"select", "waitcfg"}
                                          \/ con[b] = "waitcfg")
=============================================================================

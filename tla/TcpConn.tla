------------------------------ MODULE TcpConn ------------------------------
(***************************************************************************)
(* The output connections (globals.c, packet_mngr.c).                      *)
(*                                                                         *)
(* thread_tcp_connection_proc walks over the outputs, probes the idle ones *)
(* and connects the closed ones. A sending thread (the RAM sender or the   *)
(* discharger, one at a time because of pm_lock) closes an output whose    *)
(* write found no peer. The two share tcp_conn_established and             *)
(* tcp_is_about_to_connect: the connection thread holds tcps_trd.mtx, the  *)
(* sender only pm_lock, so their accesses interleave freely.               *)
(*                                                                         *)
(* An output stands for the main_instance of a TCP configuration; a sender *)
(* reaches it through this. tcps_write, tcps_close, tcps_connect_2_server, *)
(* tcps_connect_curl and peek_socket_connection are external.              *)
(***************************************************************************)
EXTENDS Integers

CONSTANTS
    M,          \* number of outputs, in the order the thread walks over them
    Curl,       \* outputs of type tcph_curl; the others are tcph_tcp
    MaxOut      \* bound: connected_tcp_out is counted up to here

ASSUME TcpAssumption ==
    /\ M \in Nat \ {0}
    /\ Curl \subseteq 1..M
    /\ MaxOut \in Nat \ {0}

Outputs == 1..M

VARIABLES
    est,                    \* tcp_h.tcp_conn_established
    flag,                   \* tcp_is_about_to_connect
    idle,                   \* last_action_ts is older than the idle timeout
    known,                  \* the output is in map_tcp_socket
    connected_tcp_out,
    cpc, itcp,              \* the connection thread, and its loop variable
    spc, ptcp,              \* the sending thread, and the output it writes to
    up,                     \* the server accepts connections
    peer,                   \* the other end of the present connection
    block_sending_1

shared == <<est, flag, idle, known, connected_tcp_out>>
conn   == <<cpc, itcp>>
snd    == <<spc, ptcp>>
net    == <<up, peer>>
vars   == <<shared, conn, snd, net, block_sending_1>>

ConnLoc == {"sleep", "look", "peek", "mark", "close", "connect", "clear",
            "publish", "ended"}

\* A peer that went away swallows one more write before writes fail.
Peer == {"alive", "closed", "reset"}

TypeOK ==
    /\ est \in [Outputs -> BOOLEAN]
    /\ flag \in [Outputs -> BOOLEAN]
    /\ idle \in [Outputs -> BOOLEAN]
    /\ known \in [Outputs -> BOOLEAN]
    /\ connected_tcp_out \in 0..MaxOut
    /\ cpc \in ConnLoc
    /\ itcp \in Outputs
    /\ spc \in {"idle", "check", "set", "close", "slow"}
    /\ ptcp \in Outputs
    /\ up \in [Outputs -> BOOLEAN]
    /\ peer \in [Outputs -> Peer]
    /\ block_sending_1 \in BOOLEAN

\* Every field is zero, so that the first probe finds every output idle.
Init ==
    /\ est = [t \in Outputs |-> FALSE]
    /\ flag = [t \in Outputs |-> FALSE]
    /\ idle = [t \in Outputs |-> TRUE]
    /\ known = [t \in Outputs |-> FALSE]
    /\ connected_tcp_out = 0
    /\ cpc = "sleep"
    /\ itcp = 1
    /\ spc = "idle"
    /\ ptcp = 1
    /\ up \in [Outputs -> BOOLEAN]
    /\ peer = [t \in Outputs |-> "closed"]
    /\ block_sending_1 = FALSE

-----------------------------------------------------------------------------
(* The connection thread.                                                  *)

\* Mutant: the loop runs one output too far.
Continue_OffByOne(i) ==
    IF i <= M THEN cpc' = "look" /\ itcp' = i + 1
    ELSE cpc' = "sleep" /\ itcp' = 1

\* itcp++ and the test of the loop.
Continue(i) ==
    IF i < M THEN cpc' = "look" /\ itcp' = i + 1
    ELSE cpc' = "sleep" /\ itcp' = 1

\* A new pass, unless GRACEFULLY_END_THREAD, whose flag is set some time
\* after block_sending_1.
ConnPass ==
    /\ cpc = "sleep"
    /\ cpc' \in {"look"} \cup (IF block_sending_1 THEN {"ended"} ELSE {})
    /\ UNCHANGED <<shared, itcp, snd, net, block_sending_1>>

\* An established tcph_tcp output that is idle and not about to connect is
\* probed, after its last_action_ts has been set to now.
ConnProbe ==
    /\ cpc = "look"
    /\ itcp \notin Curl /\ est[itcp] /\ ~block_sending_1
    /\ ~flag[itcp] /\ idle[itcp]
    /\ idle' = [idle EXCEPT ![itcp] = FALSE]
    /\ cpc' = "peek"
    /\ UNCHANGED <<est, flag, known, connected_tcp_out, itcp, snd, net,
                   block_sending_1>>

ConnSkip ==
    /\ cpc = "look"
    /\ est[itcp]
    /\ itcp \in Curl \/ block_sending_1 \/ flag[itcp] \/ ~idle[itcp]
    /\ Continue(itcp)
    /\ UNCHANGED <<shared, snd, net, block_sending_1>>

\* Mutant: an output that is about to connect is left to whoever marked it.
ConnClosed_NotMarked ==
    /\ cpc = "look"
    /\ ~est[itcp]
    /\ IF flag[itcp] THEN Continue(itcp) ELSE cpc' = "connect" /\ UNCHANGED itcp
    /\ UNCHANGED <<shared, snd, net, block_sending_1>>

ConnClosed ==
    /\ cpc = "look"
    /\ ~est[itcp]
    /\ cpc' = "connect"
    /\ UNCHANGED <<shared, itcp, snd, net, block_sending_1>>

\* peek_socket_connection; the sender may have closed the socket meanwhile.
ConnPeek ==
    /\ cpc = "peek"
    /\ IF est[itcp] /\ peer[itcp] = "alive"
       THEN Continue(itcp)
       ELSE cpc' = "mark" /\ UNCHANGED itcp
    /\ UNCHANGED <<shared, snd, net, block_sending_1>>

ConnMark ==
    /\ cpc = "mark"
    /\ flag' = [flag EXCEPT ![itcp] = TRUE]
    /\ cpc' = "close"
    /\ UNCHANGED <<est, idle, known, connected_tcp_out, itcp, snd, net,
                   block_sending_1>>

\* tcps_close; itcp = 0 and continue, so that the walk starts over at the
\* second output.
ConnClose ==
    /\ cpc = "close"
    /\ est' = [est EXCEPT ![itcp] = FALSE]
    /\ Continue(1)
    /\ UNCHANGED <<flag, idle, known, connected_tcp_out, snd, net,
                   block_sending_1>>

\* connect_one_tcp tries once.
ConnTry ==
    /\ cpc = "connect"
    /\ IF up[itcp]
       THEN /\ est' = [est EXCEPT ![itcp] = TRUE]
            /\ peer' = [peer EXCEPT ![itcp] = "alive"]
            /\ cpc' = IF itcp \in Curl THEN "publish" ELSE "clear"
            /\ UNCHANGED itcp
       ELSE Continue(itcp) /\ UNCHANGED <<est, peer>>
    /\ UNCHANGED <<flag, idle, known, connected_tcp_out, snd, up,
                   block_sending_1>>

\* Mutant: the mark stays after the connection is made.
ConnClear_Kept ==
    /\ cpc = "clear"
    /\ cpc' = "publish"
    /\ UNCHANGED <<shared, itcp, snd, net, block_sending_1>>

\* Only the tcph_tcp branch comes here.
ConnClear ==
    /\ cpc = "clear"
    /\ flag' = [flag EXCEPT ![itcp] = FALSE]
    /\ cpc' = "publish"
    /\ UNCHANGED <<est, idle, known, connected_tcp_out, itcp, snd, net,
                   block_sending_1>>

\* tcp_connected or outcomm_connected, and through it tcp_state_changed.
\* Nothing publishes the matching disconnected events.
ConnPublish ==
    /\ cpc = "publish"
    /\ known' = [known EXCEPT ![itcp] = TRUE]
    /\ connected_tcp_out' = IF connected_tcp_out < MaxOut
                            THEN connected_tcp_out + 1 ELSE MaxOut
    /\ Continue(itcp)
    /\ UNCHANGED <<est, flag, idle, snd, net, block_sending_1>>

Connection ==
    \/ ConnPass \/ ConnProbe \/ ConnSkip \/ ConnClosed \/ ConnPeek
    \/ ConnMark \/ ConnClose \/ ConnTry \/ ConnClear \/ ConnPublish

-----------------------------------------------------------------------------
(* send_segment_itm: the fast method for an output in map_tcp_socket, the  *)
(* slow one for an output that was not there; what they do to the packet   *)
(* is in PacketMngr.                                                       *)

\* tcps_write succeeds: last_action_ts is now.
SndWritten ==
    \E t \in Outputs :
        /\ spc = "idle" /\ ~block_sending_1
        /\ known[t] /\ est[t] /\ peer[t] # "reset"
        /\ idle' = [idle EXCEPT ![t] = FALSE]
        /\ peer' = [peer EXCEPT ![t] = IF @ = "closed" THEN "reset" ELSE @]
        /\ UNCHANGED <<est, flag, known, connected_tcp_out, conn, snd, up,
                       block_sending_1>>

\* errNoPeer or errPeerClosed.
SndNoPeer ==
    \E t \in Outputs :
        /\ spc = "idle" /\ ~block_sending_1
        /\ known[t] /\ (~est[t] \/ peer[t] # "alive")
        /\ ptcp' = t
        /\ spc' = "check"
        /\ UNCHANGED <<shared, conn, net, block_sending_1>>

SndCheck ==
    /\ spc = "check"
    /\ spc' = IF flag[ptcp] THEN "idle" ELSE "set"
    /\ UNCHANGED <<shared, conn, ptcp, net, block_sending_1>>

SndSet ==
    /\ spc = "set"
    /\ flag' = [flag EXCEPT ![ptcp] = TRUE]
    /\ spc' = "close"
    /\ UNCHANGED <<est, idle, known, connected_tcp_out, conn, ptcp, net,
                   block_sending_1>>

\* Mutant: the output is marked but its socket stays open.
SndClose_Open ==
    /\ spc = "close"
    /\ spc' = "idle"
    /\ UNCHANGED <<shared, conn, ptcp, net, block_sending_1>>

SndClose ==
    /\ spc = "close"
    /\ est' = [est EXCEPT ![ptcp] = FALSE]
    /\ spc' = "idle"
    /\ UNCHANGED <<flag, idle, known, connected_tcp_out, conn, ptcp, net,
                   block_sending_1>>

\* The output is not in the map, but some output is connected.
SndMiss ==
    \E t \in Outputs :
        /\ spc = "idle" /\ ~block_sending_1
        /\ ~known[t] /\ connected_tcp_out > 0
        /\ ptcp' = t
        /\ spc' = "slow"
        /\ UNCHANGED <<shared, conn, net, block_sending_1>>

\* The slow method waits for tcps_trd.mtx, so that the connection thread is
\* between two passes. The output may have been connected by then.
SndSlow ==
    /\ spc = "slow" /\ cpc \in {"sleep", "ended"}
    /\ spc' = "idle"
    /\ \/ /\ ~est[ptcp]
          /\ UNCHANGED <<shared, peer>>
       \/ /\ est[ptcp] /\ peer[ptcp] # "reset"
          /\ idle' = [idle EXCEPT ![ptcp] = FALSE]
          /\ known' = [known EXCEPT ![ptcp] = TRUE]
          /\ peer' = [peer EXCEPT ![ptcp] = IF @ = "closed" THEN "reset" ELSE @]
          /\ UNCHANGED <<est, flag, connected_tcp_out>>
       \/ /\ est[ptcp] /\ peer[ptcp] # "alive"
          /\ est' = [est EXCEPT ![ptcp] = flag[ptcp]]
          /\ flag' = [flag EXCEPT ![ptcp] = TRUE]
          /\ UNCHANGED <<idle, known, connected_tcp_out, peer>>
    /\ UNCHANGED <<conn, ptcp, up, block_sending_1>>

SndReact == SndCheck \/ SndSet \/ SndClose \/ SndSlow

-----------------------------------------------------------------------------
(* The network, the clock and the user.                                    *)

PeerCloses ==
    \E t \in Outputs :
        /\ est[t] /\ peer[t] = "alive"
        /\ peer' = [peer EXCEPT ![t] = "closed"]
        /\ UNCHANGED <<shared, conn, snd, up, block_sending_1>>

ServerToggles ==
    \E t \in Outputs :
        /\ up' = [up EXCEPT ![t] = ~@]
        /\ UNCHANGED <<shared, conn, snd, peer, block_sending_1>>

\* retry_on_idle_tcp_conn_after_timeout_sec passes.
IdlePasses(t) ==
    /\ ~idle[t]
    /\ idle' = [idle EXCEPT ![t] = TRUE]
    /\ UNCHANGED <<est, flag, known, connected_tcp_out, conn, snd, net,
                   block_sending_1>>

SigInt ==
    /\ ~block_sending_1
    /\ block_sending_1' = TRUE
    /\ UNCHANGED <<shared, conn, snd, net>>

Next ==
    \/ Connection
    \/ SndWritten \/ SndNoPeer \/ SndMiss \/ SndReact
    \/ PeerCloses \/ ServerToggles \/ SigInt
    \/ \E t \in Outputs : IdlePasses(t)

\* Both threads run and time passes; packets, servers and the user owe nothing.
Fairness ==
    /\ WF_vars(Connection)
    /\ WF_vars(SndReact)
    /\ \A t \in Outputs : WF_vars(IdlePasses(t))

Spec == Init /\ [][Next]_vars /\ Fairness

-----------------------------------------------------------------------------
(* Properties.                                                             *)

\* An established tcph_tcp output that is marked as about to connect would be
\* neither probed nor closed by anyone: it is only ever in that state while
\* one of the threads is about to close it or to clear the mark.
NeverStuck ==
    \A t \in Outputs \ Curl : est[t] /\ flag[t] =>
        \/ spc = "close" /\ ptcp = t
        \/ cpc \in {"close", "clear"} /\ itcp = t

\* The server of t comes back for good and the program is not ended.
Settled(t) == <>[](up[t] /\ ~block_sending_1)

\* However the two threads interleave, a tcph_tcp output whose server is there
\* has a live connection again and again, with or without traffic.
Reconnects ==
    \A t \in Outputs : t \notin Curl /\ Settled(t) => []<>(est[t] /\ peer[t] = "alive")

\* "when tring to connect no more try should be attempt" (Bridge.h): the mark
\* stands for an attempt, and an attempt at a server that is there ends.
AttemptCompletes ==
    \A t \in Outputs : Settled(t) => (flag[t] ~> ~flag[t])
=============================================================================

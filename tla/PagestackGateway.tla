-------------------------- MODULE PagestackGateway --------------------------
(***************************************************************************)
(* The gateway that decides whether stored packets may leave the page      *)
(* stack: pagestack_gateway_open_val and pagestack_gateway_open_sem.       *)
(*                                                                         *)
(* Three threads share it without a lock:                                  *)
(*   - the RAM sender, process_filled_tcp_segment_proc, opens the gateway  *)
(*     when it has no segment to send (or the stored packets are newer),   *)
(*     and closes it when it takes a segment;                              *)
(*   - the discharger, discharge_persistant_cache_proc, sleeps on the      *)
(*     semaphore and pops stored packets while the gateway is open;        *)
(*   - the shutdown callback try_stop_sending_from_cach_mgr closes it and  *)
(*     kicks the semaphore until the discharger answers gws_die.           *)
(* Every read and every write of the gateway is a step of its own.         *)
(***************************************************************************)
EXTENDS Integers

CONSTANTS
    SEM_VALUE_MAX,   \* sem_post beyond it fails and leaves the semaphore alone
    MaxFilled,       \* bound: filled segments waiting in harbor_memory
    MaxStored        \* bound: packets in the page stack

ASSUME GatewayAssumption ==
    /\ SEM_VALUE_MAX \in Nat \ {0}
    /\ MaxFilled \in Nat
    /\ MaxStored \in Nat

gws_die          == -1
gws_close        == 0
gws_still_active == gws_close
gws_open         == 1

VARIABLES
    gateway,        \* pagestack_gateway_open_val
    sem,            \* value of pagestack_gateway_open_sem
    filled,         \* number of filled segments in harbor_memory
    stored,         \* number of packets in the page stack
    memmapFirst,    \* latest_huge_memory_time < latest_memmap_time, both set
    overload,       \* sampling_threshold_stage >= prss_skip_section
    snd,            \* where the RAM sender is
    dis,            \* where the discharger is
    sig,            \* where the shutdown thread is
    block_sending_1, quit_first_level_thread_3, quit_noloss_data_thread_4

queues  == <<filled, stored, memmapFirst, overload>>
cmd     == <<block_sending_1, quit_first_level_thread_3,
             quit_noloss_data_thread_4>>
gate    == <<gateway, sem>>
vars    == <<gate, queues, snd, dis, sig, cmd>>

SndLoc == {"loop", "popped", "closing", "segment", "peek", "open", "post",
           "exit", "exitclose", "done"}
DisLoc == {"top", "wait", "gate", "pop", "relay", "empty", "emptied",
           "dying", "dead"}
SigLoc == {"run", "flags", "drain", "assign", "close", "test", "kick",
           "stopped", "finished"}

TypeOK ==
    /\ gateway \in {gws_die, gws_close, gws_open}
    /\ sem \in 0..SEM_VALUE_MAX
    /\ filled \in 0..MaxFilled
    /\ stored \in 0..MaxStored
    /\ memmapFirst \in BOOLEAN
    /\ overload \in BOOLEAN
    /\ snd \in SndLoc
    /\ dis \in DisLoc
    /\ sig \in SigLoc
    /\ block_sending_1 \in BOOLEAN
    /\ quit_first_level_thread_3 \in BOOLEAN
    /\ quit_noloss_data_thread_4 \in BOOLEAN

Init ==
    /\ gateway = gws_close
    /\ sem = 0
    /\ filled = 0
    /\ stored \in 0..MaxStored     \* pg_stk_init opens what earlier runs left
    /\ memmapFirst = FALSE
    /\ overload = FALSE
    /\ snd = "loop"
    /\ dis = "top"
    /\ sig = "run"
    /\ block_sending_1 = FALSE
    /\ quit_first_level_thread_3 = FALSE
    /\ quit_noloss_data_thread_4 = FALSE

\* Mutant: the semaphore counts past its limit.
sem_post_Unbounded == sem' = sem + 1

sem_post == sem' = IF sem < SEM_VALUE_MAX THEN sem + 1 ELSE sem

-----------------------------------------------------------------------------
(* Input, and the sampler that rates the load every second.                *)

\* fast_ring_2_huge_ring overflows the active segment: the new segment
\* resets latest_huge_memory_time.
SegmentFilled ==
    /\ sig \in {"run", "flags", "drain"}
    /\ ~overload
    /\ filled < MaxFilled
    /\ filled' = filled + 1
    /\ memmapFirst' = FALSE
    /\ UNCHANGED <<gate, stored, overload, snd, dis, sig, cmd>>

\* try_release_halffill_segment closes the active segment: from its thread,
\* or from the quit callback after try_stop_sending_from_cach_mgr returned.
HalffillReleased ==
    /\ sig \in {"run", "flags", "drain", "stopped"}
    /\ filled < MaxFilled
    /\ filled' = filled + 1
    /\ UNCHANGED <<gate, stored, memmapFirst, overload, snd, dis, sig, cmd>>

\* sampling_filled_segment_count chooses another stage.
StageSampled ==
    /\ sig # "finished"
    /\ overload' = ~overload
    /\ UNCHANGED <<gate, filled, stored, memmapFirst, snd, dis, sig, cmd>>

-----------------------------------------------------------------------------
(* The RAM sender.                                                         *)

\* The condition under which the loop looks at the segments first.
RamFirst == ~memmapFirst \/ block_sending_1 \/ overload

SndQuit ==
    /\ snd = "loop"
    /\ quit_noloss_data_thread_4
    /\ snd' = "exit"
    /\ UNCHANGED <<gate, queues, dis, sig, cmd>>

SndPop ==
    /\ snd = "loop"
    /\ ~quit_noloss_data_thread_4
    /\ RamFirst
    /\ filled > 0
    /\ filled' = filled - 1
    /\ snd' = "popped"
    /\ UNCHANGED <<gate, stored, memmapFirst, overload, dis, sig, cmd>>

\* No segment, or the stored packets are newer: both branches go on to
\* look at the gateway.
SndYield ==
    /\ snd = "loop"
    /\ ~quit_noloss_data_thread_4
    /\ ~RamFirst \/ filled = 0
    /\ snd' = "peek"
    /\ UNCHANGED <<gate, queues, dis, sig, cmd>>

\* tmp_old = pagestack_gateway_open_val; if ( !tmp_old ).
SndPeek ==
    /\ snd = "peek"
    /\ snd' = IF gateway = gws_close THEN "open" ELSE "loop"
    /\ UNCHANGED <<gate, queues, dis, sig, cmd>>

SndOpen ==
    /\ snd = "open"
    /\ gateway' = gws_open
    /\ snd' = "post"
    /\ UNCHANGED <<sem, queues, dis, sig, cmd>>

\* Mutant: the gateway is opened without waking the discharger.
SndPost_Silent ==
    /\ snd = "post"
    /\ snd' = "loop"
    /\ UNCHANGED <<gate, queues, dis, sig, cmd>>

SndPost ==
    /\ snd = "post"
    /\ sem_post
    /\ snd' = "loop"
    /\ UNCHANGED <<gateway, queues, dis, sig, cmd>>

SndCheck ==
    /\ snd = "popped"
    /\ snd' = IF gateway = gws_open THEN "closing" ELSE "segment"
    /\ UNCHANGED <<gate, queues, dis, sig, cmd>>

SndClose ==
    /\ snd = "closing"
    /\ gateway' = gws_close
    /\ snd' = "segment"
    /\ UNCHANGED <<sem, queues, dis, sig, cmd>>

\* The segment is sent, or what could not be sent is stored; both move the
\* two latest times. Then ci_sgm_mark_empty; the break on errEmpty in the
\* cleaned_segments_state leaves the loop as the quit test would.
SndSegment ==
    /\ snd = "segment"
    /\ \E n \in 0..1 : stored + n <= MaxStored /\ stored' = stored + n
    /\ memmapFirst' \in BOOLEAN
    /\ snd' = IF filled = 0 /\ quit_noloss_data_thread_4 THEN "exit" ELSE "loop"
    /\ UNCHANGED <<gate, filled, overload, dis, sig, cmd>>

SndExit ==
    /\ snd = "exit"
    /\ snd' = IF gateway = gws_open THEN "exitclose" ELSE "done"
    /\ UNCHANGED <<gate, queues, dis, sig, cmd>>

\* Mutant: the thread ends without closing the gateway it opened.
SndExitClose_Open ==
    /\ snd = "exitclose"
    /\ snd' = "done"
    /\ UNCHANGED <<gate, queues, dis, sig, cmd>>

SndExitClose ==
    /\ snd = "exitclose"
    /\ gateway' = gws_close
    /\ snd' = "done"
    /\ UNCHANGED <<sem, queues, dis, sig, cmd>>

Sender ==
    \/ SndQuit \/ SndPop \/ SndYield \/ SndPeek \/ SndOpen \/ SndPost
    \/ SndCheck \/ SndClose \/ SndSegment \/ SndExit \/ SndExitClose

-----------------------------------------------------------------------------
(* The discharger.                                                         *)

DisTop ==
    /\ dis = "top"
    /\ dis' = IF quit_first_level_thread_3 THEN "dying" ELSE "wait"
    /\ UNCHANGED <<gate, queues, snd, sig, cmd>>

\* sem_wait.
DisWait ==
    /\ dis = "wait"
    /\ sem > 0
    /\ sem' = sem - 1
    /\ dis' = "gate"
    /\ UNCHANGED <<gateway, queues, snd, sig, cmd>>

DisGate ==
    /\ dis = "gate"
    /\ dis' = IF gateway = gws_open THEN "pop" ELSE "top"
    /\ UNCHANGED <<gate, queues, snd, sig, cmd>>

\* pg_stk_try_to_pop_latest (external): errEmpty, or a packet is handed to
\* persistant_cache_mngr_relay_packet.
DisPop ==
    /\ dis = "pop"
    /\ dis' = IF stored = 0 THEN "empty" ELSE "relay"
    /\ UNCHANGED <<gate, queues, snd, sig, cmd>>

\* persistant_cache_mngr_relay_packet keeps the packet: block_sending_1,
\* errPortOccupied under overload, or a send that failed. Only some of the
\* answers read the gateway before the page stack goes on to its next packet.
DisKeep ==
    /\ dis = "relay"
    /\ memmapFirst' \in IF block_sending_1 \/ overload THEN {memmapFirst} ELSE BOOLEAN
    /\ dis' \in IF block_sending_1 THEN {"gate"} ELSE {"gate", "pop"}
    /\ UNCHANGED <<gate, filled, stored, overload, snd, sig, cmd>>

\* Mutant: the packet is answered without looking at the gateway, and the
\* page stack always stops after one packet and waits for the next wake-up.
DisSend_Stop ==
    /\ dis = "relay"
    /\ ~block_sending_1
    /\ ~overload
    /\ stored' = stored - 1
    /\ memmapFirst' \in BOOLEAN
    /\ dis' = "top"
    /\ UNCHANGED <<gate, filled, overload, snd, sig, cmd>>

\* The packet is sent or remapped and leaves the stack; the answer says
\* whether the gateway is still open.
DisSend ==
    /\ dis = "relay"
    /\ ~block_sending_1
    /\ ~overload
    /\ stored' = stored - 1
    /\ memmapFirst' \in BOOLEAN
    /\ dis' = IF gateway = gws_open THEN "pop" ELSE "gate"
    /\ UNCHANGED <<gate, filled, overload, snd, sig, cmd>>

\* errTooManyAttempt: publishing NULL resets latest_memmap_time.
DisTooMany ==
    /\ dis = "relay"
    /\ ~block_sending_1
    /\ ~overload
    /\ memmapFirst' = FALSE
    /\ dis' \in {"gate", "pop"}
    /\ UNCHANGED <<gate, filled, stored, overload, snd, sig, cmd>>

DisEmpty ==
    /\ dis = "empty"
    /\ gateway' = gws_close
    /\ dis' = "emptied"
    /\ UNCHANGED <<sem, queues, snd, sig, cmd>>

\* Cool-down in the same second, or NULL is published; under overload the
\* subscriber returns before it resets latest_memmap_time.
DisEmptied ==
    /\ dis = "emptied"
    /\ memmapFirst' \in IF overload THEN {memmapFirst} ELSE {memmapFirst, FALSE}
    /\ dis' = "gate"
    /\ UNCHANGED <<gate, filled, stored, overload, snd, sig, cmd>>

DisDie ==
    /\ dis = "dying"
    /\ gateway' = gws_die
    /\ dis' = "dead"
    /\ UNCHANGED <<sem, queues, snd, sig, cmd>>

Discharger ==
    \/ DisTop \/ DisWait \/ DisGate \/ DisPop \/ DisKeep \/ DisSend
    \/ DisTooMany \/ DisEmpty \/ DisEmptied \/ DisDie

-----------------------------------------------------------------------------
(* Shutdown: signal_thread, then the bcast_quit callbacks in their order.  *)

SigInt ==
    /\ sig = "run"
    /\ block_sending_1' = TRUE
    /\ sig' = "flags"
    /\ UNCHANGED <<gate, queues, snd, dis, quit_first_level_thread_3,
                   quit_noloss_data_thread_4>>

SigFlags ==
    /\ sig = "flags"
    /\ quit_first_level_thread_3' = TRUE
    /\ sig' = "drain"
    /\ UNCHANGED <<gate, queues, snd, dis, block_sending_1,
                   quit_noloss_data_thread_4>>

\* stop_input_udp .. stop_sending_from_bridge: no producer is left.
SigDrained ==
    /\ sig = "drain"
    /\ sig' = "assign"
    /\ UNCHANGED <<gate, queues, snd, dis, cmd>>

\* The conditional of the for's initialisation, then its assignment.
SigAssign ==
    /\ sig = "assign"
    /\ sig' = IF gateway >= gws_still_active THEN "close" ELSE "test"
    /\ UNCHANGED <<gate, queues, snd, dis, cmd>>

SigClose ==
    /\ sig = "close"
    /\ gateway' = gws_close
    /\ sig' = "test"
    /\ UNCHANGED <<sem, queues, snd, dis, cmd>>

\* Mutant: a closed gateway is taken for the answer of the discharger.
SigTest_Closed ==
    /\ sig = "test"
    /\ sig' = IF gateway > gws_still_active THEN "kick" ELSE "stopped"
    /\ UNCHANGED <<gate, queues, snd, dis, cmd>>

SigTest ==
    /\ sig = "test"
    /\ sig' = IF gateway >= gws_still_active THEN "kick" ELSE "stopped"
    /\ UNCHANGED <<gate, queues, snd, dis, cmd>>

SigKick ==
    /\ sig = "kick"
    /\ sem_post
    /\ sig' = "test"
    /\ UNCHANGED <<gateway, queues, snd, dis, cmd>>

\* Mutant: inmem_seg_cleaned_up does not set the flag the sender tests.
SigCleaned_NoFlag ==
    /\ sig = "stopped"
    /\ sig' = "finished"
    /\ UNCHANGED <<gate, queues, snd, dis, cmd>>

\* wait_until_no_more_unsaved_packet gives up after its guard, then
\* inmem_seg_cleaned_up.
SigCleaned ==
    /\ sig = "stopped"
    /\ quit_noloss_data_thread_4' = TRUE
    /\ sig' = "finished"
    /\ UNCHANGED <<gate, queues, snd, dis, block_sending_1,
                   quit_first_level_thread_3>>

Shutdown == SigFlags \/ SigDrained \/ SigAssign \/ SigClose \/ SigTest
              \/ SigKick \/ SigCleaned

-----------------------------------------------------------------------------
Environment == SegmentFilled \/ HalffillReleased \/ StageSampled \/ SigInt

Next == Sender \/ Discharger \/ Shutdown \/ Environment

\* The kernel schedules every thread that can run; nothing obliges packets
\* to arrive, the load to change or the user to press Ctrl+C.
Fairness == WF_vars(Sender) /\ WF_vars(Discharger) /\ WF_vars(Shutdown)

Spec == Init /\ [][Next]_vars /\ Fairness

-----------------------------------------------------------------------------
(* Properties.                                                             *)

\* The discharger will test the gateway again before it sleeps.
Awake == dis \in {"gate", "pop", "relay", "empty", "emptied"}

\* The wake-up is never lost: while the gateway is open, the discharger is
\* awake, or a token waits on the semaphore, or the sender is about to post
\* one, or the discharger is gone.
WakeupNotLost ==
    gateway = gws_open =>
        Awake \/ sem > 0 \/ snd = "post" \/ dis \in {"dying", "dead"}

\* try_stop_sending_from_cach_mgr returns only when the discharger has taken
\* its last packet: the callbacks that run after it, up to the one that shuts
\* the page stack down, never meet a discharger inside it.
StoppedAfterDischarger == sig \in {"stopped", "finished"} => dis = "dead"

\* The sender never ends with the gateway open behind it, which would leave
\* the discharger popping for a thread that is gone.
ExitShutsGate == snd = "done" => gateway # gws_open

\* A packet in the page stack is handed to the relay, unless segments arrive
\* or sending is blocked first: the handshake between sender and discharger
\* cannot stall.
StoredIsServed ==
    (stored > 0 /\ filled = 0) ~>
        (dis = "relay" \/ filled > 0 \/ block_sending_1)

\* Once the segments are cleaned up the sender ends, whatever it was doing.
SenderEnds == (sig = "finished") ~> (snd = "done")

\* try_stop_sending_from_cach_mgr returns, so that the later bcast_quit
\* callbacks ("wait until all thread go away") can run.
ShutdownHandshakeEnds == (sig = "assign") ~> (sig = "stopped")
=============================================================================

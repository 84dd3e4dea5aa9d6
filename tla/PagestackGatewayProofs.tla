----------------------- MODULE PagestackGatewayProofs -----------------------
(***************************************************************************)
(* Proofs of the safety properties of PagestackGateway, for every          *)
(* SEM_VALUE_MAX and any number of segments and stored packets.            *)
(***************************************************************************)
EXTENDS PagestackGateway, TLAPS

\* gws_die is the discharger's own last word: the thread is past its loop.
DieMeansDead == gateway = gws_die => dis = "dead"

\* The packet in the relay is still in the stack: only the discharger pops.
RelayHoldsPacket == dis = "relay" => stored > 0

\* The properties and what makes them inductive: StoppedAfterDischarger needs
\* DieMeansDead, because the shutdown thread sees only the value; the range of
\* stored needs RelayHoldsPacket.
IInv ==
    /\ TypeOK
    /\ RelayHoldsPacket
    /\ WakeupNotLost
    /\ DieMeansDead
    /\ StoppedAfterDischarger
    /\ ExitShutsGate

\* The three kinds of variables of TypeOK, which the steps treat apart.
CountersOK ==
    /\ gateway \in {gws_die, gws_close, gws_open}
    /\ sem \in 0..SEM_VALUE_MAX
    /\ filled \in 0..MaxFilled
    /\ stored \in 0..MaxStored

ThreadsOK ==
    /\ snd \in SndLoc
    /\ dis \in DisLoc
    /\ sig \in SigLoc

FlagsOK ==
    /\ memmapFirst \in BOOLEAN
    /\ overload \in BOOLEAN
    /\ block_sending_1 \in BOOLEAN
    /\ quit_first_level_thread_3 \in BOOLEAN
    /\ quit_noloss_data_thread_4 \in BOOLEAN

\* TypeOK is the conjunction of the three.
LEMMA TypeParts == TypeOK <=> CountersOK /\ ThreadsOK /\ FlagsOK
  BY Zenon DEF TypeOK, CountersOK, ThreadsOK, FlagsOK

\* post_config_init_persistant_cache_mngr establishes the invariant.
LEMMA InitIInv == Init => IInv
<1> SUFFICES ASSUME Init PROVE IInv
  OBVIOUS
<1>1. CountersOK
  BY GatewayAssumption DEF Init, CountersOK, gws_close
<1>2. ThreadsOK
  BY DEF Init, ThreadsOK, SndLoc, DisLoc, SigLoc
<1>3. FlagsOK
  BY Zenon DEF Init, FlagsOK
<1>4. RelayHoldsPacket /\ WakeupNotLost /\ DieMeansDead
        /\ StoppedAfterDischarger /\ ExitShutsGate
  BY DEF Init, RelayHoldsPacket, WakeupNotLost, DieMeansDead,
         StoppedAfterDischarger, ExitShutsGate, gws_die, gws_close, gws_open
<1> QED
  BY <1>1, <1>2, <1>3, <1>4, TypeParts DEF IInv

\* A packet enters the relay from a stack that is not empty, and nobody else
\* takes packets out.
LEMMA RelayStep == TypeOK /\ RelayHoldsPacket /\ [Next]_vars => RelayHoldsPacket'
<1> SUFFICES ASSUME TypeOK, RelayHoldsPacket, [Next]_vars
             PROVE  RelayHoldsPacket'
  OBVIOUS
<1> USE DEF TypeOK, RelayHoldsPacket, gate, queues, cmd
<1>1. CASE Sender
  BY <1>1 DEF Sender, SndQuit, SndPop, SndYield, SndPeek, SndOpen, SndPost,
              SndCheck, SndClose, SndSegment, SndExit, SndExitClose
<1>2. CASE Discharger
  BY <1>2 DEF Discharger, DisTop, DisWait, DisGate, DisPop, DisKeep, DisSend,
              DisTooMany, DisEmpty, DisEmptied, DisDie
<1>3. CASE Shutdown
  BY <1>3 DEF Shutdown, SigFlags, SigDrained, SigAssign, SigClose, SigTest,
              SigKick, SigCleaned
<1>4. CASE Environment
  BY <1>4 DEF Environment, SegmentFilled, HalffillReleased, StageSampled, SigInt
<1>5. CASE UNCHANGED vars
  BY <1>5 DEF vars
<1> QED
  BY <1>1, <1>2, <1>3, <1>4, <1>5 DEF Next

\* Every step of the sender, the discharger, the shutdown thread and the
\* producers keeps the variables in their ranges.
LEMMA TypeStep == TypeOK /\ RelayHoldsPacket /\ [Next]_vars => TypeOK'
<1> SUFFICES ASSUME TypeOK, RelayHoldsPacket, [Next]_vars PROVE TypeOK'
  OBVIOUS
<1>0. CountersOK /\ ThreadsOK /\ FlagsOK
  BY TypeParts
<1>1. CountersOK'
  <2> USE GatewayAssumption, <1>0
      DEF CountersOK, RelayHoldsPacket, gws_die, gws_close, gws_open, gate,
          queues, sem_post
  <2>1. CASE Sender
    BY <2>1 DEF Sender, SndQuit, SndPop, SndYield, SndPeek, SndOpen, SndPost,
                SndCheck, SndClose, SndSegment, SndExit, SndExitClose
  <2>2. CASE Discharger
    <3>1. CASE DisSend
      BY <3>1 DEF DisSend
    <3>2. CASE DisKeep \/ DisTooMany \/ DisEmptied
      BY <3>2, Zenon DEF DisKeep, DisTooMany, DisEmptied
    <3>3. CASE DisTop \/ DisWait \/ DisGate \/ DisPop \/ DisEmpty \/ DisDie
      BY <3>3 DEF DisTop, DisWait, DisGate, DisPop, DisEmpty, DisDie
    <3> QED
      BY <2>2, <3>1, <3>2, <3>3 DEF Discharger
  <2>3. CASE Shutdown
    BY <2>3 DEF Shutdown, SigFlags, SigDrained, SigAssign, SigClose, SigTest,
                SigKick, SigCleaned
  <2>4. CASE Environment
    BY <2>4 DEF Environment, SegmentFilled, HalffillReleased, StageSampled, SigInt
  <2>5. CASE UNCHANGED vars
    BY <2>5 DEF vars
  <2> QED
    BY <2>1, <2>2, <2>3, <2>4, <2>5 DEF Next
<1>2. ThreadsOK'
  <2> USE <1>0 DEF ThreadsOK, SndLoc, DisLoc, SigLoc
  <2>1. CASE Sender
    BY <2>1 DEF Sender, SndQuit, SndPop, SndYield, SndPeek, SndOpen, SndPost,
                SndCheck, SndClose, SndSegment, SndExit, SndExitClose
  <2>2. CASE Discharger
    BY <2>2 DEF Discharger, DisTop, DisWait, DisGate, DisPop, DisKeep, DisSend,
                DisTooMany, DisEmpty, DisEmptied, DisDie
  <2>3. CASE Shutdown
    BY <2>3 DEF Shutdown, SigFlags, SigDrained, SigAssign, SigClose, SigTest,
                SigKick, SigCleaned
  <2>4. CASE Environment
    BY <2>4 DEF Environment, SegmentFilled, HalffillReleased, StageSampled, SigInt
  <2>5. CASE UNCHANGED vars
    BY <2>5 DEF vars
  <2> QED
    BY <2>1, <2>2, <2>3, <2>4, <2>5 DEF Next
<1>3. FlagsOK'
  <2> USE <1>0 DEF FlagsOK, queues, cmd
  <2>1. CASE Sender
    BY <2>1, Zenon DEF Sender, SndQuit, SndPop, SndYield, SndPeek, SndOpen, SndPost,
                SndCheck, SndClose, SndSegment, SndExit, SndExitClose
  <2>2. CASE Discharger
    BY <2>2, Zenon DEF Discharger, DisTop, DisWait, DisGate, DisPop, DisKeep, DisSend,
                DisTooMany, DisEmpty, DisEmptied, DisDie
  <2>3. CASE Shutdown
    BY <2>3, Zenon DEF Shutdown, SigFlags, SigDrained, SigAssign, SigClose, SigTest,
                SigKick, SigCleaned
  <2>4. CASE Environment
    BY <2>4, Zenon DEF Environment, SegmentFilled, HalffillReleased, StageSampled, SigInt
  <2>5. CASE UNCHANGED vars
    BY <2>5, Zenon DEF vars
  <2> QED
    BY <2>1, <2>2, <2>3, <2>4, <2>5 DEF Next
<1> QED
  BY <1>1, <1>2, <1>3, TypeParts, Zenon DEF TypeOK, CountersOK, ThreadsOK, FlagsOK

\* No step loses the wake-up: whoever leaves the gateway open leaves the
\* discharger awake or a token behind, even when sem_post is at its limit.
LEMMA WakeupStep == TypeOK /\ WakeupNotLost /\ [Next]_vars => WakeupNotLost'
<1> SUFFICES ASSUME TypeOK, WakeupNotLost, [Next]_vars PROVE WakeupNotLost'
  OBVIOUS
<1> USE GatewayAssumption
    DEF TypeOK, WakeupNotLost, Awake, gws_die, gws_close, gws_open,
        gws_still_active, gate, queues, cmd, sem_post
<1>1. CASE Sender
  BY <1>1 DEF Sender, SndQuit, SndPop, SndYield, SndPeek, SndOpen, SndPost,
              SndCheck, SndClose, SndSegment, SndExit, SndExitClose
<1>2. CASE Discharger
  BY <1>2 DEF Discharger, DisTop, DisWait, DisGate, DisPop, DisKeep, DisSend,
              DisTooMany, DisEmpty, DisEmptied, DisDie
<1>3. CASE Shutdown
  BY <1>3 DEF Shutdown, SigFlags, SigDrained, SigAssign, SigClose, SigTest,
              SigKick, SigCleaned
<1>4. CASE Environment
  BY <1>4 DEF Environment, SegmentFilled, HalffillReleased, StageSampled, SigInt
<1>5. CASE UNCHANGED vars
  BY <1>5 DEF vars
<1> QED
  BY <1>1, <1>2, <1>3, <1>4, <1>5 DEF Next

\* The value gws_die and the positions of the three threads agree: nobody but
\* the discharger writes it, and a thread that is gone stays gone.
LEMMA ExitStep ==
    TypeOK /\ DieMeansDead /\ StoppedAfterDischarger /\ ExitShutsGate /\ [Next]_vars
        => DieMeansDead' /\ StoppedAfterDischarger' /\ ExitShutsGate'
<1> SUFFICES ASSUME TypeOK, DieMeansDead, StoppedAfterDischarger, ExitShutsGate,
                    [Next]_vars
             PROVE  DieMeansDead' /\ StoppedAfterDischarger' /\ ExitShutsGate'
  OBVIOUS
<1>0. CountersOK
  BY TypeParts
<1> USE <1>0
    DEF CountersOK, DieMeansDead, StoppedAfterDischarger, ExitShutsGate,
        gws_die, gws_close, gws_open, gws_still_active, gate, queues, cmd,
        sem_post
<1>1. CASE Sender
  BY <1>1 DEF Sender, SndQuit, SndPop, SndYield, SndPeek, SndOpen, SndPost,
              SndCheck, SndClose, SndSegment, SndExit, SndExitClose
<1>2. CASE Discharger
  <2>1. CASE DisKeep \/ DisSend \/ DisTooMany \/ DisEmptied
    <3>1. dis # "dead" /\ UNCHANGED <<gateway, snd, sig>>
      BY <2>1 DEF DisKeep, DisSend, DisTooMany, DisEmptied
    <3> QED
      BY <3>1
  <2>2. CASE DisTop \/ DisWait \/ DisGate \/ DisPop \/ DisEmpty \/ DisDie
    BY <2>2 DEF DisTop, DisWait, DisGate, DisPop, DisEmpty, DisDie
  <2> QED
    BY <1>2, <2>1, <2>2 DEF Discharger
<1>3. CASE Shutdown
  BY <1>3 DEF Shutdown, SigFlags, SigDrained, SigAssign, SigClose, SigTest,
              SigKick, SigCleaned
<1>4. CASE Environment
  BY <1>4 DEF Environment, SegmentFilled, HalffillReleased, StageSampled, SigInt
<1>5. CASE UNCHANGED vars
  BY <1>5 DEF vars
<1> QED
  BY <1>1, <1>2, <1>3, <1>4, <1>5 DEF Next

\* The inductive invariant holds in every reachable state.
THEOREM Invariance == Spec => []IInv
<1>1. IInv /\ [Next]_vars => IInv'
  BY TypeStep, RelayStep, WakeupStep, ExitStep DEF IInv
<1> QED
  BY InitIInv, <1>1, PTL DEF Spec

\* The gateway, the semaphore and the two queues stay in their ranges: a full
\* semaphore is not incremented, an empty stack is not popped.
THEOREM TypeCorrect == Spec => []TypeOK
  BY Invariance, PTL DEF IInv

\* While the gateway is open the discharger does not sleep for ever: of
\* discharge_persistant_cache_proc and process_filled_tcp_segment_proc.
THEOREM WakeupSafe == Spec => []WakeupNotLost
  BY Invariance, PTL DEF IInv

\* try_stop_sending_from_cach_mgr never returns before the discharger's end.
THEOREM StopSafe == Spec => []StoppedAfterDischarger
  BY Invariance, PTL DEF IInv

\* process_filled_tcp_segment_proc leaves no open gateway behind.
THEOREM ExitSafe == Spec => []ExitShutsGate
  BY Invariance, PTL DEF IInv
=============================================================================

------------------------- MODULE BridgeThreadsProofs -------------------------
(***************************************************************************)
(* Proofs about BridgeThreads, for any number of bridges of either kind,   *)
(* sockets and packets and any size of the fast ring: the ordered shutdown *)
(* leaves nothing at work on what it takes down.                           *)
(***************************************************************************)
EXTENDS BridgeThreads, FiniteSetTheorems, TLAPS

\* The types of what the shutdown depends on.
ThreadType ==
    /\ applied \subseteq Bridges
    /\ rcv \in [Bridges -> RcvAt] /\ fwd \in [Bridges -> FwdAt]
    /\ con \in [Bridges -> ConAt]
    /\ tcp \in {"none", "idle", "held", "gone"} /\ snd \in {"idle", "pm", "both", "gone"}
    /\ stop_receiving \in [Bridges -> BOOLEAN] /\ receive_stoped \in [Bridges -> BOOLEAN]
    /\ stop_sending \in [Bridges -> BOOLEAN] /\ send_stoped \in [Bridges -> BOOLEAN]
    /\ sig \in [at : SigAt, b : Nat]

\* The phases that run over the bridges, and the phases behind them.
PerBridge == {"break", "breaking", "stoprcv", "rcvstop", "stopsnd", "sndstop", "mtx",
              "pm", "unlock", "unlockagain", "destroy"}
AfterBridges == {"saved", "threads", "joining", "ignorable", "rest", "done"}
AfterStops   == {"destroy"} \cup AfterBridges

\* Bridges are started in order and not any more after the signal; the signal
\* thread is always at one of them.
Started ==
    /\ \E k \in 0..NB : applied = 1..k
    /\ \A b \in Bridges \ applied : rcv[b] = "none" /\ fwd[b] = "none" /\ con[b] = "none"
    /\ IF sig.at = "wait" THEN sig.b = 1 ELSE quit
    /\ sig.at \in PerBridge => sig.b \in applied
    /\ quit_app => sig.at \in {"rest", "done"}
    /\ exited => quit_app

\* Which threads a bridge has.
Kinds ==
    \A b \in Bridges :
        /\ rcv[b] \in {"top", "select", "drain"} => Kind[b] = "krnl"
        /\ rcv[b] = "loop" => Kind[b] = "pcap"
        /\ send_stoped[b] => fwd[b] = "gone"

\* The bridges whose input, and whose forwarding thread, was told to stop; and
\* those whose forwarding thread was waited for.
ToldReceiving(b) ==
    \/ sig.at = "stoprcv" /\ b < sig.b
    \/ sig.at = "rcvstop" /\ b <= sig.b
    \/ sig.at \in {"stopsnd", "sndstop", "mtx", "pm", "unlock", "unlockagain"} \cup AfterStops

ToldSending(b) ==
    \/ sig.at = "stopsnd" /\ b < sig.b
    \/ sig.at \in {"sndstop", "mtx", "pm", "unlock", "unlockagain"} /\ b <= sig.b
    \/ sig.at \in AfterStops

ForwardingOver(b) ==
    \/ sig.at \in {"stopsnd", "sndstop"} /\ b < sig.b
    \/ sig.at \in {"mtx", "pm", "unlock", "unlockagain"} /\ b <= sig.b
    \/ sig.at \in AfterStops

\* A bridge behind the signal thread stays quiet: its flags stay up, and its
\* forwarding thread has left the loop in which it works.
Quiet ==
    \A b \in applied :
        /\ ToldReceiving(b) => stop_receiving[b]
        /\ ToldSending(b) => stop_sending[b]
        /\ ForwardingOver(b) => fwd[b] \notin {"inner", "have"}

\* Only such a bridge is taken down.
TornDown ==
    /\ destroyed \subseteq applied
    /\ destroyed # {} => sig.at \in AfterStops

AtWork(b) == rcv[b] \in {"top", "select", "drain"}

\* A thread that works is on the list, from its start to its end.
Listed ==
    /\ \A b \in Bridges : rcv[b] = "waitcfg" \/ AtWork(b) => T("rcv", b) \in registered
    /\ tcp \in {"idle", "held"} => T("tcp", 0) \in registered
    /\ snd # "gone" => T("snd", 0) \in registered

\* What was on the list when it was read is waited for, and what comes on it
\* later finds the flags that keep it from work.
Joined ==
    /\ sig.at = "joining" =>
          /\ \A b \in Bridges : AtWork(b) => T("rcv", b) \in awaited
          /\ tcp \in {"idle", "held"} => T("tcp", 0) \in awaited
          /\ snd # "gone" => T("snd", 0) \in awaited
    /\ sig.at \in {"ignorable", "rest", "done"} =>
          /\ \A b \in Bridges : ~AtWork(b)
          /\ tcp \notin {"idle", "held"} /\ snd = "gone"

ThreadsInv ==
    /\ ThreadType /\ Started /\ Kinds /\ Quiet /\ TornDown /\ Listed /\ Joined
    /\ CaptureTornDownQuiet

-----------------------------------------------------------------------------
(* The entries of the list and the order of the bridges.                   *)

LEMMA EntryFacts ==
    /\ \A k1, k2, b1, b2 : T(k1, b1) = T(k2, b2) => k1 = k2 /\ b1 = b2
    /\ \A b \in Bridges : T("rcv", b) \in Sticky => Kind[b] = "pcap"
    /\ T("tcp", 0) \notin Sticky /\ T("snd", 0) \notin Sticky
<1>1. \A k1, k2, b1, b2 : T(k1, b1) = T(k2, b2) => k1 = k2 /\ b1 = b2
  <2> SUFFICES ASSUME NEW k1, NEW k2, NEW b1, NEW b2, T(k1, b1) = T(k2, b2)
               PROVE  k1 = k2 /\ b1 = b2
    OBVIOUS
  <2>1. T(k1, b1).k = k1 /\ T(k1, b1).b = b1 /\ T(k2, b2).k = k2 /\ T(k2, b2).b = b2
    BY DEF T
  <2> QED
    BY <2>1
<1> QED
  BY <1>1 DEF Sticky, T

LEMMA BridgeFacts == NB \in Nat /\ \A b \in Bridges : b \in Nat /\ b >= 1 /\ b <= NB
  BY ThreadsAssumption DEF Bridges

\* The loop over the applied bridges: the next one, or all of them are done.
LEMMA NextInFacts ==
    ASSUME ThreadType, Started, sig.at \in PerBridge, NEW at, NEW done, NextIn(at, done)
    PROVE  /\ 1 \in applied
           /\ \/ sig' = [at |-> at, b |-> sig.b + 1] /\ sig.b + 1 \in applied
              \/ sig' = [at |-> done, b |-> 1] /\ \A b \in applied : b <= sig.b
<1>1. PICK k \in 0..NB : applied = 1..k
  BY DEF Started
<1>2. k \in Nat /\ Cardinality(applied) = k
  BY <1>1, ThreadsAssumption, FS_Interval
<1>3. sig.b \in 1..k
  BY <1>1 DEF Started
<1> QED
  BY <1>1, <1>2, <1>3 DEF NextIn

LEMMA ThreadsInit == Init => ThreadsInv
<1> SUFFICES ASSUME Init PROVE ThreadsInv
  OBVIOUS
<1>1. ThreadType
  BY DEF Init, ThreadType, RcvAt, FwdAt, ConAt, SigAt
<1>2. Started
  <2>1. applied = 1..0 /\ 0 \in 0..NB
    BY ThreadsAssumption DEF Init
  <2> QED
    BY <2>1 DEF Init, Started, PerBridge
<1>3. Kinds /\ Quiet /\ TornDown
  BY DEF Init, Kinds, Quiet, TornDown
<1>4. Listed /\ Joined /\ CaptureTornDownQuiet
  BY DEF Init, Listed, Joined, AtWork, CaptureTornDownQuiet
<1> QED
  BY <1>1, <1>2, <1>3, <1>4 DEF ThreadsInv

-----------------------------------------------------------------------------
(* The signal thread.                                                      *)

\* A step of the signal thread keeps the bridges behind it quiet if it raised
\* the flag, or found the thread gone, of each bridge that is new behind it.
LEMMA Signalled ==
    ASSUME ThreadsInv, SigStep, sig.at # "wait", quit' = quit,
           sig' \in [at : SigAt \ {"wait"}, b : Nat], sig'.at \in PerBridge => sig'.b \in applied,
           quit_app' => sig'.at \in {"rest", "done"}, exited => quit_app',
           stop_receiving' \in [Bridges -> BOOLEAN], stop_sending' \in [Bridges -> BOOLEAN],
           \A b \in applied : /\ stop_receiving[b] => stop_receiving'[b]
                              /\ stop_sending[b] => stop_sending'[b]
                              /\ ToldReceiving(b)' => ToldReceiving(b) \/ stop_receiving'[b]
                              /\ ToldSending(b)' => ToldSending(b) \/ stop_sending'[b]
                              /\ ForwardingOver(b)' =>
                                    ForwardingOver(b) \/ fwd[b] \notin {"inner", "have"},
           destroyed' \subseteq applied, destroyed' # {} => sig'.at \in AfterStops, Joined'
    PROVE  ThreadsInv'
<1>1. ThreadType'
  BY DEF ThreadsInv, ThreadType, SigStep, start, thr
<1>2. Started'
  BY DEF ThreadsInv, Started, SigStep, start, thr
<1>3. Kinds' /\ Listed' /\ CaptureTornDownQuiet'
  BY DEF ThreadsInv, Kinds, Listed, AtWork, CaptureTornDownQuiet, SigStep, thr
<1>4. Quiet'
  <2> SUFFICES ASSUME NEW b \in applied
               PROVE  /\ ToldReceiving(b)' => stop_receiving'[b]
                      /\ ToldSending(b)' => stop_sending'[b]
                      /\ ForwardingOver(b)' => fwd[b] \notin {"inner", "have"}
    BY DEF Quiet, SigStep, start, thr
  <2> QED
    BY DEF ThreadsInv, Quiet
<1>5. TornDown'
  BY DEF TornDown, SigStep, start
<1> QED
  BY <1>1, <1>2, <1>3, <1>4, <1>5 DEF ThreadsInv

LEMMA SigIntStep == ASSUME ThreadsInv, SigInt PROVE ThreadsInv'
<1>1. /\ sig' = [sig EXCEPT !.at = IF applied = {} THEN "saved" ELSE "break"]
      /\ sig.at = "wait" /\ quit' = TRUE
      /\ UNCHANGED <<applied, rcv, fwd, con, tcp, snd, stops, destroyed, misused, registered,
                     awaited, quit_app, exited>>
  BY DEF SigInt, Go, SigStep, start, thr, stops
<1>2. /\ sig' \in [at : SigAt, b : Nat] /\ sig'.b = 1 /\ sig'.at \in {"break", "saved"}
      /\ sig'.at = "break" <=> applied # {}
  BY <1>1 DEF ThreadsInv, ThreadType, SigAt, Started
<1>3. ThreadType'
  BY <1>1, <1>2 DEF ThreadsInv, ThreadType, stops
<1>4. Started'
  <2>1. applied # {} => 1 \in applied
    BY ThreadsAssumption DEF ThreadsInv, Started
  <2>2. sig'.at \in PerBridge => sig'.at = "break"
    BY <1>2 DEF PerBridge
  <2>3. ~quit_app /\ ~exited
    BY <1>1 DEF ThreadsInv, Started
  <2> QED
    BY <1>1, <1>2, <2>1, <2>2, <2>3 DEF ThreadsInv, Started
<1>5. Kinds' /\ Listed' /\ CaptureTornDownQuiet'
  BY <1>1 DEF ThreadsInv, Kinds, Listed, AtWork, CaptureTornDownQuiet, stops
<1>6. Quiet'
  BY <1>1, <1>2 DEF Quiet, ToldReceiving, ToldSending, ForwardingOver, AfterStops, AfterBridges
<1>7. TornDown'
  BY <1>1 DEF ThreadsInv, TornDown, AfterStops, AfterBridges
<1>8. Joined'
  BY <1>2 DEF Joined
<1> QED
  BY <1>3, <1>4, <1>5, <1>6, <1>7, <1>8 DEF ThreadsInv

LEMMA SignalStep == ASSUME ThreadsInv, Signal PROVE ThreadsInv'
<1> USE DEF SigStep, flags
<1>0. /\ ThreadType /\ Started /\ Quiet /\ TornDown /\ Joined /\ Kinds /\ Listed
      /\ sig \in [at : SigAt, b : Nat] /\ sig.at \in SigAt /\ sig.b \in Nat
      /\ \A b \in applied : b \in Bridges /\ b \in Nat /\ b >= 1
  BY BridgeFacts DEF ThreadsInv, ThreadType
<1> DEFINE Same == UNCHANGED <<quit, quit_app, stop_receiving, stop_sending, destroyed>>
           Here(at) == sig' = [at |-> at, b |-> sig.b] /\ sig.b \in applied
           NextOne(at) == sig' = [at |-> at, b |-> sig.b + 1] /\ sig.b + 1 \in applied
           First(at) == /\ sig' = [at |-> at, b |-> 1] /\ 1 \in applied
                        /\ \A b \in applied : b <= sig.b
\* The capture threads are broken off.
<1>1. CASE BreakLoop \/ LoopBroken
  <2>1. SigStep /\ Same /\ sig.at \in {"break", "breaking"}
    BY <1>1 DEF BreakLoop, LoopBroken
  <2>2. Here("breaking") \/ NextOne("break") \/ First("stoprcv")
    <3>1. CASE Go("breaking") /\ sig.at = "break"
      BY <1>0, <3>1 DEF Go, Started, PerBridge
    <3>2. CASE NextIn("break", "stoprcv")
      BY <1>0, <2>1, <3>2, NextInFacts DEF PerBridge
    <3> QED
      BY <1>1, <3>1, <3>2 DEF BreakLoop, LoopBroken
  <2>3. /\ sig' \in [at : SigAt \ {"wait"}, b : Nat] /\ sig'.b \in applied
        /\ sig'.at \in {"break", "breaking", "stoprcv"} /\ (sig'.at = "stoprcv" => sig'.b = 1)
    BY <1>0, <2>2 DEF SigAt
  <2>4. ~quit_app /\ ~exited /\ destroyed = {}
    BY <1>0, <2>1 DEF Started, TornDown, AfterStops, AfterBridges
  <2>5. \A b \in applied : ~ToldReceiving(b)' /\ ~ToldSending(b)' /\ ~ForwardingOver(b)'
    BY <1>0, <2>3 DEF ToldReceiving, ToldSending, ForwardingOver, AfterStops, AfterBridges
  <2>6. Joined'
    BY <2>3 DEF Joined
  <2> QED
    BY <1>0, <2>1, <2>3, <2>4, <2>5, <2>6, Signalled DEF ThreadType
\* The inputs are told to stop.
<1>2. CASE StopReceiving \/ ReceiveStoped
  <2>1. /\ SigStep /\ UNCHANGED <<quit, quit_app, stop_sending, destroyed>>
        /\ sig.at \in {"stoprcv", "rcvstop"} /\ sig.b \in applied
    BY <1>0, <1>2 DEF StopReceiving, ReceiveStoped, Started, PerBridge
  <2>2. /\ stop_receiving' \in [Bridges -> BOOLEAN]
        /\ \A b \in applied : stop_receiving[b] => stop_receiving'[b]
        /\ StopReceiving => stop_receiving'[sig.b]
    BY <1>0, <1>2, <2>1 DEF StopReceiving, ReceiveStoped, ThreadType
  <2>3. \/ StopReceiving /\ sig.at = "stoprcv" /\ Here("rcvstop")
        \/ sig.at = "rcvstop" /\ (NextOne("stoprcv") \/ First("stopsnd"))
    <3>1. CASE StopReceiving
      BY <1>0, <2>1, <3>1 DEF StopReceiving, Go
    <3>2. CASE ReceiveStoped
      BY <1>0, <2>1, <3>2, NextInFacts DEF ReceiveStoped, PerBridge
    <3> QED
      BY <1>2, <3>1, <3>2
  <2>4. /\ sig' \in [at : SigAt \ {"wait"}, b : Nat] /\ sig'.b \in applied
        /\ sig'.at \in {"rcvstop", "stoprcv", "stopsnd"} /\ (sig'.at = "stopsnd" => sig'.b = 1)
    BY <1>0, <2>3 DEF SigAt
  <2>5. ~quit_app /\ ~exited /\ destroyed = {}
    BY <1>0, <2>1 DEF Started, TornDown, AfterStops, AfterBridges
  <2>6. \A b \in applied : ToldReceiving(b)' => ToldReceiving(b) \/ stop_receiving'[b]
    BY <1>0, <2>2, <2>3 DEF ToldReceiving, AfterStops, AfterBridges
  <2>7. \A b \in applied : ~ToldSending(b)' /\ ~ForwardingOver(b)'
    BY <1>0, <2>4 DEF ToldSending, ForwardingOver, AfterStops, AfterBridges
  <2>8. Joined'
    BY <2>4 DEF Joined
  <2> QED
    BY <1>0, <2>1, <2>2, <2>4, <2>5, <2>6, <2>7, <2>8, Signalled DEF ThreadType
\* A forwarding thread is told to stop and waited for.
<1>3. CASE StopSending \/ SendStoped
  <2>1. /\ SigStep /\ UNCHANGED <<quit, quit_app, stop_receiving, destroyed>>
        /\ sig.at \in {"stopsnd", "sndstop"} /\ sig.b \in applied
    BY <1>0, <1>3 DEF StopSending, SendStoped, Started, PerBridge
  <2>2. /\ stop_sending' \in [Bridges -> BOOLEAN]
        /\ \A b \in applied : stop_sending[b] => stop_sending'[b]
        /\ StopSending => stop_sending'[sig.b]
    BY <1>0, <1>3, <2>1 DEF StopSending, SendStoped, ThreadType
  <2>3. \/ StopSending /\ sig.at = "stopsnd" /\ Here("sndstop")
        \/ /\ sig.at = "sndstop" /\ Here("mtx") /\ fwd[sig.b] \notin {"inner", "have"}
    <3>1. CASE StopSending
      BY <1>0, <2>1, <3>1 DEF StopSending, Go
    <3>2. CASE SendStoped
      <4>1. fwd[sig.b] \in {"none", "born", "gone"}
        BY <1>0, <2>1, <3>2 DEF SendStoped, SndUnanswered, Kinds
      <4> QED
        BY <1>0, <2>1, <3>2, <4>1 DEF SendStoped, Go
    <3> QED
      BY <1>3, <3>1, <3>2
  <2>4. /\ sig' \in [at : SigAt \ {"wait"}, b : Nat] /\ sig'.b \in applied
        /\ sig'.at \in {"sndstop", "mtx"}
    BY <1>0, <2>3 DEF SigAt
  <2>5. ~quit_app /\ ~exited /\ destroyed = {}
    BY <1>0, <2>1 DEF Started, TornDown, AfterStops, AfterBridges
  <2>6. \A b \in applied : /\ ToldReceiving(b)' => ToldReceiving(b)
                           /\ ToldSending(b)' => ToldSending(b) \/ stop_sending'[b]
    BY <1>0, <2>2, <2>3 DEF ToldReceiving, ToldSending, AfterStops, AfterBridges
  <2>7. \A b \in applied : ForwardingOver(b)' =>
                            ForwardingOver(b) \/ fwd[b] \notin {"inner", "have"}
    BY <1>0, <2>3 DEF ForwardingOver, AfterStops, AfterBridges
  <2>8. Joined'
    BY <2>4 DEF Joined
  <2> QED
    BY <1>0, <2>1, <2>2, <2>4, <2>5, <2>6, <2>7, <2>8, Signalled DEF ThreadType
\* The outputs are closed, or passed over.
<1>4. CASE TakeMtx \/ TakePm \/ UnlockMtx
  <2>1. SigStep /\ Same /\ sig.at \in {"mtx", "pm", "unlock", "unlockagain"} /\ sig.b \in applied
    BY <1>0, <1>4 DEF TakeMtx, TakePm, UnlockMtx, Started, PerBridge
  <2>2. \/ Here("pm") \/ Here("unlock") \/ Here("unlockagain")
        \/ NextOne("stopsnd") \/ First("destroy")
    <3>1. CASE Go("pm") \/ Go("unlock") \/ Go("unlockagain")
      BY <1>0, <2>1, <3>1 DEF Go
    <3>2. CASE NextIn("stopsnd", "destroy")
      BY <1>0, <2>1, <3>2, NextInFacts DEF PerBridge
    <3> QED
      BY <1>4, <3>1, <3>2 DEF TakeMtx, TakePm, UnlockMtx
  <2>3. /\ sig' \in [at : SigAt \ {"wait"}, b : Nat] /\ sig'.b \in applied
        /\ sig'.at \in {"pm", "unlock", "unlockagain", "stopsnd", "destroy"}
    BY <1>0, <2>2 DEF SigAt
  <2>4. ~quit_app /\ ~exited /\ destroyed = {}
    BY <1>0, <2>1 DEF Started, TornDown, AfterStops, AfterBridges
  <2>5. \A b \in applied : /\ ToldReceiving(b)' => ToldReceiving(b)
                           /\ ToldSending(b)' => ToldSending(b)
                           /\ ForwardingOver(b)' => ForwardingOver(b)
    <3>1. \A b \in applied : ToldReceiving(b) /\ (b <= sig.b => ToldSending(b) /\ ForwardingOver(b))
      BY <2>1 DEF ToldReceiving, ToldSending, ForwardingOver
    <3>2. \A b \in applied : ToldSending(b)' \/ ForwardingOver(b)' => b <= sig.b
      BY <1>0, <2>2 DEF ToldSending, ForwardingOver, AfterStops, AfterBridges
    <3> QED
      BY <3>1, <3>2
  <2>6. Joined'
    BY <2>3 DEF Joined
  <2> QED
    BY <1>0, <2>1, <2>3, <2>4, <2>5, <2>6, Signalled DEF ThreadType
\* What is taken down belongs to bridges that are quiet.
<1>5. CASE DestroyInput
  <2>1. /\ SigStep /\ UNCHANGED <<quit, quit_app, stop_receiving, stop_sending>>
        /\ sig.at = "destroy" /\ sig.b \in applied /\ destroyed' = destroyed \cup {sig.b}
    BY <1>0, <1>5 DEF DestroyInput, Started, PerBridge
  <2>2. NextOne("destroy") \/ First("saved")
    BY <1>0, <1>5, <2>1, NextInFacts DEF DestroyInput, PerBridge
  <2>3. /\ sig' \in [at : SigAt \ {"wait"}, b : Nat] /\ sig'.at \in {"destroy", "saved"}
        /\ sig'.b \in applied /\ sig'.at \in AfterStops
    BY <1>0, <2>2 DEF SigAt, AfterStops, AfterBridges
  <2>4. ~quit_app /\ ~exited
    BY <1>0, <2>1 DEF Started
  <2>5. \A b \in applied : ToldReceiving(b) /\ ToldSending(b) /\ ForwardingOver(b)
    BY <2>1 DEF ToldReceiving, ToldSending, ForwardingOver, AfterStops
  <2>6. Joined'
    BY <2>3 DEF Joined
  <2>7. destroyed' \subseteq applied
    BY <1>0, <2>1 DEF TornDown
  <2> QED
    BY <1>0, <2>1, <2>3, <2>4, <2>5, <2>6, <2>7, Signalled DEF ThreadType
\* The callbacks behind those that run over the bridges.
<1>6. CASE SegmentsCleaned \/ CleanupThreads \/ ThreadsGone \/ IgnoreCleanup \/ CleanupRest
  <2>1. /\ SigStep /\ UNCHANGED <<quit, stop_receiving, stop_sending, destroyed>>
        /\ sig.at \in AfterBridges
    BY <1>6 DEF SegmentsCleaned, CleanupThreads, ThreadsGone, IgnoreCleanup, CleanupRest, AfterBridges
  <2>2. /\ sig' \in [at : SigAt \ {"wait"}, b : Nat] /\ sig'.at \in AfterBridges
        /\ sig'.at \notin PerBridge /\ sig'.at \in AfterStops
    BY <1>0, <1>6 DEF SegmentsCleaned, CleanupThreads, ThreadsGone, IgnoreCleanup, CleanupRest, Go,
                      SigAt, AfterBridges, PerBridge, AfterStops
  <2>3. (quit_app' => sig'.at \in {"rest", "done"}) /\ (exited => quit_app')
    BY <1>0, <1>6 DEF SegmentsCleaned, CleanupThreads, ThreadsGone, IgnoreCleanup, CleanupRest, Go, Started
  <2>4. \A b \in applied : ToldReceiving(b) /\ ToldSending(b) /\ ForwardingOver(b)
    BY <2>1 DEF ToldReceiving, ToldSending, ForwardingOver, AfterStops
  <2>5. Joined'
    <3>1. UNCHANGED <<rcv, tcp, snd, registered>>
      BY <2>1 DEF thr
    <3>2. CASE SegmentsCleaned
      BY <1>0, <3>2 DEF SegmentsCleaned, Go, Joined
    <3>3. CASE CleanupThreads
      <4>1. sig'.at = "joining" /\ awaited' = registered \ Sticky
        BY <1>0, <3>3 DEF CleanupThreads, Go
      <4>2. \A b \in Bridges : AtWork(b) => T("rcv", b) \in awaited'
        BY <1>0, <4>1, EntryFacts DEF AtWork, Kinds, Listed
      <4> QED
        BY <1>0, <3>1, <4>1, <4>2, EntryFacts DEF Joined, Listed, AtWork
    <3>4. CASE ThreadsGone
      <4>1. sig'.at = "ignorable" /\ sig.at = "joining" /\ awaited \cap registered = {}
        BY <1>0, <3>4 DEF ThreadsGone, Go
      <4> QED
        BY <1>0, <3>1, <4>1 DEF Joined, Listed, AtWork
    <3>5. CASE IgnoreCleanup \/ CleanupRest
      <4>1. sig'.at \in {"rest", "done"} /\ sig.at \in {"ignorable", "rest"}
        BY <1>0, <3>5 DEF IgnoreCleanup, CleanupRest, Go
      <4> QED
        BY <1>0, <3>1, <4>1 DEF Joined, AtWork
    <3> QED
      BY <1>6, <3>2, <3>3, <3>4, <3>5
  <2> QED
    BY <1>0, <2>1, <2>2, <2>3, <2>4, <2>5, Signalled DEF ThreadType, TornDown, AfterBridges
<1> QED
  BY <1>1, <1>2, <1>3, <1>4, <1>5, <1>6 DEF Signal

-----------------------------------------------------------------------------
(* The other threads.                                                      *)

\* What only the signal thread and the start of the bridges change.
Course == <<applied, stop_receiving, stop_sending, sig, destroyed, awaited, quit, quit_app, exited>>

LEMMA CourseFrame ==
    ASSUME ThreadsInv, UNCHANGED Course
    PROVE  /\ TornDown'
           /\ \A b \in Bridges : /\ ToldReceiving(b)' <=> ToldReceiving(b)
                                 /\ ToldSending(b)' <=> ToldSending(b)
                                 /\ ForwardingOver(b)' <=> ForwardingOver(b)
  BY DEF ThreadsInv, Course, TornDown, ToldReceiving, ToldSending, ForwardingOver

\* A receiver moves: it comes into the loop in which it works only while it
\* has not been told to stop, and it leaves the list only at its end.
LEMMA ReceiverMoved ==
    ASSUME ThreadsInv, UNCHANGED Course, UNCHANGED <<fwd, con, tcp, snd, stop_sending, send_stoped>>,
           receive_stoped' \in [Bridges -> BOOLEAN],
           NEW b \in Bridges, NEW at \in RcvAt \ {"none"}, rcv' = [rcv EXCEPT ![b] = at],
           rcv[b] # "none",
           at \in {"top", "select", "drain"} =>
              Kind[b] = "krnl" /\ (AtWork(b) \/ ~stop_receiving[b]),
           at = "loop" => Kind[b] = "pcap",
           \/ registered' = registered \cup {T("rcv", b)}
           \/ registered' = registered /\ (AtWork(b) \/ rcv[b] = "waitcfg" \/ at = "loop")
           \/ registered' = registered \ {T("rcv", b)} /\ at = "gone",
           CaptureTornDownQuiet'
    PROVE  ThreadsInv'
<1>1. /\ ThreadType /\ Started /\ Quiet /\ TornDown /\ Joined /\ Kinds /\ Listed
      /\ b \in applied
  BY DEF ThreadsInv, Started
<1>2. /\ rcv'[b] = at /\ \A c \in Bridges \ {b} : rcv'[c] = rcv[c]
      /\ rcv' \in [Bridges -> RcvAt]
  BY <1>1 DEF ThreadType
<1>3. ThreadType'
  BY <1>1, <1>2 DEF ThreadType, Course
<1>4. Started'
  BY <1>1, <1>2 DEF Started, Course
<1>5. Kinds'
  BY <1>1, <1>2 DEF Kinds
<1>6. Quiet' /\ TornDown'
  BY <1>1, CourseFrame DEF Quiet, Course, ThreadType
<1>7. Listed'
  BY <1>1, <1>2, EntryFacts DEF Listed, AtWork
<1>8. Joined'
  <2>1. sig.at \in {"joining", "ignorable", "rest", "done"} => stop_receiving[b]
    BY <1>1 DEF Quiet, ToldReceiving, AfterStops, AfterBridges
  <2>2. sig.at \in {"joining", "ignorable", "rest", "done"} =>
           \A c \in Bridges : AtWork(c)' => AtWork(c)
    BY <1>2, <2>1 DEF AtWork
  <2> QED
    BY <1>1, <2>2 DEF Joined, Course
<1> QED
  BY <1>3, <1>4, <1>5, <1>6, <1>7, <1>8 DEF ThreadsInv

\* A forwarding thread moves: it works only while it was not told to stop.
LEMMA ForwarderMoved ==
    ASSUME ThreadsInv, UNCHANGED Course,
           UNCHANGED <<rcv, con, tcp, snd, receive_stoped>>,
           send_stoped' \in [Bridges -> BOOLEAN],
           NEW b \in Bridges, NEW at \in FwdAt, fwd' = [fwd EXCEPT ![b] = at], fwd[b] # "none",
           at \in {"inner", "have"} => fwd[b] \in {"inner", "have"} \/ ~stop_sending[b],
           fwd[b] # "gone",
           \A c \in Bridges : send_stoped'[c] => send_stoped[c] \/ (c = b /\ at = "gone"),
           registered' \in {registered \cup {T("fwd", b)}, registered, registered \ {T("fwd", b)}},
           CaptureTornDownQuiet'
    PROVE  ThreadsInv'
<1>1. /\ ThreadType /\ Started /\ Quiet /\ TornDown /\ Joined /\ Kinds /\ Listed
      /\ b \in applied /\ applied \subseteq Bridges
  BY DEF ThreadsInv, Started, ThreadType
<1>2. /\ fwd'[b] = at /\ \A c \in Bridges \ {b} : fwd'[c] = fwd[c]
      /\ fwd' \in [Bridges -> FwdAt]
  BY <1>1 DEF ThreadType
<1>3. ThreadType'
  BY <1>1, <1>2 DEF ThreadType, Course
<1>4. Started'
  BY <1>1, <1>2 DEF Started, Course
<1>5. Kinds'
  BY <1>1, <1>2 DEF Kinds
<1>6. Quiet' /\ TornDown'
  <2>1. ForwardingOver(b) => ToldSending(b)
    BY <1>1, BridgeFacts DEF ForwardingOver, ToldSending, ThreadType
  <2>2. \A c \in applied : /\ ToldReceiving(c)' => stop_receiving[c]
                           /\ ToldSending(c)' => stop_sending[c]
                           /\ ForwardingOver(c)' => ForwardingOver(c) /\ fwd[c] \notin {"inner", "have"}
    BY <1>1, CourseFrame DEF Quiet
  <2>3. \A c \in applied : ForwardingOver(c)' => fwd'[c] \notin {"inner", "have"}
    BY <1>1, <1>2, <2>1, <2>2 DEF Quiet
  <2> QED
    BY <2>2, <2>3, CourseFrame DEF Quiet, Course
<1>7. Listed'
  BY <1>1, EntryFacts DEF Listed, AtWork
<1>8. Joined'
  BY <1>1 DEF Joined, Course, AtWork
<1> QED
  BY <1>3, <1>4, <1>5, <1>6, <1>7, <1>8 DEF ThreadsInv

\* A thread that opens sockets moves, the two that work for all bridges move,
\* or a packet arrives.
LEMMA OthersMoved ==
    ASSUME ThreadsInv, UNCHANGED Course,
           UNCHANGED <<rcv, fwd, receive_stoped, send_stoped, misused>>,
           con' \in [Bridges -> ConAt], \A b \in Bridges : con'[b] = con[b] \/ con[b] # "none",
           tcp' \in {"none", "idle", "held", "gone"}, snd' \in {"idle", "pm", "both", "gone"},
           tcp \notin {"idle", "held"} => tcp' \notin {"idle", "held"}, snd = "gone" => snd' = "gone",
           \A b \in Bridges : T("rcv", b) \in registered => T("rcv", b) \in registered',
           T("tcp", 0) \in registered => T("tcp", 0) \in registered' \/ tcp' \notin {"idle", "held"},
           T("snd", 0) \in registered => T("snd", 0) \in registered' \/ snd' = "gone"
    PROVE  ThreadsInv'
<1>1. /\ ThreadType /\ Started /\ Quiet /\ TornDown /\ Joined /\ Kinds /\ Listed
  BY DEF ThreadsInv
<1>2. ThreadType' /\ Started' /\ Kinds'
  BY <1>1 DEF ThreadType, Started, Kinds, Course
<1>3. Quiet' /\ TornDown' /\ CaptureTornDownQuiet'
  BY <1>1, CourseFrame DEF Quiet, Course, ThreadType, ThreadsInv, CaptureTornDownQuiet
<1>4. Listed' /\ Joined'
  BY <1>1 DEF Listed, Joined, Course, AtWork
<1> QED
  BY <1>2, <1>3, <1>4 DEF ThreadsInv

-----------------------------------------------------------------------------
(* Starting: only before the signal.                                       *)

LEMMA ApplyStep == ASSUME ThreadsInv, NEW b \in Bridges, Apply(b) PROVE ThreadsInv'
<1>1. /\ ThreadType /\ Started /\ Kinds /\ Listed /\ TornDown /\ b \notin applied
      /\ sig.at = "wait" /\ ~quit /\ sig.b = 1
  BY DEF ThreadsInv, Apply, Started
<1>2. /\ applied' = applied \cup {b} /\ rcv' = [rcv EXCEPT ![b] = "born"]
      /\ fwd' \in {[fwd EXCEPT ![b] = "born"], [fwd EXCEPT ![b] = "none"]}
      /\ con' \in {[con EXCEPT ![b] = "born"], [con EXCEPT ![b] = "none"]}
      /\ UNCHANGED <<tcp, snd, stops, destroyed, misused, registered, awaited, sig, quit,
                     quit_app, exited>>
  BY DEF Apply, data, reg, flags
<1>3. ThreadType'
  BY <1>1, <1>2 DEF ThreadType, stops, RcvAt, FwdAt, ConAt
<1>4. Started'
  <2>1. PICK k \in 0..NB : applied = 1..k
    BY <1>1 DEF Started
  <2>2. b \in Nat /\ b >= 1 /\ b <= NB /\ k \in Nat /\ NB \in Nat
    BY <2>1, BridgeFacts
  <2>3. 1..b-1 \subseteq 1..k /\ b \notin 1..k
    BY <1>1, <2>1 DEF Apply
  <2>4. b = k + 1
    <3>1. b > k
      BY <2>2, <2>3
    <3>2. b - 1 >= 1 => b - 1 \in 1..b-1
      BY <2>2
    <3> QED
      BY <2>2, <2>3, <3>1, <3>2
  <2>5. applied' = 1..(k + 1) /\ k + 1 \in 0..NB
    BY <1>2, <2>1, <2>2, <2>4
  <2>6. \A c \in Bridges \ applied' : rcv'[c] = rcv[c] /\ fwd'[c] = fwd[c] /\ con'[c] = con[c]
    BY <1>1, <1>2 DEF ThreadType
  <2>7. sig.at \notin PerBridge
    BY <1>1 DEF PerBridge
  <2> QED
    BY <1>1, <1>2, <2>5, <2>6, <2>7 DEF Started
<1>5. /\ \A c \in Bridges \ {b} : rcv'[c] = rcv[c] /\ fwd'[c] = fwd[c]
      /\ rcv'[b] = "born" /\ send_stoped' = send_stoped
  BY <1>1, <1>2 DEF ThreadType, stops
<1>6. Kinds'
  <2>1. ~send_stoped[b]
    BY <1>1 DEF Started, Kinds
  <2> QED
    BY <1>1, <1>5, <2>1 DEF Kinds
<1>7. Quiet'
  BY <1>1, <1>2 DEF Quiet, ToldReceiving, ToldSending, ForwardingOver, AfterStops, AfterBridges
<1>8. TornDown' /\ CaptureTornDownQuiet'
  BY <1>1, <1>2 DEF TornDown, ThreadsInv, CaptureTornDownQuiet
<1>9. Listed'
  BY <1>1, <1>2, <1>5 DEF Listed, AtWork
<1>10. Joined'
  BY <1>1, <1>2 DEF Joined
<1> QED
  BY <1>3, <1>4, <1>6, <1>7, <1>8, <1>9, <1>10 DEF ThreadsInv

LEMMA PostConfigStep == ASSUME ThreadsInv, PostConfig PROVE ThreadsInv'
<1>1. /\ ThreadType /\ Started /\ Quiet /\ Kinds /\ Listed /\ sig.at = "wait"
  BY DEF ThreadsInv, PostConfig, Started
<1>2. /\ tcp' = "idle" /\ registered' = registered \cup {T("tcp", 0)}
      /\ UNCHANGED Course /\ UNCHANGED <<rcv, fwd, con, snd, receive_stoped, send_stoped, misused>>
  BY DEF PostConfig, Course, stops, data, flags
<1>3. ThreadType' /\ Started' /\ Kinds' /\ Listed'
  BY <1>1, <1>2 DEF ThreadType, Started, Kinds, Listed, AtWork, Course
<1>4. Quiet' /\ TornDown' /\ CaptureTornDownQuiet'
  BY <1>1, <1>2, CourseFrame DEF Quiet, Course, ThreadType, ThreadsInv, CaptureTornDownQuiet
<1>5. Joined'
  BY <1>1, <1>2 DEF Joined, Course
<1> QED
  BY <1>3, <1>4, <1>5 DEF ThreadsInv

-----------------------------------------------------------------------------
(* One step for each action of the threads.                                *)

LEMMA ReceiverStep == ASSUME ThreadsInv, NEW b \in Bridges, ReceiverRuns(b) PROVE ThreadsInv'
<1> USE DEF Course, stops, data, reg, flags
<1>1. /\ ThreadType /\ Started /\ Quiet /\ TornDown /\ Kinds /\ CaptureTornDownQuiet
      /\ receive_stoped \in [Bridges -> BOOLEAN]
  BY DEF ThreadsInv, ThreadType
<1>2. CASE CaptureStarts(b) \/ SocketReceiverStarts(b)
  <2>1. /\ rcv[b] = "born" /\ rcv' = [rcv EXCEPT ![b] = "waitcfg"]
        /\ registered' = registered \cup {T("rcv", b)} /\ UNCHANGED misused
        /\ UNCHANGED Course /\ UNCHANGED <<fwd, con, tcp, snd, receive_stoped, stop_sending, send_stoped>>
    BY <1>2 DEF CaptureStarts, SocketReceiverStarts, thread_registration, start
  <2> QED
    BY <1>1, <2>1, ReceiverMoved DEF CaptureTornDownQuiet, RcvAt
<1>3. CASE PcapOpen(b, TRUE) \/ PcapOpen(b, FALSE)
  <2>1. /\ rcv[b] = "waitcfg" /\ Kind[b] = "pcap" /\ UNCHANGED misused /\ UNCHANGED Course
        /\ UNCHANGED <<fwd, con, tcp, snd, stop_sending, send_stoped>>
        /\ \/ rcv' = [rcv EXCEPT ![b] = "loop"] /\ UNCHANGED <<receive_stoped, registered>>
           \/ Leave(b)
    BY <1>3 DEF PcapOpen, start
  <2>2. CASE rcv' = [rcv EXCEPT ![b] = "loop"] /\ UNCHANGED <<receive_stoped, registered>>
    BY <1>1, <2>1, <2>2, ReceiverMoved DEF CaptureTornDownQuiet, RcvAt
  <2>3. CASE Leave(b)
    BY <1>1, <2>1, <2>3, ReceiverMoved DEF CaptureTornDownQuiet, RcvAt, Leave
  <2> QED
    BY <2>1, <2>2, <2>3
\* A packet that comes after the bridge was taken down is the last one.
<1>4. CASE PcapPacket(b)
  <2>1. b \in destroyed => stop_receiving[b]
    BY <1>1 DEF TornDown, Quiet, ToldReceiving
  <2>2. /\ misused' = misused /\ UNCHANGED Course
        /\ UNCHANGED <<rcv, fwd, con, tcp, snd, send_stoped, registered>>
    BY <1>4, <2>1 DEF PcapPacket, start, thr
  <2>3. receive_stoped' \in [Bridges -> BOOLEAN]
    BY <1>1, <1>4 DEF PcapPacket
  <2>4. rcv[b] = "loop" /\ Kind[b] = "pcap" /\ rcv' = [rcv EXCEPT ![b] = "loop"]
    BY <1>1, <1>4, <2>2 DEF PcapPacket, Kinds, ThreadType
  <2> QED
    BY <1>1, <2>2, <2>3, <2>4, ReceiverMoved DEF CaptureTornDownQuiet, RcvAt
<1>5. CASE PcapBroken(b)
  BY <1>1, <1>5, ReceiverMoved DEF CaptureTornDownQuiet, RcvAt, PcapBroken, Leave, start
<1>6. CASE SocketRuns(b) /\ ~SocketReceiverStarts(b)
  <2>1. /\ UNCHANGED Course /\ UNCHANGED <<fwd, con, tcp, snd, stop_sending, send_stoped>>
        /\ rcv[b] \in {"waitcfg", "top", "select", "drain"}
        /\ rcv[b] = "waitcfg" => Kind[b] = "krnl"
        /\ \/ Leave(b) /\ misused' = misused
           \/ /\ UNCHANGED <<receive_stoped, registered>>
              /\ \E at \in {"top", "select", "drain"} :
                    rcv' = [rcv EXCEPT ![b] = at] /\ (AtWork(b) \/ ~stop_receiving[b])
              /\ misused' = misused \/ (rcv[b] = "drain" /\ misused' \subseteq misused \cup {b})
    <3>1. CASE SocketsOpen(b)
      BY <3>1 DEF SocketsOpen, SocketStep, start, AtWork
    <3>2. CASE SelectOrLeave(b)
      BY <3>2 DEF SelectOrLeave, SocketStep, start, AtWork
    <3>3. CASE Selected(b)
      BY <3>3 DEF Selected, SocketStep, start, AtWork
    <3>4. CASE Drain(b)
      BY <3>4 DEF Drain, SocketStep, start, AtWork
    <3> QED
      BY <1>6, <3>1, <3>2, <3>3, <3>4 DEF SocketRuns
  <2>2. Kind[b] = "krnl"
    BY <1>1, <2>1 DEF Kinds
  <2>3. CaptureTornDownQuiet'
    BY <1>1, <2>1, <2>2 DEF CaptureTornDownQuiet
  <2>4. CASE Leave(b)
    BY <1>1, <2>1, <2>2, <2>3, <2>4, ReceiverMoved DEF RcvAt, Leave
  <2>5. CASE ~Leave(b)
    <3>1. PICK at \in {"top", "select", "drain"} :
             rcv' = [rcv EXCEPT ![b] = at] /\ (AtWork(b) \/ ~stop_receiving[b])
      BY <2>1, <2>5
    <3>2. UNCHANGED <<receive_stoped, registered>> /\ at \in RcvAt \ {"none"} /\ at # "loop"
      BY <2>1, <2>5 DEF RcvAt
    <3>3. AtWork(b) \/ rcv[b] = "waitcfg"
      BY <2>1 DEF AtWork
    <3> QED
      BY <1>1, <2>1, <2>2, <2>3, <3>1, <3>2, <3>3, ReceiverMoved
  <2> QED
    BY <2>4, <2>5
<1> QED
  BY <1>2, <1>3, <1>4, <1>5, <1>6 DEF ReceiverRuns, CaptureRuns, SocketRuns

LEMMA ForwarderStep == ASSUME ThreadsInv, NEW b \in Bridges, ForwarderRuns(b) PROVE ThreadsInv'
<1> USE DEF Course, stops, flags
<1>1. /\ ThreadType /\ Started /\ Quiet /\ TornDown /\ Kinds /\ CaptureTornDownQuiet
      /\ send_stoped \in [Bridges -> BOOLEAN]
  BY DEF ThreadsInv, ThreadType
<1>2. CASE ForwarderStarts(b)
  BY <1>1, <1>2, ForwarderMoved DEF ForwarderStarts, thread_registration, start, data,
                                    CaptureTornDownQuiet, FwdAt
<1>3. CASE FwdOuter(b)
  <2>1. /\ fwd[b] = "outer" /\ UNCHANGED <<misused, stop_sending>> /\ UNCHANGED Course
        /\ UNCHANGED <<rcv, con, tcp, snd, receive_stoped>>
    BY <1>3 DEF FwdOuter, FwdStep, start
  <2>2. CASE stop_sending[b]
    BY <1>1, <1>3, <2>1, <2>2, ForwarderMoved DEF FwdOuter, CaptureTornDownQuiet, FwdAt
  <2>3. CASE ~stop_sending[b]
    BY <1>1, <1>3, <2>1, <2>3, ForwarderMoved DEF FwdOuter, CaptureTornDownQuiet, FwdAt
  <2> QED
    BY <2>2, <2>3
\* A thread that works has a bridge that was not taken down.
<1>4. CASE FwdPop(b) \/ FwdPublish(b)
  <2>1. fwd[b] \in {"inner", "have"}
    BY <1>4 DEF FwdPop, FwdPublish
  <2>2. b \notin destroyed
    BY <1>1, <2>1 DEF TornDown, Quiet, ForwardingOver
  <2>3. /\ misused' = misused /\ UNCHANGED Course
        /\ UNCHANGED <<rcv, con, tcp, snd, receive_stoped, send_stoped, registered>>
    BY <1>4, <2>2 DEF FwdPop, FwdPublish, FwdStep, start
  <2>4. \E at \in {"inner", "have", "outer"} : fwd' = [fwd EXCEPT ![b] = at]
    BY <1>4 DEF FwdPop, FwdPublish
  <2> QED
    BY <1>1, <2>1, <2>3, <2>4, ForwarderMoved DEF CaptureTornDownQuiet, FwdAt
<1> QED
  BY <1>2, <1>3, <1>4 DEF ForwarderRuns

LEMMA ConnectorStep == ASSUME ThreadsInv, NEW b \in Bridges, ConnectorRuns(b) PROVE ThreadsInv'
<1> USE DEF Course, stops, flags
<1>1. /\ con[b] # "none" /\ UNCHANGED Course
      /\ UNCHANGED <<rcv, fwd, tcp, snd, receive_stoped, send_stoped, misused>>
      /\ \E at \in {"waitcfg", "connect", "gone"} : con' = [con EXCEPT ![b] = at]
      /\ registered' \in {registered \cup {T("con", b)}, registered, registered \ {T("con", b)}}
  BY DEF ConnectorRuns, ConnectorStarts, ConnectUdp, thread_registration, start, data
<1>2. ThreadType
  BY DEF ThreadsInv
<1>3. con' \in [Bridges -> ConAt] /\ \A c \in Bridges : con'[c] = con[c] \/ con[c] # "none"
  BY <1>1, <1>2 DEF ThreadType, ConAt
<1> QED
  BY <1>1, <1>2, <1>3, EntryFacts, OthersMoved DEF ThreadType

\* The relay and the connection thread, the network and the end of the program.
LEMMA CommonStep ==
    ASSUME ThreadsInv, \/ TcpRound \/ SndRound \/ \E b \in Bridges, u \in Sockets : Arrives(b, u)
    PROVE  ThreadsInv'
<1>1. ThreadType /\ con \in [Bridges -> ConAt]
  BY DEF ThreadsInv, ThreadType
<1>2. CASE TcpRound
  <2>1. /\ UNCHANGED Course
        /\ UNCHANGED <<rcv, fwd, con, snd, receive_stoped, send_stoped, misused>>
        /\ tcp \in {"idle", "held"} /\ tcp' \in {"idle", "held", "gone"}
        /\ registered' = registered \/ (tcp' = "gone" /\ registered' = registered \ {T("tcp", 0)})
    BY <1>2 DEF TcpRound, LockStep, Course, start, stops, data, flags
  <2> QED
    BY <1>1, <2>1, EntryFacts, OthersMoved DEF ThreadType
<1>3. CASE SndRound
  <2>1. /\ UNCHANGED Course
        /\ UNCHANGED <<rcv, fwd, con, tcp, receive_stoped, send_stoped, misused>>
        /\ snd # "gone" /\ snd' \in {"idle", "pm", "both", "gone"}
        /\ registered' = registered \/ (snd' = "gone" /\ registered' = registered \ {T("snd", 0)})
    BY <1>3 DEF SndRound, LockStep, Course, start, stops, data, flags
  <2> QED
    BY <1>1, <2>1, EntryFacts, OthersMoved DEF ThreadType
<1>4. CASE \E b \in Bridges, u \in Sockets : Arrives(b, u)
  <2>1. /\ UNCHANGED Course
        /\ UNCHANGED <<rcv, fwd, con, tcp, snd, registered, receive_stoped, send_stoped, misused>>
    BY <1>4 DEF Arrives, Course, start, thr, stops, data, reg, flags
  <2> QED
    BY <1>1, <2>1, OthersMoved DEF ThreadType
<1> QED
  BY <1>2, <1>3, <1>4

LEMMA ExitStep == ASSUME ThreadsInv, Exit PROVE ThreadsInv'
<1>1. /\ ThreadType /\ Started /\ Kinds /\ Quiet /\ TornDown /\ Listed /\ Joined
      /\ CaptureTornDownQuiet
  BY DEF ThreadsInv
<1>2. /\ quit_app /\ UNCHANGED <<applied, rcv, fwd, con, tcp, snd, stops, destroyed, misused>>
      /\ UNCHANGED <<registered, awaited, sig, quit, quit_app>>
  BY DEF Exit, start, thr, stops, data, reg
<1>3. ThreadType' /\ Started' /\ Kinds' /\ Listed'
  BY <1>1, <1>2 DEF ThreadType, Started, Kinds, Listed, AtWork, stops
<1>4. Quiet' /\ TornDown' /\ CaptureTornDownQuiet' /\ Joined'
  BY <1>1, <1>2 DEF Quiet, ToldReceiving, ToldSending, ForwardingOver, TornDown, Joined, AtWork,
                    CaptureTornDownQuiet, stops
<1> QED
  BY <1>3, <1>4 DEF ThreadsInv

LEMMA ThreadsNext == ASSUME ThreadsInv, [Next]_vars PROVE ThreadsInv'
<1>1. CASE Next
  BY <1>1, PostConfigStep, SigIntStep, SignalStep, ExitStep, CommonStep, ApplyStep, ReceiverStep,
     ConnectorStep, ForwarderStep DEF Next
<1>2. CASE UNCHANGED vars
  <2>1. /\ UNCHANGED Course
        /\ UNCHANGED <<rcv, fwd, con, tcp, snd, registered, receive_stoped, send_stoped, misused>>
    BY <1>2 DEF vars, Course, start, thr, stops, data, reg, flags
  <2>2. ThreadType
    BY DEF ThreadsInv
  <2> QED
    BY <2>1, <2>2, OthersMoved DEF ThreadType
<1> QED
  BY <1>1, <1>2

\* What the threads and the shutdown keep true together.
THEOREM ThreadsInvariant == Spec => []ThreadsInv
<1>1. ThreadsInv /\ [Next]_vars => ThreadsInv'
  BY ThreadsNext
<1> QED
  BY ThreadsInit, <1>1, PTL DEF Spec

\* cleanup_after_nomore_udp never takes a ring away from a thread that will
\* use it, for any number of bridges and wherever the threads are when the
\* waits of stop_input_udp and stop_input_udp_bus run out.
THEOREM TearDownIsQuiet == Spec => []CaptureTornDownQuiet
<1>1. ThreadsInv => CaptureTornDownQuiet
  BY DEF ThreadsInv
<1> QED
  BY <1>1, ThreadsInvariant, PTL

\* When the program ends nothing is forwarded, read or sent any more: what
\* cleanup_threads waits for and the flags raised before cover every thread.
THEOREM ExitIsQuiet == Spec => []NoWorkAtExit
<1>1. ASSUME ThreadsInv PROVE NoWorkAtExit
  <2> SUFFICES ASSUME exited
               PROVE  /\ \A b \in Bridges : fwd[b] \notin {"inner", "have"} /\ ~AtWork(b)
                      /\ tcp # "held" /\ snd = "gone"
    BY DEF NoWorkAtExit, AtWork
  <2>1. sig.at \in {"rest", "done"} /\ sig.at \in AfterStops
    BY <1>1 DEF ThreadsInv, Started, AfterStops, AfterBridges
  <2>2. (\A b \in Bridges : ~AtWork(b)) /\ tcp # "held" /\ snd = "gone"
    BY <1>1, <2>1 DEF ThreadsInv, Joined
  <2>3. ASSUME NEW b \in Bridges PROVE fwd[b] \notin {"inner", "have"}
    <3>1. CASE b \in applied
      BY <1>1, <2>1, <3>1 DEF ThreadsInv, Quiet, ForwardingOver
    <3>2. CASE b \notin applied
      BY <1>1, <3>2 DEF ThreadsInv, Started
    <3> QED
      BY <3>1, <3>2
  <2> QED
    BY <2>2, <2>3
<1> QED
  BY <1>1, ThreadsInvariant, PTL

-----------------------------------------------------------------------------
(* The rest of the state.                                                  *)

\* A socket bridge opens its sockets in turn, and as long as its connector is
\* at it there is one left; a capture bridge has no connector.
OpenedInTurn ==
    \A b \in Bridges :
        /\ Kind[b] = "pcap" => con[b] = "none"
        /\ Kind[b] = "krnl" /\ con[b] # "gone" => \E k \in 0..NU - 1 : established[b] = 1..k

NetType ==
    /\ established \in [Bridges -> SUBSET Sockets]
    /\ watched \in [Bridges -> SUBSET Sockets]
    /\ pending \in [Bridges -> SUBSET Sockets]
    /\ sent \in [Bridges -> Nat]
    /\ handle \in [Bridges -> BOOLEAN] /\ breaking \in [Bridges -> BOOLEAN]
    /\ ring \in [Bridges -> 0..RingCap] /\ misused \subseteq Bridges

CourseType ==
    /\ registered \subseteq Thread /\ awaited \subseteq Thread
    /\ mtx \in {Free, "tcp", "snd", "sig"} /\ pm \in {Free, "snd", "sig"}
    /\ sig.b \in Bridges
    /\ post_cfg \in BOOLEAN /\ quit \in BOOLEAN /\ noloss \in BOOLEAN
    /\ quit_app \in BOOLEAN /\ exited \in BOOLEAN

StateInv == ThreadsInv /\ OpenedInTurn /\ NetType /\ CourseType

LEMMA ThreadEntries ==
    /\ \A b \in Bridges : {T("rcv", b), T("fwd", b), T("con", b)} \subseteq Thread
    /\ T("tcp", 0) \in Thread /\ T("snd", 0) \in Thread
  BY DEF T, Thread

LEMMA StateInit == Init => StateInv
<1> SUFFICES ASSUME Init PROVE StateInv
  OBVIOUS
<1>1. NetType /\ CourseType
  <2>1. 1 \in Bridges /\ RingCap \in Nat
    BY ThreadsAssumption DEF Bridges
  <2>2. NetType
    BY <2>1 DEF Init, NetType
  <2> QED
    BY <2>1, <2>2, ThreadEntries DEF Init, CourseType
<1>2. OpenedInTurn
  <2>1. 0 \in 0..NU - 1 /\ {} = 1..0
    BY ThreadsAssumption
  <2> QED
    BY <2>1 DEF Init, OpenedInTurn
<1> QED
  BY <1>1, <1>2, ThreadsInit DEF StateInv

\* The signal thread writes its own place, the flags and the two locks.
LEMMA SignalTypes ==
    ASSUME StateInv, SigInt \/ Signal
    PROVE  OpenedInTurn' /\ NetType' /\ CourseType'
<1>1. /\ ThreadType /\ Started /\ OpenedInTurn /\ NetType /\ CourseType
      /\ sig \in [at : SigAt, b : Nat] /\ 1 \in Bridges /\ applied \subseteq Bridges
  BY ThreadsAssumption DEF StateInv, ThreadsInv, ThreadType, Bridges
<1>2. UNCHANGED <<post_cfg, rcv, con, net, handle, ring, misused, registered, exited>>
  BY DEF SigInt, Signal, BreakLoop, LoopBroken, StopReceiving, ReceiveStoped, StopSending,
         SendStoped, TakeMtx, TakePm, UnlockMtx, DestroyInput, SegmentsCleaned,
         CleanupThreads, ThreadsGone, IgnoreCleanup, CleanupRest, SigStep, start, thr
<1>3. OpenedInTurn'
  BY <1>1, <1>2 DEF OpenedInTurn, net
<1>4. breaking' \in [Bridges -> BOOLEAN]
  BY <1>1 DEF NetType, SigInt, Signal, BreakLoop, LoopBroken, StopReceiving, ReceiveStoped,
              StopSending, SendStoped, TakeMtx, TakePm, UnlockMtx, DestroyInput,
              SegmentsCleaned, CleanupThreads, ThreadsGone, IgnoreCleanup, CleanupRest
<1>5. NetType'
  BY <1>1, <1>2, <1>4 DEF NetType, net
<1>6. awaited' \subseteq Thread
  BY <1>1 DEF CourseType, SigInt, Signal, BreakLoop, LoopBroken, StopReceiving, ReceiveStoped,
              StopSending, SendStoped, TakeMtx, TakePm, UnlockMtx, DestroyInput,
              SegmentsCleaned, CleanupThreads, ThreadsGone, IgnoreCleanup, CleanupRest
<1>7. mtx' \in {Free, "tcp", "snd", "sig"} /\ pm' \in {Free, "snd", "sig"}
  BY <1>1 DEF CourseType, SigInt, Signal, BreakLoop, LoopBroken, StopReceiving, ReceiveStoped,
              StopSending, SendStoped, TakeMtx, TakePm, UnlockMtx, DestroyInput, locks,
              SegmentsCleaned, CleanupThreads, ThreadsGone, IgnoreCleanup, CleanupRest
<1>8. quit' \in BOOLEAN /\ noloss' \in BOOLEAN /\ quit_app' \in BOOLEAN
  BY <1>1 DEF CourseType, SigInt, Signal, BreakLoop, LoopBroken, StopReceiving, ReceiveStoped,
              StopSending, SendStoped, TakeMtx, TakePm, UnlockMtx, DestroyInput,
              SegmentsCleaned, CleanupThreads, ThreadsGone, IgnoreCleanup, CleanupRest
<1>9. sig'.b \in Bridges
  <2>1. ASSUME NEW at, Go(at) PROVE sig'.b \in Bridges
    BY <1>1, <2>1 DEF Go, CourseType
  <2>2. ASSUME NEW at, NEW done, sig.at \in PerBridge, NextIn(at, done) PROVE sig'.b \in Bridges
    BY <1>1, <2>2, NextInFacts
  <2>3. \/ \E at \in SigAt : Go(at)
        \/ sig.at \in PerBridge /\ \E at, done \in SigAt : NextIn(at, done)
    BY DEF SigInt, Signal, BreakLoop, LoopBroken, StopReceiving, ReceiveStoped, StopSending,
           SendStoped, TakeMtx, TakePm, UnlockMtx, DestroyInput, SegmentsCleaned,
           CleanupThreads, ThreadsGone, IgnoreCleanup, CleanupRest, SigAt, PerBridge
  <2> QED
    BY <2>1, <2>2, <2>3
<1> QED
  BY <1>1, <1>2, <1>3, <1>5, <1>6, <1>7, <1>8, <1>9 DEF CourseType

\* The list and the flags when a thread of a bridge moves.
LEMMA ListMoved ==
    ASSUME CourseType, UNCHANGED <<post_cfg, awaited, locks, sig, flags>>,
           NEW t \in Thread,
           registered' \in {registered, registered \cup {t}, registered \ {t}}
    PROVE  CourseType'
  BY DEF CourseType, locks, flags

LEMMA ReceiverTypes ==
    ASSUME StateInv, NEW b \in Bridges, ReceiverRuns(b)
    PROVE  OpenedInTurn' /\ NetType' /\ CourseType'
<1>1. /\ OpenedInTurn /\ NetType /\ CourseType /\ 1 \in Sockets
      /\ RingCap \in Nat /\ T("rcv", b) \in Thread
  BY ThreadsAssumption, ThreadEntries DEF StateInv, Sockets
<1>2. /\ UNCHANGED <<post_cfg, con, sent, breaking, awaited, locks, sig, flags>>
      /\ registered' \in {registered, registered \cup {T("rcv", b)}, registered \ {T("rcv", b)}}
  BY DEF ReceiverRuns, CaptureRuns, SocketRuns, CaptureStarts, SocketReceiverStarts, PcapOpen,
         PcapPacket, PcapBroken, SocketsOpen, SelectOrLeave, Selected, Drain, Leave, SocketStep,
         thread_registration, start, thr, net, pcap, reg
<1>3. CourseType'
  BY <1>1, <1>2, ListMoved
<1>4. \/ UNCHANGED established
      \/ Kind[b] = "pcap" /\ established' = [established EXCEPT ![b] = {1}]
  BY DEF ReceiverRuns, CaptureRuns, SocketRuns, CaptureStarts, SocketReceiverStarts, PcapOpen,
         PcapPacket, PcapBroken, SocketsOpen, SelectOrLeave, Selected, Drain, SocketStep,
         thread_registration, net
<1>5. OpenedInTurn' /\ established' \in [Bridges -> SUBSET Sockets]
  BY <1>1, <1>2, <1>4 DEF OpenedInTurn, NetType
<1>6. \E e \in {watched[b], established[b], watched[b] \cap pending[b]} :
          watched' = watched \/ watched' = [watched EXCEPT ![b] = e]
  BY DEF ReceiverRuns, CaptureRuns, SocketRuns, CaptureStarts, SocketReceiverStarts, PcapOpen,
         PcapPacket, PcapBroken, SocketsOpen, SelectOrLeave, Selected, Drain,
         thread_registration, net
<1>7. \E e \in {{}, pending[b] \ watched[b]} :
          pending' = pending \/ pending' = [pending EXCEPT ![b] = e]
  BY DEF ReceiverRuns, CaptureRuns, SocketRuns, CaptureStarts, SocketReceiverStarts, PcapOpen,
         PcapPacket, PcapBroken, SocketsOpen, SelectOrLeave, Selected, Drain,
         thread_registration, net
<1>8. \E h \in BOOLEAN : handle' = handle \/ handle' = [handle EXCEPT ![b] = h]
  BY DEF ReceiverRuns, CaptureRuns, SocketRuns, CaptureStarts, SocketReceiverStarts, PcapOpen,
         PcapPacket, PcapBroken, SocketsOpen, SelectOrLeave, Selected, Drain, SocketStep,
         thread_registration, pcap
<1>9. /\ \/ UNCHANGED ring
         \/ ring' = [ring EXCEPT ![b] = IF @ < RingCap THEN @ + 1 ELSE @]
      /\ misused' \subseteq misused \cup {b}
  BY DEF ReceiverRuns, CaptureRuns, SocketRuns, CaptureStarts, SocketReceiverStarts, PcapOpen,
         PcapPacket, PcapBroken, SocketsOpen, SelectOrLeave, Selected, Drain, SocketStep,
         thread_registration, data
<1>10. watched' \in [Bridges -> SUBSET Sockets] /\ pending' \in [Bridges -> SUBSET Sockets]
  BY <1>1, <1>6, <1>7 DEF NetType
<1>11. handle' \in [Bridges -> BOOLEAN]
  BY <1>1, <1>8 DEF NetType
<1>12. ring' \in [Bridges -> 0..RingCap] /\ misused' \subseteq Bridges
  BY <1>1, <1>9 DEF NetType
<1> QED
  BY <1>1, <1>2, <1>3, <1>5, <1>10, <1>11, <1>12 DEF NetType

LEMMA ForwarderTypes ==
    ASSUME StateInv, NEW b \in Bridges, ForwarderRuns(b)
    PROVE  OpenedInTurn' /\ NetType' /\ CourseType'
<1>1. /\ OpenedInTurn /\ NetType /\ CourseType /\ RingCap \in Nat /\ T("fwd", b) \in Thread
  BY ThreadsAssumption, ThreadEntries DEF StateInv
<1>2. /\ UNCHANGED <<post_cfg, con, net, pcap, awaited, locks, sig, flags>>
      /\ registered' \in {registered, registered \cup {T("fwd", b)}, registered \ {T("fwd", b)}}
  BY DEF ForwarderRuns, ForwarderStarts, FwdOuter, FwdPop, FwdPublish, FwdStep,
         thread_registration, start
<1>3. /\ \/ UNCHANGED ring
         \/ ring' = [ring EXCEPT ![b] = IF @ > 0 THEN @ - 1 ELSE @]
      /\ misused' \subseteq misused \cup {b}
  BY DEF ForwarderRuns, ForwarderStarts, FwdOuter, FwdPop, FwdPublish, thread_registration, data
<1>4. ring' \in [Bridges -> 0..RingCap] /\ misused' \subseteq Bridges
  BY <1>1, <1>3 DEF NetType
<1>5. CourseType'
  BY <1>1, <1>2, ListMoved
<1>6. OpenedInTurn' /\ NetType'
  BY <1>1, <1>2, <1>4 DEF OpenedInTurn, NetType, net, pcap
<1> QED
  BY <1>5, <1>6

\* The next socket is always one of the configured ones.
LEMMA ConnectorTypes ==
    ASSUME StateInv, NEW b \in Bridges, ConnectorRuns(b)
    PROVE  OpenedInTurn' /\ NetType' /\ CourseType'
<1>1. /\ OpenedInTurn /\ NetType /\ CourseType /\ T("con", b) \in Thread
      /\ con \in [Bridges -> ConAt] /\ Kind[b] \in {"pcap", "krnl"} /\ NU \in Nat /\ NU >= 1
  BY ThreadsAssumption, ThreadEntries DEF StateInv, ThreadsInv, ThreadType
<1>2. /\ UNCHANGED <<post_cfg, watched, pending, sent, pcap, ring, misused, awaited, locks,
                     sig, flags>>
      /\ registered' \in {registered, registered \cup {T("con", b)}, registered \ {T("con", b)}}
  BY DEF ConnectorRuns, ConnectorStarts, ConnectUdp, thread_registration, start, net, data
<1>3. CourseType'
  BY <1>1, <1>2, ListMoved
<1>4. con[b] \notin {"none", "gone"} /\ Kind[b] = "krnl"
  BY <1>1 DEF ConnectorRuns, ConnectorStarts, ConnectUdp, OpenedInTurn
<1>5. PICK k \in 0..NU - 1 : established[b] = 1..k
  BY <1>1, <1>4 DEF OpenedInTurn
<1>6. CASE ConnectorStarts(b)
  <2>1. UNCHANGED established /\ con' = [con EXCEPT ![b] = "waitcfg"]
    BY <1>6 DEF ConnectorStarts, thread_registration, net
  <2> QED
    BY <1>1, <1>2, <1>3, <1>4, <2>1 DEF OpenedInTurn, NetType, pcap
<1>7. CASE \E ok \in BOOLEAN : ConnectUdp(b, ok)
  <2>1. PICK ok \in BOOLEAN : ConnectUdp(b, ok)
    BY <1>7
  <2>2. k \in Nat /\ Cardinality(1..k) = k /\ k + 1 <= NU
    BY <1>1, FS_Interval
  <2>3. /\ established' = [established EXCEPT ![b] = IF ok THEN 1..k \cup {k + 1} ELSE 1..k]
        /\ con' = [con EXCEPT ![b] = IF ~ok \/ k + 1 = NU THEN "gone" ELSE "connect"]
    BY <1>1, <1>5, <2>1, <2>2 DEF ConnectUdp, NetType
  <2>4. 1..k \cup {k + 1} = 1..k + 1 /\ 1..k + 1 \subseteq Sockets /\ 1..k \subseteq Sockets
    BY <1>1, <2>2 DEF Sockets
  <2>5. established' \in [Bridges -> SUBSET Sockets]
    BY <1>1, <2>3, <2>4 DEF NetType
  <2>6. ASSUME con'[b] # "gone" PROVE established'[b] = 1..k + 1 /\ k + 1 \in 0..NU - 1
    <3>1. con'[b] = IF ~ok \/ k + 1 = NU THEN "gone" ELSE "connect"
      BY <1>1, <2>3
    <3>2. ok /\ k + 1 # NU
      BY <2>6, <3>1
    <3>3. established'[b] = 1..k \cup {k + 1}
      BY <1>1, <2>3, <3>2 DEF NetType
    <3> QED
      BY <1>1, <2>2, <2>4, <3>2, <3>3
  <2>7. \A c \in Bridges \ {b} : con'[c] = con[c] /\ established'[c] = established[c]
    BY <1>1, <2>3 DEF NetType
  <2>8. OpenedInTurn'
    BY <1>1, <1>4, <2>6, <2>7 DEF OpenedInTurn
  <2> QED
    BY <1>1, <1>2, <1>3, <2>5, <2>8 DEF NetType, pcap
<1> QED
  BY <1>6, <1>7 DEF ConnectorRuns

\* The start of a bridge and of the connection thread, the relay, the network
\* and the end of the program.
LEMMA CommonTypes ==
    ASSUME StateInv,
           \/ PostConfig \/ Exit \/ TcpRound \/ SndRound \/ UNCHANGED vars
           \/ \E b \in Bridges : Apply(b) \/ \E u \in Sockets : Arrives(b, u)
    PROVE  OpenedInTurn' /\ NetType' /\ CourseType'
<1>1. /\ OpenedInTurn /\ NetType /\ CourseType /\ Started
      /\ T("tcp", 0) \in Thread /\ T("snd", 0) \in Thread
      /\ con \in [Bridges -> ConAt] /\ Kind \in [Bridges -> {"pcap", "krnl"}]
  BY ThreadsAssumption, ThreadEntries DEF StateInv, ThreadsInv, ThreadType
<1>2. CASE \E b \in Bridges : Apply(b)
  <2>1. PICK b \in Bridges : Apply(b)
    BY <1>2
  <2>2. con[b] = "none"
    BY <1>1, <2>1 DEF Apply, Started
  <2>3. /\ con' = [con EXCEPT ![b] = IF Kind[b] = "krnl" THEN "born" ELSE "none"]
        /\ UNCHANGED <<post_cfg, net, pcap, ring, misused, reg, locks, sig, flags>>
    BY <2>1 DEF Apply, HasConnector, data
  <2> QED
    BY <1>1, <2>2, <2>3 DEF OpenedInTurn, NetType, CourseType, net, pcap, reg, locks, flags
<1>3. CASE \E b \in Bridges, u \in Sockets : Arrives(b, u)
  <2>1. PICK b \in Bridges, u \in Sockets : Arrives(b, u)
    BY <1>3
  <2>2. /\ UNCHANGED <<post_cfg, con, established, watched, pcap, ring, misused, reg, locks,
                       sig, flags>>
        /\ sent' = [sent EXCEPT ![b] = @ + 1]
        /\ pending' = [pending EXCEPT ![b] = @ \cup {u}]
    BY <2>1 DEF Arrives, start, thr, data
  <2>3. pending' \in [Bridges -> SUBSET Sockets] /\ sent' \in [Bridges -> Nat]
    BY <1>1, <2>2 DEF NetType
  <2> QED
    BY <1>1, <2>2, <2>3 DEF OpenedInTurn, NetType, CourseType, pcap, reg, locks, flags
<1>4. CASE PostConfig \/ Exit \/ TcpRound \/ SndRound \/ UNCHANGED vars
  <2>1. UNCHANGED <<con, net, pcap, ring, misused, awaited, sig, noloss, quit>>
    BY <1>4 DEF PostConfig, Exit, TcpRound, SndRound, LockStep, vars, thr, data, reg, flags
  <2>2. /\ mtx' \in {Free, "tcp", "snd", "sig"} /\ pm' \in {Free, "snd", "sig"}
        /\ post_cfg' \in BOOLEAN /\ quit_app' \in BOOLEAN /\ exited' \in BOOLEAN
        /\ registered' \subseteq Thread
    BY <1>1, <1>4 DEF PostConfig, Exit, TcpRound, SndRound, LockStep, vars, start, reg, locks,
                      flags, CourseType
  <2> QED
    BY <1>1, <2>1, <2>2 DEF OpenedInTurn, NetType, CourseType, net, pcap
<1> QED
  BY <1>2, <1>3, <1>4

\* Every variable keeps its type: the sockets a bridge has open are
\* configured ones, because connect_udps_proc gives up or has opened all of them
\* before it would go on to the next; the fast ring never holds more than it
\* can, and the signal thread is at a bridge.
THEOREM TypeCorrect == Spec => []TypeOK
<1>1. ASSUME StateInv, [Next]_vars PROVE StateInv'
  <2>1. ThreadsInv'
    BY <1>1, ThreadsNext DEF StateInv
  <2>2. OpenedInTurn' /\ NetType' /\ CourseType'
    BY <1>1, SignalTypes, ReceiverTypes, ForwarderTypes, ConnectorTypes, CommonTypes DEF Next
  <2> QED
    BY <2>1, <2>2 DEF StateInv
<1>2. ASSUME StateInv PROVE TypeOK
  <2>1. /\ ThreadType /\ NetType /\ CourseType /\ destroyed \subseteq applied
    BY <1>2 DEF StateInv, ThreadsInv, TornDown
  <2>2. sig \in [at : SigAt, b : 1..NB + 1]
    BY <2>1, BridgeFacts DEF ThreadType, CourseType
  <2> QED
    BY <2>1, <2>2 DEF TypeOK, ThreadType, NetType, CourseType
<1> QED
  BY StateInit, <1>1, <1>2, PTL DEF Spec
=============================================================================

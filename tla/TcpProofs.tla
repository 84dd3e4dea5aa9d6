------------------------------ MODULE TcpProofs ------------------------------
(***************************************************************************)
(* Proofs about the two ends of TCP: no interleaving of the connection     *)
(* thread and a sending thread leaves a tcph_tcp output stuck (TcpConn),   *)
(* for any number of outputs of either type; and in the TCP reader         *)
(* (TcpListener), for any list of listeners, any edits and any number of   *)
(* threads, a listener thread keeps its record and is never deaf.          *)
(***************************************************************************)
EXTENDS TcpConn, TcpListener, SequenceTheorems, TLAPS

-----------------------------------------------------------------------------
(* The outputs of a bridge (TcpConn).                                      *)

IInv == TypeOK /\ NeverStuck

\* The walk over the outputs stays on an output.
LEMMA ContinueFacts ==
    ASSUME NEW i \in Outputs, Continue(i)
    PROVE  cpc' \in {"look", "sleep"} /\ itcp' \in Outputs
  BY TcpAssumption DEF Continue, Outputs

\* The walk can start over at the first output.
LEMMA FirstOutput == 1 \in Outputs
  BY TcpAssumption DEF Outputs

\* The invariant holds in the initial states.
LEMMA InitIInv == Init => IInv
<1> SUFFICES ASSUME Init PROVE IInv
  OBVIOUS
<1>1. TypeOK
  <2>1. /\ est \in [Outputs -> BOOLEAN] /\ flag \in [Outputs -> BOOLEAN]
        /\ idle \in [Outputs -> BOOLEAN] /\ known \in [Outputs -> BOOLEAN]
    BY DEF Init
  <2>2. connected_tcp_out \in 0..MaxOut /\ itcp \in Outputs /\ ptcp \in Outputs
    BY FirstOutput, TcpAssumption DEF Init
  <2>3. cpc \in ConnLoc /\ spc \in {"idle", "check", "set", "close", "slow"}
        /\ peer \in [Outputs -> Peer]
    BY DEF Init, ConnLoc, Peer
  <2>4. up \in [Outputs -> BOOLEAN] /\ block_sending_1 \in BOOLEAN
    BY Zenon DEF Init
  <2> QED
    BY <2>1, <2>2, <2>3, <2>4 DEF TypeOK
<1>2. NeverStuck
  BY DEF Init, NeverStuck
<1> QED
  BY <1>1, <1>2 DEF IInv

\* The functions and counters keep their types.
LEMMA TypeStep == TypeOK /\ [Next]_vars => TypeOK'
<1> SUFFICES ASSUME TypeOK, [Next]_vars PROVE TypeOK'
  OBVIOUS
<1> USE DEF TypeOK, ConnLoc, Peer, shared, conn, snd, net
<1>1. CASE ConnPass
  BY <1>1 DEF ConnPass
<1>2. CASE ConnProbe
  BY <1>2 DEF ConnProbe
<1>3. CASE ConnSkip
  BY <1>3, ContinueFacts DEF ConnSkip
<1>4. CASE ConnClosed
  BY <1>4 DEF ConnClosed
<1>5. CASE ConnPeek
  BY <1>5, ContinueFacts DEF ConnPeek
<1>6. CASE ConnMark
  BY <1>6 DEF ConnMark
<1>7. CASE ConnClose
  BY <1>7, ContinueFacts, FirstOutput DEF ConnClose
<1>8. CASE ConnTry
  BY <1>8, ContinueFacts DEF ConnTry
<1>9. CASE ConnClear
  BY <1>9 DEF ConnClear
<1>10. CASE ConnPublish
  BY <1>10, ContinueFacts, TcpAssumption DEF ConnPublish
<1>11. CASE SndWritten
  BY <1>11 DEF SndWritten
<1>12. CASE SndNoPeer
  BY <1>12 DEF SndNoPeer
<1>13. CASE SndCheck
  BY <1>13 DEF SndCheck
<1>14. CASE SndSet
  BY <1>14 DEF SndSet
<1>15. CASE SndClose
  BY <1>15 DEF SndClose
<1>16. CASE PeerCloses
  BY <1>16 DEF PeerCloses
<1>17. CASE ServerToggles
  BY <1>17 DEF ServerToggles
<1>18. CASE SigInt
  BY <1>18 DEF SigInt
<1>19. CASE \E t \in Outputs : IdlePasses(t)
  BY <1>19 DEF IdlePasses
<1>20. CASE UNCHANGED vars
  BY <1>20 DEF vars
<1>21. CASE SndMiss
  BY <1>21 DEF SndMiss
<1>22. CASE SndSlow
  BY <1>22 DEF SndSlow
<1> QED
  BY <1>1, <1>2, <1>3, <1>4, <1>5, <1>6, <1>7, <1>8, <1>9, <1>10, <1>11, <1>12,
     <1>13, <1>14, <1>15, <1>16, <1>17, <1>18, <1>19, <1>20,
     <1>21, <1>22
     DEF Next, Connection, SndReact

\* The three ways into the marked and established state each put a thread in
\* front of the step that leaves it.
LEMMA StuckStep == IInv /\ [Next]_vars => NeverStuck'
<1> SUFFICES ASSUME IInv, [Next]_vars,
                    NEW t \in Outputs \ Curl, est'[t], flag'[t]
             PROVE  \/ spc' = "close" /\ ptcp' = t
                    \/ cpc' \in {"close", "clear"} /\ itcp' = t
  BY DEF NeverStuck
<1> USE DEF IInv, shared, conn, snd, net
<1>a. est \in [Outputs -> BOOLEAN] /\ flag \in [Outputs -> BOOLEAN] /\ itcp \in Outputs
      /\ ptcp \in Outputs
  BY DEF TypeOK
<1>b. est[t] /\ flag[t] => \/ spc = "close" /\ ptcp = t
                           \/ cpc \in {"close", "clear"} /\ itcp = t
  BY DEF NeverStuck
<1>1. CASE /\ UNCHANGED <<est, flag, spc, ptcp>>
           /\ UNCHANGED <<cpc, itcp>> \/ cpc \notin {"close", "clear"}
  BY <1>1, <1>b
<1>2. CASE UNCHANGED <<est, flag, cpc, itcp>> /\ spc # "close"
  BY <1>2, <1>b
<1>3. CASE ConnMark
  BY <1>3, <1>a, <1>b DEF ConnMark
<1>4. CASE ConnClose
  BY <1>4, <1>a, <1>b DEF ConnClose
<1>5. CASE ConnTry
  BY <1>5, <1>a, <1>b DEF ConnTry
<1>6. CASE ConnClear
  BY <1>6, <1>a, <1>b DEF ConnClear
<1>7. CASE SndSet
  BY <1>7, <1>a, <1>b DEF SndSet
<1>8. CASE SndClose
  BY <1>8, <1>a, <1>b DEF SndClose
<1>9. CASE SndSlow
  <2>1. cpc \notin {"close", "clear"} /\ spc # "close"
    BY <1>9 DEF SndSlow
  <2>2. ~(est[t] /\ flag[t])
    BY <2>1, <1>b
  <2>3. CASE UNCHANGED <<est, flag>>
    BY <2>2, <2>3
  <2>4. CASE est' = [est EXCEPT ![ptcp] = flag[ptcp]] /\ flag' = [flag EXCEPT ![ptcp] = TRUE]
             /\ est[ptcp]
    BY <1>a, <2>2, <2>4
  <2> QED
    BY <1>9, <2>3, <2>4 DEF SndSlow
<1> QED
  <2>1. ConnPass \/ ConnProbe \/ ConnSkip \/ ConnClosed \/ ConnPeek \/ ConnPublish
          => /\ UNCHANGED <<est, flag, spc, ptcp>>
             /\ cpc \notin {"close", "clear"}
    BY DEF ConnPass, ConnProbe, ConnSkip, ConnClosed, ConnPeek, ConnPublish
  <2>2. SndWritten \/ PeerCloses \/ ServerToggles \/ SigInt
          \/ (\E u \in Outputs : IdlePasses(u)) \/ UNCHANGED vars
          => UNCHANGED <<est, flag, spc, ptcp, cpc, itcp>>
    BY DEF SndWritten, PeerCloses, ServerToggles, SigInt, IdlePasses, vars
  <2>3. SndNoPeer \/ SndCheck \/ SndMiss => UNCHANGED <<est, flag, cpc, itcp>> /\ spc # "close"
    BY DEF SndNoPeer, SndCheck, SndMiss
  <2> QED
    BY <1>1, <1>2, <1>3, <1>4, <1>5, <1>6, <1>7, <1>8, <1>9, <2>1, <2>2, <2>3
       DEF Next, Connection, SndReact

\* IInv holds in every state the threads can reach.
THEOREM Invariance == Spec => []IInv
<1>1. IInv /\ [Next]_vars => IInv'
  BY TypeStep, StuckStep DEF IInv
<1> QED
  BY InitIInv, <1>1, PTL DEF Spec

\* Whatever the threads, the servers and the clock do, an established output
\* that is marked as about to connect is about to be closed or unmarked.
THEOREM NeverStuckSafe == Spec => []NeverStuck
<1>1. IInv => NeverStuck
  BY DEF IInv
<1> QED
  BY <1>1, Invariance, PTL

\* The variables of TcpConn keep their types.
THEOREM TypeCorrect == Spec => []TypeOK
<1>1. IInv => TypeOK
  BY DEF IInv
<1> QED
  BY <1>1, Invariance, PTL

-----------------------------------------------------------------------------
(* The TCP reader (TcpListener).                                           *)

Entry == [id : STRING, c : Cfg, chg : BOOLEAN]

Object == [st : {"none", "live", "freed"}, id : STRING \cup {""}, c : Cfg, mask : BOOLEAN,
           rec : Runners \cup {Null}, conn : {"none", "up", "broken"}]

RunnerState == [at : Working \cup {"none", "gone", "wild"}, o : Listeners \cup {Null},
                base : BOOLEAN, close : BOOLEAN, reconnect : BOOLEAN]

ConnectorState == [at : {"none", "start", "dial", "gone", "wild"}, o : Listeners \cup {Null}]

ManagerState ==
    [at : {"wait", "top", "old", "new", "apply", "create", "copy", "flag", "done"},
     ret : {"old", "new"}, i : Nat \ {0}, todo : SUBSET Listeners, o : Listeners \cup {Null},
     c : Cfg, j : Nat, gen : Nat]

\* The types of what the threads and the manager work with.
ListenerType ==
    /\ file \in Files /\ ld \in [at : {"idle", "read", "gone"}, read : Files]
    /\ loads \in Nat /\ psv \in Seq(Entry)
    /\ mg \in ManagerState
    /\ tl \in [Listeners -> Object]
    /\ run \in [Runners -> RunnerState]
    /\ con \in [Connectors -> ConnectorState]

\* The manager works on listeners that were allocated, and a slot that waits
\* for its new thread is masked and has no record.
Managed ==
    /\ \A o \in mg.todo : tl[o].st # "none"
    /\ mg.at \in {"create", "copy", "flag"} => mg.o \in Listeners /\ tl[mg.o].st # "none"
    /\ mg.at = "create" => tl[mg.o].mask /\ tl[mg.o].rec = Null

\* So do the threads, and each starts with a connection to be made.
Placed ==
    \A r \in Runners :
        /\ run[r].at \in Working => run[r].o \in Listeners /\ tl[run[r].o].st # "none"
        /\ run[r].at \in {"none", "born"} => run[r].reconnect

\* The listener has a connection, or a thread is about to make one.
Reached(o) ==
    \/ tl[o].conn # "none"
    \/ \E k \in Connectors : con[k].o = o /\ con[k].at \in {"start", "dial"}

\* A thread that has to read is about to start a connection, or its listener
\* is reached.
Hearing ==
    \A r \in Runners :
        run[r].at \in {"head", "loop"} /\ ~run[r].close /\ Live(run[r].o) =>
            (run[r].at = "head" /\ run[r].reconnect) \/ Reached(run[r].o)

ListenerInv == ListenerType /\ Managed /\ Placed /\ OwnRecord /\ Hearing

-----------------------------------------------------------------------------
(* The values of the records.                                              *)

LEMMA Initials ==
    /\ NoCfg \in Cfg /\ NoListener \in Object /\ NoRunner \in RunnerState
    /\ Manager \in ManagerState /\ Null \notin Listeners /\ Null \notin Runners
<1>1. NoCfg \in Cfg
  BY DEF NoCfg, Cfg
<1>2. NoListener \in Object
  BY <1>1 DEF NoListener, Object, Null
<1>3. NoRunner \in RunnerState
  BY DEF NoRunner, RunnerState
<1>4. Manager \in ManagerState
  BY <1>1 DEF Manager, ManagerState
<1>5. Null \notin Listeners /\ Null \notin Runners
  BY ListenerAssumption DEF Null, Listeners, Runners
<1> QED
  BY <1>1, <1>2, <1>3, <1>4, <1>5

\* What the marked list is made of.
LEMMA MarkedFacts ==
    ASSUME NEW old, NEW new \in Files
    PROVE  Marked(old, new) \in Seq(Entry)
<1>1. new \in Seq([id : STRING, c : Cfg])
  BY ListenerAssumption
<1>2. DOMAIN new = 1..Len(new) /\ Len(new) \in Nat
  BY <1>1
<1>3. ASSUME NEW j \in 1..Len(new)
      PROVE  [id |-> new[j].id, c |-> new[j].c, chg |-> Flagged(old, new, j)] \in Entry
  <2>1. new[j] \in [id : STRING, c : Cfg]
    BY <1>1, <1>2, ElementOfSeq
  <2>2. new[j].id \in STRING /\ new[j].c \in Cfg
    BY <2>1
  <2>3. Flagged(old, new, j) \in BOOLEAN
    BY DEF Flagged
  <2> QED
    BY <2>2, <2>3 DEF Entry
<1>4. Marked(old, new) \in [1..Len(new) -> Entry]
  BY <1>2, <1>3 DEF Marked
<1> QED
  BY <1>2, <1>4, SeqDef

-----------------------------------------------------------------------------
(* Who changes what.                                                       *)

\* A thread that works has a listener, and the record in its slot.
LEMMA AtWork ==
    ASSUME ListenerInv, NEW r \in Runners, run[r].at \in Working
    PROVE  /\ run[r].o \in Listeners /\ run[r].o # Null /\ tl[run[r].o].st # "none"
           /\ Live(run[r].o) => tl[run[r].o].mask /\ tl[run[r].o].rec = r
  BY Initials DEF ListenerInv, Placed, OwnRecord, Owns

\* A step of a listener thread, told from what it leaves alone.
LEMMA RunnerMoves ==
    ASSUME ListenerInv, NEW r \in Runners, run[r].at \in Working,
           ListenerType', mg' = mg,
           \A q \in Runners : q # r => run'[q] = run[q],
           run'[r].at \in Working => run'[r].o = run[r].o,
           run'[r].at \notin {"none", "born"},
           \A p \in Listeners : tl'[p].st = tl[p].st /\ tl'[p].rec = tl[p].rec,
           \A p \in Listeners : \/ tl'[p].mask = tl[p].mask
                                \/ run'[r].at \notin Working /\ tl[p].rec = r,
           \A p \in Listeners : p # run[r].o /\ Reached(p) => Reached(p)',
           \A p \in Listeners :
               /\ p = run[r].o /\ Live(p)
               /\ run'[r].at \in {"head", "loop"} /\ ~run'[r].close
               => (run'[r].at = "head" /\ run'[r].reconnect) \/ Reached(p)'
    PROVE  ListenerInv'
<1>1. ASSUME NEW q \in Runners, run'[q].at \in Working
      PROVE  /\ run[q].at \in Working /\ run'[q].o = run[q].o /\ run[q].o \in Listeners
             /\ tl'[run'[q].o].st = tl[run[q].o].st
             /\ tl'[run'[q].o].st = "live" =>
                   Live(run[q].o) /\ tl[run[q].o].mask /\ tl[run[q].o].rec = q
  <2>1. run[q].at \in Working /\ run'[q].o = run[q].o
    BY <1>1
  <2> QED
    BY <2>1, AtWork DEF Live
<1>2. Managed'
  <2>1. mg.todo \subseteq Listeners
    BY DEF ListenerInv, ListenerType, ManagerState
  <2>2. \A o \in mg.todo : tl'[o].st # "none"
    BY <2>1 DEF ListenerInv, Managed
  <2>3. mg.at \in {"create", "copy", "flag"} => mg.o \in Listeners /\ tl'[mg.o].st # "none"
    BY DEF ListenerInv, Managed
  <2>4. mg.at = "create" => tl'[mg.o].mask /\ tl'[mg.o].rec = Null
    BY <2>3, Initials DEF ListenerInv, Managed
  <2> QED
    BY <2>2, <2>3, <2>4 DEF Managed
<1>3. Placed'
  <2> SUFFICES ASSUME NEW q \in Runners
               PROVE  /\ run'[q].at \in Working => run'[q].o \in Listeners /\ tl'[run'[q].o].st # "none"
                      /\ run'[q].at \in {"none", "born"} => run'[q].reconnect
    BY DEF Placed
  <2>1. run'[q].at \in Working => run'[q].o \in Listeners /\ tl'[run'[q].o].st # "none"
    BY <1>1, AtWork
  <2>2. run'[q].at \in {"none", "born"} => run'[q].reconnect
    BY DEF ListenerInv, Placed
  <2> QED
    BY <2>1, <2>2
<1>4. OwnRecord'
  <2> SUFFICES ASSUME NEW q \in Runners, run'[q].at \in Working, tl'[run'[q].o].st = "live"
               PROVE  tl'[run'[q].o].mask /\ tl'[run'[q].o].rec = q
    BY DEF OwnRecord, Owns, Live
  <2>1. run'[q].o \in Listeners /\ tl[run'[q].o].mask /\ tl[run'[q].o].rec = q
    BY <1>1
  <2> QED
    BY <2>1
<1>5. Hearing'
  <2> SUFFICES ASSUME NEW q \in Runners, NEW p \in Listeners,
                      run'[q].at \in {"head", "loop"}, ~run'[q].close,
                      run'[q].o = p, tl'[p].st = "live"
               PROVE  (run'[q].at = "head" /\ run'[q].reconnect) \/ Reached(p)'
    BY <1>1 DEF Hearing, Live, Working, Reached
  <2>1. run'[q].at \in Working
    BY DEF Working
  <2>2. run[q].at \in Working /\ run[q].o = p /\ Live(p) /\ tl[p].rec = q
    BY <1>1, <2>1
  <2>3. CASE q = r
    BY <2>2, <2>3
  <2>4. CASE q # r
    <3>1. p # run[r].o
      BY <2>2, <2>4, AtWork
    <3>2. (run[q].at = "head" /\ run[q].reconnect) \/ Reached(p)
      BY <2>2, <2>4 DEF ListenerInv, Hearing
    <3> QED
      BY <2>4, <3>1, <3>2
  <2> QED
    BY <2>3, <2>4
<1> QED
  BY <1>2, <1>3, <1>4, <1>5 DEF ListenerInv

\* A step of a connection thread or of the peer.
LEMMA ConnectionMoves ==
    ASSUME ListenerInv, ListenerType', mg' = mg, run' = run,
           \A p \in Listeners : /\ tl'[p].st = tl[p].st /\ tl'[p].rec = tl[p].rec
                                /\ tl'[p].mask = tl[p].mask,
           \A r \in Runners, p \in Listeners :
               /\ run[r].at \in {"head", "loop"} /\ ~run[r].close
               /\ run[r].o = p /\ Live(p) /\ Reached(p)
               => Reached(p)'
    PROVE  ListenerInv'
<1>1. Managed'
  <2>1. mg.todo \subseteq Listeners
    BY DEF ListenerInv, ListenerType, ManagerState
  <2> QED
    BY <2>1 DEF ListenerInv, Managed
<1>2. Placed'
  BY DEF ListenerInv, Placed
<1>3. OwnRecord'
  <2> SUFFICES ASSUME NEW q \in Runners, run[q].at \in Working, tl'[run[q].o].st = "live"
               PROVE  tl'[run[q].o].mask /\ tl'[run[q].o].rec = q
    BY DEF OwnRecord, Owns, Live
  <2> QED
    BY AtWork DEF Live
<1>4. Hearing'
  <2> SUFFICES ASSUME NEW q \in Runners, NEW p \in Listeners,
                      run[q].at \in {"head", "loop"}, ~run[q].close,
                      run[q].o = p, tl'[p].st = "live"
               PROVE  (run[q].at = "head" /\ run[q].reconnect) \/ Reached(p)'
    BY AtWork DEF Hearing, Live, Working, Reached
  <2>1. Live(p)
    BY Initials DEF Live
  <2>2. (run[q].at = "head" /\ run[q].reconnect) \/ Reached(p)
    BY <2>1 DEF ListenerInv, Hearing
  <2> QED
    BY <2>1, <2>2
<1> QED
  BY <1>1, <1>2, <1>3, <1>4 DEF ListenerInv

\* A step of the manager that may signal threads but leaves every slot alone.
LEMMA ManagerMoves ==
    ASSUME ListenerInv, ListenerType', con' = con,
           \A r \in Runners : /\ run'[r].at = run[r].at /\ run'[r].o = run[r].o
                              /\ run'[r].reconnect = run[r].reconnect
                              /\ run[r].close => run'[r].close,
           \A p \in Listeners : /\ tl'[p].st = tl[p].st /\ tl'[p].rec = tl[p].rec
                                /\ tl'[p].mask = tl[p].mask /\ tl'[p].conn = tl[p].conn,
           \A o \in mg'.todo : tl[o].st # "none",
           mg'.at # "create",
           mg'.at \in {"copy", "flag"} => mg'.o \in Listeners /\ tl[mg'.o].st # "none"
    PROVE  ListenerInv'
<1>1. Managed'
  <2>1. mg'.todo \subseteq Listeners
    BY DEF ListenerType, ManagerState
  <2> QED
    BY <2>1 DEF Managed
<1>2. Placed'
  BY DEF ListenerInv, Placed
<1>3. OwnRecord'
  <2> SUFFICES ASSUME NEW q \in Runners, run'[q].at \in Working, tl'[run'[q].o].st = "live"
               PROVE  tl'[run'[q].o].mask /\ tl'[run'[q].o].rec = q
    BY DEF OwnRecord, Owns, Live
  <2>1. run[q].at \in Working /\ run'[q].o = run[q].o
    BY DEF Working
  <2> QED
    BY <2>1, AtWork DEF Live
<1>4. Hearing'
  <2> SUFFICES ASSUME NEW q \in Runners, NEW p \in Listeners,
                      run'[q].at \in {"head", "loop"}, ~run'[q].close,
                      run'[q].o = p, tl'[p].st = "live"
               PROVE  (run'[q].at = "head" /\ run'[q].reconnect) \/ Reached(p)'
    BY AtWork DEF Hearing, Live, Working, Reached
  <2>1. run[q].at \in {"head", "loop"} /\ ~run[q].close /\ run[q].o = p /\ Live(p)
    BY Initials DEF Live
  <2>2. (run[q].at = "head" /\ run[q].reconnect) \/ Reached(p)
    BY <2>1 DEF ListenerInv, Hearing
  <2> QED
    BY <2>2 DEF Reached
<1> QED
  BY <1>1, <1>2, <1>3, <1>4 DEF ListenerInv

-----------------------------------------------------------------------------
(* The types.                                                              *)

\* A field of a listener that gets a new value.
LEMMA ObjectFields ==
    ASSUME NEW x \in Object
    PROVE  /\ \A v \in BOOLEAN : [x EXCEPT !.mask = v] \in Object
           /\ \A v \in {"none", "up", "broken"} : [x EXCEPT !.conn = v] \in Object
           /\ \A v \in Runners \cup {Null} : [x EXCEPT !.rec = v] \in Object
           /\ [x EXCEPT !.mask = TRUE, !.rec = Null] \in Object
           /\ \A v \in Cfg : [x EXCEPT !.c = v] \in Object
  BY DEF Object

\* A listener that is replaced, if there is one.
LEMMA OneListener ==
    ASSUME NEW t \in [Listeners -> Object], NEW o, NEW x, o \in Listeners => x \in Object
    PROVE  [t EXCEPT ![o] = x] \in [Listeners -> Object]
  OBVIOUS

\* What a signal to close leaves alone.
LEMMA Signalled ==
    ASSUME NEW os, run \in [Runners -> RunnerState]
    PROVE  /\ ToldToClose(os) \in [Runners -> RunnerState]
           /\ \A r \in Runners :
                /\ ToldToClose(os)[r].at = run[r].at /\ ToldToClose(os)[r].o = run[r].o
                /\ ToldToClose(os)[r].reconnect = run[r].reconnect
                /\ run[r].close => ToldToClose(os)[r].close
<1> SUFFICES ASSUME NEW r \in Runners
             PROVE  /\ ToldToClose(os)[r] \in RunnerState
                    /\ ToldToClose(os)[r].at = run[r].at /\ ToldToClose(os)[r].o = run[r].o
                    /\ ToldToClose(os)[r].reconnect = run[r].reconnect
                    /\ run[r].close => ToldToClose(os)[r].close
  BY DEF ToldToClose
<1> DEFINE told == \E o \in os : tl[o].mask /\ tl[o].rec = r
<1>1. told \in BOOLEAN
  OBVIOUS
<1>2. ToldToClose(os)[r] = [run[r] EXCEPT !.close = run[r].close \/ told]
  BY DEF ToldToClose
<1> HIDE DEF told
<1>3. run[r] \in RunnerState
  OBVIOUS
<1> QED
  BY <1>1, <1>2, <1>3 DEF RunnerState

LEMMA LoaderType ==
    ASSUME ListenerType,
           (\E f \in Files : Edit(f)) \/ version_checker \/ ReadConfig \/ SwapConfig \/ Quit
    PROVE  ListenerType'
<1>1. CASE \E f \in Files : Edit(f)
  BY <1>1 DEF ListenerType, Edit, loader, config
<1>2. CASE version_checker
  BY <1>2 DEF ListenerType, version_checker, source, config
<1>3. CASE ReadConfig
  <2>1. ld' \in [at : {"idle", "read", "gone"}, read : Files]
    BY <1>3 DEF ListenerType, ReadConfig
  <2> QED
    BY <1>3, <2>1 DEF ListenerType, ReadConfig, source, config
<1>4. CASE SwapConfig
  <2>1. psv' \in Seq(Entry)
    BY <1>4, MarkedFacts DEF SwapConfig, ListenerType
  <2>2. ld' \in [at : {"idle", "read", "gone"}, read : Files]
    BY <1>4, ListenerAssumption DEF SwapConfig
  <2>3. loads' \in Nat
    BY <1>4 DEF SwapConfig, ListenerType
  <2> QED
    BY <1>4, <2>1, <2>2, <2>3 DEF ListenerType, SwapConfig, source
<1>5. CASE Quit
  BY <1>5 DEF ListenerType, Quit, source, loader, config
<1> QED
  BY <1>1, <1>2, <1>3, <1>4, <1>5

LEMMA RunnerType ==
    ASSUME ListenerType, NEW r \in Runners, tcp_listener_runner(r)
    PROVE  ListenerType'
<1>1. /\ UNCHANGED <<file, ld, loads, psv, mg>>
      /\ run[r] \in RunnerState /\ NoRunner \in RunnerState
  BY Initials DEF tcp_listener_runner, FindOwnRecord, LoopHead, LoopTurn, ClearMask, Astray,
     ThreadFrame, source, loader, config, ListenerType
<1>2. tl' \in [Listeners -> Object]
  <2>1. \/ tl' = tl
        \/ tl' = [tl EXCEPT ![run[r].o] = [tl[run[r].o] EXCEPT !.conn = "none"]]
        \/ tl' = [tl EXCEPT ![run[r].o] = [tl[run[r].o] EXCEPT !.mask = FALSE]]
    BY DEF tcp_listener_runner, FindOwnRecord, LoopHead, LoopTurn, ClearMask, Astray
  <2>2. tl \in [Listeners -> Object]
    BY DEF ListenerType
  <2>3. run[r].o \in Listeners => /\ [tl[run[r].o] EXCEPT !.conn = "none"] \in Object
                                  /\ [tl[run[r].o] EXCEPT !.mask = FALSE] \in Object
    BY <2>2, ObjectFields
  <2> QED
    BY <2>1, <2>2, <2>3, OneListener
<1>3. run' \in [Runners -> RunnerState]
  <2>1. CASE FindOwnRecord(r)
    BY <1>1, <2>1 DEF FindOwnRecord, ListenerType, RunnerState, Working
  <2>2. CASE LoopHead(r)
    BY <1>1, <2>2 DEF LoopHead, StartConnection, ListenerType, RunnerState, Working
  <2>3. CASE LoopTurn(r)
    BY <1>1, <2>3 DEF LoopTurn, ListenerType, RunnerState, Working
  <2>4. CASE ClearMask(r)
    BY <1>1, <2>4 DEF ClearMask, ListenerType, RunnerState
  <2>5. CASE Astray(r)
    BY <1>1, <2>5 DEF Astray, ListenerType, RunnerState
  <2> QED
    BY <2>1, <2>2, <2>3, <2>4, <2>5 DEF tcp_listener_runner
<1>4. con' \in [Connectors -> ConnectorState]
  <2>1. con' = con \/ \E k \in Connectors : con' = [con EXCEPT ![k] = [at |-> "start", o |-> run[r].o]]
    BY DEF tcp_listener_runner, FindOwnRecord, LoopHead, StartConnection, LoopTurn, ClearMask,
       Astray
  <2>2. [at |-> "start", o |-> run[r].o] \in ConnectorState
    BY <1>1 DEF ConnectorState, RunnerState
  <2> QED
    BY <2>1, <2>2 DEF ListenerType
<1> QED
  BY <1>1, <1>2, <1>3, <1>4 DEF ListenerType

LEMMA ConnectionType ==
    ASSUME ListenerType,
           \/ \E k \in Connectors : thread_tcp_connection_proc(k)
           \/ \E o \in Listeners : PeerHangsUp(o)
    PROVE  ListenerType'
<1>1. UNCHANGED <<file, ld, loads, psv, mg, run>>
  BY DEF thread_tcp_connection_proc, RestartConnection, _connect_tcp, ConnectorAstray,
     PeerHangsUp, ThreadFrame, source, loader, config
<1>2. tl' \in [Listeners -> Object]
  <2>1. \/ tl' = tl
        \/ \E o, v : /\ v \in {"none", "up", "broken"}
                     /\ tl' = [tl EXCEPT ![o] = [tl[o] EXCEPT !.conn = v]]
    BY DEF thread_tcp_connection_proc, RestartConnection, _connect_tcp, ConnectorAstray,
       PeerHangsUp
  <2>2. tl \in [Listeners -> Object]
    BY DEF ListenerType
  <2>3. \A o \in Listeners, v \in {"none", "up", "broken"} : [tl[o] EXCEPT !.conn = v] \in Object
    BY <2>2, ObjectFields
  <2>4. ASSUME NEW o, NEW v \in {"none", "up", "broken"},
               tl' = [tl EXCEPT ![o] = [tl[o] EXCEPT !.conn = v]]
        PROVE  tl' \in [Listeners -> Object]
    BY <2>2, <2>3, <2>4, OneListener
  <2> QED
    BY <2>1, <2>2, <2>4
<1>3. con' \in [Connectors -> ConnectorState]
  <2>1. \/ con' = con
        \/ \E k \in Connectors :
             \/ con' = [con EXCEPT ![k].at = "dial"]
             \/ con' = [con EXCEPT ![k] = [at |-> "gone", o |-> Null]]
             \/ con' = [con EXCEPT ![k] = [at |-> "wild", o |-> Null]]
    BY DEF thread_tcp_connection_proc, RestartConnection, _connect_tcp, ConnectorAstray,
       PeerHangsUp
  <2> QED
    BY <2>1 DEF ListenerType, ConnectorState
<1> QED
  BY <1>1, <1>2, <1>3 DEF ListenerType

LEMMA ManagerType ==
    ASSUME ListenerType, manager
    PROVE  ListenerType'
<1>1. UNCHANGED <<file, ld, loads, con>>
  BY DEF manager, ManagerStarts, ManagerQuits, PassStarts, OldEntry, OldDone, NewEntry, PassDone,
     Apply, CopySettings, FlagRunner, CreateRunner, ManagerFrame, source, loader
<1>2. psv' \in Seq(Entry)
  <2>1. psv' = psv \/ psv' = [psv EXCEPT ![mg.j].chg = FALSE]
    BY DEF manager, ManagerStarts, ManagerQuits, PassStarts, OldEntry, OldDone, NewEntry,
       PassDone, Apply, CopySettings, FlagRunner, CreateRunner, config
  <2>2. psv \in Seq(Entry)
    BY DEF ListenerType
  <2>3. ASSUME mg.j \in DOMAIN psv PROVE [psv EXCEPT ![mg.j].chg = FALSE] \in Seq(Entry)
    <3>1. psv[mg.j] \in Entry
      BY <2>2, <2>3, ElementOfSeq
    <3>2. [psv[mg.j] EXCEPT !.chg = FALSE] \in Entry
      BY <3>1 DEF Entry
    <3>3. [psv EXCEPT ![mg.j] = [psv[mg.j] EXCEPT !.chg = FALSE]] \in Seq(Entry)
      BY <2>2, <2>3, <3>2, ExceptSeq
    <3> QED
      BY <3>3
  <2>4. mg.j \notin DOMAIN psv => [psv EXCEPT ![mg.j].chg = FALSE] = psv
    BY <2>2
  <2> QED
    BY <2>1, <2>2, <2>3, <2>4
<1>3. tl' \in [Listeners -> Object]
  <2>1. CASE tl' = tl
    BY <2>1 DEF ListenerType
  <2>2. CASE Apply
    <3>1. CASE \E o \in mg.todo : tl' = [tl EXCEPT ![o].mask = TRUE, ![o].rec = Null]
      <4>1. PICK o \in mg.todo : tl' = [tl EXCEPT ![o].mask = TRUE, ![o].rec = Null]
        BY <3>1
      <4>2. o \in Listeners /\ tl \in [Listeners -> Object]
        BY DEF ListenerType, ManagerState
      <4>3. tl' = [tl EXCEPT ![o] = [tl[o] EXCEPT !.mask = TRUE, !.rec = Null]]
        BY <4>1, <4>2
      <4> QED
        BY <4>2, <4>3, ObjectFields, OneListener
    <3>2. tl' = tl \/ \E o \in mg.todo : tl' = [tl EXCEPT ![o].mask = TRUE, ![o].rec = Null]
      BY <2>2 DEF Apply
    <3> QED
      BY <2>1, <3>1, <3>2
  <2>3. CASE \E r \in Runners : CreateRunner(r)
    <3>1. PICK r \in Runners : tl' = [tl EXCEPT ![mg.o] = [tl[mg.o] EXCEPT !.rec = r]]
      BY <2>3 DEF CreateRunner
    <3>2. mg.o \in Listeners => [tl[mg.o] EXCEPT !.rec = r] \in Object
      BY ObjectFields DEF ListenerType
    <3> QED
      BY <3>1, <3>2, OneListener DEF ListenerType
  <2>4. CASE CopySettings
    <3>1. mg.c \in Cfg
      BY DEF ListenerType, ManagerState
    <3>2. mg.o \in Listeners => [tl[mg.o] EXCEPT !.c = mg.c] \in Object
      BY <3>1, ObjectFields DEF ListenerType
    <3>3. tl' = [tl EXCEPT ![mg.o] = [tl[mg.o] EXCEPT !.c = mg.c]] /\ tl \in [Listeners -> Object]
      BY <2>4 DEF CopySettings, ListenerType
    <3> QED
      BY <3>2, <3>3, OneListener
  <2>5. CASE OldEntry
    <3>1. [NoListener EXCEPT !.st = "freed"] \in Object
      BY Initials DEF Object
    <3> QED
      BY <2>5, <3>1 DEF OldEntry, remove_tcp_listener, ListenerType
  <2>6. CASE NewEntry
    <3>1. mg.i \in DOMAIN psv
      BY <2>6 DEF NewEntry, ListenerType, ManagerState
    <3>2. psv[mg.i] \in Entry
      BY <3>1, ElementOfSeq DEF ListenerType
    <3>3. [NoListener EXCEPT !.st = "live", !.id = psv[mg.i].id, !.c = psv[mg.i].c] \in Object
      BY <3>2, Initials DEF Object, Entry
    <3> QED
      BY <2>6, <3>3 DEF NewEntry, ListenerType
  <2> QED
    BY <2>1, <2>2, <2>3, <2>4, <2>5, <2>6 DEF manager, ManagerStarts, ManagerQuits, PassStarts,
       OldDone, PassDone, FlagRunner
<1>4. run' \in [Runners -> RunnerState]
  <2>1. CASE \E os : run' = ToldToClose(os)
    BY <2>1, Signalled DEF ListenerType
  <2>2. CASE \E r \in Runners : CreateRunner(r)
    <3>1. mg.o \in Listeners \cup {Null}
      BY DEF ListenerType, ManagerState
    <3>2. PICK r \in Runners : run' = [run EXCEPT ![r].at = "born", ![r].o = mg.o]
      BY <2>2 DEF CreateRunner
    <3> SUFFICES ASSUME NEW q \in Runners PROVE run'[q] \in RunnerState
      BY <3>2 DEF ListenerType
    <3>3. run \in [Runners -> RunnerState] /\ run[q] \in RunnerState
      BY DEF ListenerType
    <3>4. run'[q] = IF q = r THEN [run[q] EXCEPT !.at = "born", !.o = mg.o] ELSE run[q]
      BY <3>2, <3>3
    <3> QED
      BY <3>1, <3>3, <3>4 DEF RunnerState, Working
  <2>3. CASE FlagRunner
    <3> SUFFICES ASSUME NEW r \in Runners PROVE run'[r] \in RunnerState
      BY <2>3 DEF FlagRunner
    <3> DEFINE hit == tl[mg.o].mask /\ r = tl[mg.o].rec
    <3>1. run[r] \in RunnerState
      BY DEF ListenerType
    <3>2. run'[r] = [run[r] EXCEPT !.base = run[r].base \/ hit]
      BY <2>3 DEF FlagRunner
    <3>3. (run[r].base \/ hit) \in BOOLEAN
      OBVIOUS
    <3> HIDE DEF hit
    <3> QED
      BY <3>1, <3>2, <3>3 DEF RunnerState
  <2>4. CASE run' = run
    BY <2>4 DEF ListenerType
  <2> QED
    BY <2>1, <2>2, <2>3, <2>4 DEF manager, ManagerStarts, ManagerQuits, PassStarts, OldEntry,
       remove_tcp_listener, OldDone, NewEntry, PassDone, Apply, CopySettings
<1>5. mg' \in ManagerState
  <2>0. mg \in ManagerState /\ loads \in Nat /\ psv \in Seq(Entry)
    BY DEF ListenerType
  <2>1. CASE ManagerStarts \/ ManagerQuits \/ PassStarts \/ OldDone \/ FlagRunner \/ CopySettings
    <3>1. \/ \E a \in {"top", "done", "apply", "flag"} : mg' = [mg EXCEPT !.at = a]
          \/ \E a \in {"old", "new"} : mg' = [mg EXCEPT !.at = a, !.i = 1]
      BY <2>1 DEF ManagerStarts, ManagerQuits, PassStarts, OldDone, FlagRunner, CopySettings
    <3>2. CASE \E a \in {"top", "done", "apply", "flag"} : mg' = [mg EXCEPT !.at = a]
      BY <2>0, <3>2 DEF ManagerState
    <3>3. CASE \E a \in {"old", "new"} : mg' = [mg EXCEPT !.at = a, !.i = 1]
      <4>1. PICK a \in {"old", "new"} : mg' = [mg EXCEPT !.at = a, !.i = 1]
        BY <3>3
      <4>2. a \in {"old", "new"} /\ 1 \in Nat \ {0}
        OBVIOUS
      <4> QED
        BY <2>0, <4>1, <4>2 DEF ManagerState
    <3> QED
      BY <3>1, <3>2, <3>3
  <2>2. CASE PassDone
    BY <2>2, Initials DEF PassDone
  <2>3. CASE Apply
    <3>1. CASE mg' = [Manager EXCEPT !.at = mg.ret, !.i = mg.i]
      BY <2>0, <3>1, Initials DEF ManagerState
    <3>2. CASE \E o \in mg.todo : \/ mg' = [mg EXCEPT !.todo = @ \ {o}]
                                  \/ mg' = [mg EXCEPT !.todo = @ \ {o}, !.o = o, !.at = "copy"]
                                  \/ mg' = [mg EXCEPT !.todo = @ \ {o}, !.o = o, !.at = "create"]
      <4>1. PICK o \in mg.todo : \/ mg' = [mg EXCEPT !.todo = @ \ {o}]
                               \/ mg' = [mg EXCEPT !.todo = @ \ {o}, !.o = o, !.at = "copy"]
                               \/ mg' = [mg EXCEPT !.todo = @ \ {o}, !.o = o, !.at = "create"]
        BY <3>2
      <4> DEFINE rest == mg.todo \ {o}
      <4>2. rest \in SUBSET Listeners /\ o \in Listeners
        BY <2>0 DEF ManagerState
      <4>3. \/ mg' = [mg EXCEPT !.todo = rest]
            \/ mg' = [mg EXCEPT !.todo = rest, !.o = o, !.at = "copy"]
            \/ mg' = [mg EXCEPT !.todo = rest, !.o = o, !.at = "create"]
        BY <4>1
      <4> HIDE DEF rest
      <4>4. CASE mg' = [mg EXCEPT !.todo = rest]
        BY <2>0, <4>2, <4>4 DEF ManagerState
      <4>5. CASE mg' = [mg EXCEPT !.todo = rest, !.o = o, !.at = "copy"]
        BY <2>0, <4>2, <4>5 DEF ManagerState
      <4>6. CASE mg' = [mg EXCEPT !.todo = rest, !.o = o, !.at = "create"]
        BY <2>0, <4>2, <4>6 DEF ManagerState
      <4> QED
        BY <4>3, <4>4, <4>5, <4>6
    <3> QED
      BY <2>3, <3>1, <3>2 DEF Apply
  <2>4. CASE \E r \in Runners : CreateRunner(r)
    BY <2>0, <2>4 DEF CreateRunner, ManagerState
  <2>5. ASSUME NEW id, NEW j \in DOMAIN psv, NEW ret \in {"old", "new"}, NEW w,
               StartApply(id, j, ret, w)
        PROVE  mg' \in ManagerState
    <3>1. j \in Nat /\ psv[j].c \in Cfg
      <4>1. j \in Nat /\ psv[j] \in Entry
        BY <2>0, <2>5, ElementOfSeq
      <4> QED
        BY <4>1 DEF Entry
    <3>2. {o \in Listeners : w[o].st = "live" /\ w[o].id = id} \in SUBSET Listeners
      OBVIOUS
    <3> DEFINE todo == {o \in Listeners : w[o].st = "live" /\ w[o].id = id}
    <3>3. mg' = [mg EXCEPT !.at = "apply", !.ret = ret, !.i = mg.i + 1, !.j = j, !.gen = loads,
                           !.c = psv[j].c, !.todo = todo]
      BY <2>5 DEF StartApply
    <3>4. todo \in SUBSET Listeners
      BY <3>2
    <3> HIDE DEF todo
    <3>5. mg.i + 1 \in Nat \ {0}
      BY <2>0 DEF ManagerState
    <3> QED
      BY <2>0, <3>1, <3>3, <3>4, <3>5 DEF ManagerState
  <2>6. CASE mg' = [mg EXCEPT !.i = @ + 1]
    BY <2>0, <2>6 DEF ManagerState
  <2>7. CASE OldEntry
    <3>1. \/ mg' = [mg EXCEPT !.i = @ + 1]
          \/ \E j \in Changed(prev[mg.i].id) : StartApply(prev[mg.i].id, j, "old", tl)
      BY <2>7 DEF OldEntry
    <3> QED
      BY <2>5, <2>6, <3>1 DEF Changed
  <2>8. CASE NewEntry
    <3>1. mg.i \in DOMAIN psv
      BY <2>0, <2>8 DEF NewEntry, ManagerState
    <3>2. mg' = [mg EXCEPT !.i = @ + 1] \/ StartApply(psv[mg.i].id, mg.i, "new", tl')
      BY <2>8 DEF NewEntry
    <3> QED
      BY <2>5, <2>6, <3>1, <3>2
  <2> QED
    BY <2>1, <2>2, <2>3, <2>4, <2>7, <2>8 DEF manager
<1> QED
  BY <1>1, <1>2, <1>3, <1>4, <1>5 DEF ListenerType

-----------------------------------------------------------------------------
(* The listener threads.                                                   *)

LEMMA RunnerKeepsListeners ==
    ASSUME ListenerInv, NEW r \in Runners, tcp_listener_runner(r), ListenerType'
    PROVE  ListenerInv'
<1> USE DEF ThreadFrame
<1>1. /\ tl \in [Listeners -> Object] /\ run \in [Runners -> RunnerState]
      /\ con \in [Connectors -> ConnectorState] /\ run[r] \in RunnerState
  BY DEF ListenerInv, ListenerType
<1>2. /\ run[r].at \in Working /\ mg' = mg
      /\ \A q \in Runners : q # r => run'[q] = run[q]
  BY <1>1 DEF tcp_listener_runner, FindOwnRecord, LoopHead, StartConnection, LoopTurn, ClearMask,
     Astray, Working
<1>3. CASE FindOwnRecord(r)
  <2>1. /\ run'[r].at = "head" /\ run'[r].o = run[r].o /\ run'[r].reconnect = run[r].reconnect
        /\ tl' = tl /\ con' = con
    BY <1>1, <1>3 DEF FindOwnRecord
  <2>2. run[r].reconnect
    BY <1>3 DEF FindOwnRecord, ListenerInv, Placed
  <2>3. \A p \in Listeners : Reached(p) => Reached(p)'
    BY <2>1 DEF Reached
  <2> QED
    BY <1>2, <2>1, <2>2, <2>3, RunnerMoves
<1>4. CASE LoopHead(r)
  <2>1. tl' = tl /\ Live(run[r].o) /\ run[r].at = "head"
    BY <1>4 DEF LoopHead
  <2>2. CASE run' = [run EXCEPT ![r].at = "leaving"] /\ con' = con
    <3>1. run'[r].at = "leaving" /\ run'[r].o = run[r].o
      BY <1>1, <2>2
    <3>2. \A p \in Listeners : Reached(p) => Reached(p)'
      BY <2>1, <2>2 DEF Reached
    <3> QED
      BY <1>2, <2>1, <3>1, <3>2, RunnerMoves
  <2>3. CASE StartConnection(r)
    <3>1. run'[r].at = "loop" /\ run'[r].o = run[r].o
      BY <1>1, <2>3 DEF StartConnection
    <3>2. PICK k \in Connectors : /\ con[k].at = "none"
                                  /\ con' = [con EXCEPT ![k] = [at |-> "start", o |-> run[r].o]]
      BY <2>3 DEF StartConnection
    <3>3. con'[k].o = run[r].o /\ con'[k].at = "start"
      BY <1>1, <3>2
    <3>4. \A q \in Connectors : con[q].at \in {"start", "dial"} => con'[q] = con[q]
      BY <1>1, <3>2
    <3>5. \A p \in Listeners : Reached(p) => Reached(p)'
      BY <2>1, <3>4 DEF Reached
    <3>6. \A p \in Listeners : p = run[r].o => Reached(p)'
      BY <3>3 DEF Reached
    <3> QED
      BY <1>2, <2>1, <3>1, <3>5, <3>6, RunnerMoves
  <2>4. CASE /\ ~run[r].close /\ ~run[r].reconnect
             /\ run' = [run EXCEPT ![r].at = "loop"] /\ con' = con
    <3>1. run'[r].at = "loop" /\ run'[r].o = run[r].o
      BY <1>1, <2>4
    <3>2. \A p \in Listeners : Reached(p) => Reached(p)'
      BY <2>1, <2>4 DEF Reached
    <3>3. Reached(run[r].o)
      BY <2>1, <2>4 DEF ListenerInv, Hearing
    <3> QED
      BY <1>2, <2>1, <3>1, <3>2, <3>3, RunnerMoves
  <2> QED
    BY <1>4, <2>2, <2>3, <2>4 DEF LoopHead
<1>5. CASE LoopTurn(r)
  <2>1. con' = con /\ Live(run[r].o) /\ run[r].at = "loop"
    BY <1>5 DEF LoopTurn
  <2>2. CASE run' = [run EXCEPT ![r].at = "leaving"] /\ tl' = tl
    <3>1. run'[r].at = "leaving" /\ run'[r].o = run[r].o
      BY <1>1, <2>2
    <3>2. \A p \in Listeners : Reached(p) => Reached(p)'
      BY <2>1, <2>2 DEF Reached
    <3> QED
      BY <1>2, <2>2, <3>1, <3>2, RunnerMoves
  <2>3. CASE /\ ~run[r].close
             /\ run' = [run EXCEPT ![r].at = "head", ![r].base = FALSE] /\ tl' = tl
    <3>1. run'[r].at = "head" /\ run'[r].o = run[r].o
      BY <1>1, <2>3
    <3>2. \A p \in Listeners : Reached(p) => Reached(p)'
      BY <2>1, <2>3 DEF Reached
    <3>3. Reached(run[r].o)
      BY <2>1, <2>3 DEF ListenerInv, Hearing
    <3> QED
      BY <1>2, <2>3, <3>1, <3>2, <3>3, RunnerMoves
  <2>4. CASE /\ run' = [run EXCEPT ![r].at = "head", ![r].reconnect = TRUE]
             /\ tl' \in {tl, [tl EXCEPT ![run[r].o].conn = "none"]}
    <3>1. run'[r].at = "head" /\ run'[r].o = run[r].o /\ run'[r].reconnect
      BY <1>1, <2>4
    <3>2. \A p \in Listeners : /\ tl'[p].st = tl[p].st /\ tl'[p].rec = tl[p].rec
                               /\ tl'[p].mask = tl[p].mask
                               /\ p # run[r].o => tl'[p] = tl[p]
      <4>1. run[r].o \in Listeners
        BY <1>2, AtWork
      <4>2. tl' = tl \/ tl' = [tl EXCEPT ![run[r].o] = [tl[run[r].o] EXCEPT !.conn = "none"]]
        BY <2>4
      <4>3. tl[run[r].o] \in Object
        BY <1>1, <4>1
      <4>4. CASE tl' = [tl EXCEPT ![run[r].o] = [tl[run[r].o] EXCEPT !.conn = "none"]]
        BY <1>1, <4>1, <4>3, <4>4 DEF Object
      <4> QED
        BY <4>2, <4>4
    <3>3. \A p \in Listeners : p # run[r].o /\ Reached(p) => Reached(p)'
      BY <2>1, <3>2 DEF Reached
    <3> QED
      BY <1>2, <3>1, <3>2, <3>3, RunnerMoves
  <2> QED
    BY <1>5, <2>2, <2>3, <2>4 DEF LoopTurn
<1>6. CASE ClearMask(r)
  <2>1. run'[r].at = "gone" /\ con' = con
    BY <1>1, <1>6 DEF ClearMask, NoRunner
  <2>2. \A p \in Listeners : /\ tl'[p].st = tl[p].st /\ tl'[p].rec = tl[p].rec
                             /\ tl'[p].conn = tl[p].conn
    BY <1>1, <1>6 DEF ClearMask
  <2>3. \A p \in Listeners : tl'[p].mask = tl[p].mask \/ tl[p].rec = r
    BY <1>1, <1>6 DEF ClearMask, Owns
  <2>4. \A p \in Listeners : Reached(p) => Reached(p)'
    BY <2>1, <2>2 DEF Reached
  <2> QED
    BY <1>2, <2>1, <2>2, <2>3, <2>4, RunnerMoves DEF Working
<1>7. CASE Astray(r)
  <2>1. run'[r].at = "wild" /\ con' = con /\ tl' = tl
    BY <1>1, <1>7 DEF Astray, NoRunner
  <2>2. \A p \in Listeners : Reached(p) => Reached(p)'
    BY <2>1 DEF Reached
  <2> QED
    BY <1>2, <2>1, <2>2, RunnerMoves DEF Working
<1> QED
  BY <1>3, <1>4, <1>5, <1>6, <1>7 DEF tcp_listener_runner

-----------------------------------------------------------------------------
(* The connection threads and the peer.                                    *)

LEMMA ConnectorKeepsListeners ==
    ASSUME ListenerInv, ListenerType', NEW k \in Connectors, thread_tcp_connection_proc(k)
    PROVE  ListenerInv'
<1> USE DEF ThreadFrame
<1>1. /\ tl \in [Listeners -> Object] /\ con \in [Connectors -> ConnectorState]
      /\ mg' = mg /\ run' = run
  BY DEF ListenerInv, ListenerType, thread_tcp_connection_proc, RestartConnection, _connect_tcp,
     ConnectorAstray
<1>2. \A p \in Listeners : /\ tl'[p].st = tl[p].st /\ tl'[p].rec = tl[p].rec
                           /\ tl'[p].mask = tl[p].mask
                           /\ p # con[k].o => tl'[p] = tl[p]
  <2>1. tl' = tl \/ /\ Live(con[k].o)
                    /\ \E v : tl' = [tl EXCEPT ![con[k].o] = [tl[con[k].o] EXCEPT !.conn = v]]
    BY DEF thread_tcp_connection_proc, RestartConnection, _connect_tcp, ConnectorAstray
  <2>2. Live(con[k].o) => con[k].o \in Listeners /\ tl[con[k].o] \in Object
    BY <1>1 DEF ConnectorState, Live
  <2>3. CASE tl' = tl
    BY <2>3
  <2>4. ASSUME NEW v, Live(con[k].o),
               tl' = [tl EXCEPT ![con[k].o] = [tl[con[k].o] EXCEPT !.conn = v]]
        PROVE  \A p \in Listeners : /\ tl'[p].st = tl[p].st /\ tl'[p].rec = tl[p].rec
                                    /\ tl'[p].mask = tl[p].mask
                                    /\ p # con[k].o => tl'[p] = tl[p]
    BY <1>1, <2>2, <2>4 DEF Object
  <2> QED
    BY <2>1, <2>3, <2>4
<1>3. \A q \in Connectors : q # k => con'[q] = con[q]
  BY <1>1 DEF thread_tcp_connection_proc, RestartConnection, _connect_tcp, ConnectorAstray
<1>4. \A p \in Listeners : p # con[k].o /\ Reached(p) => Reached(p)'
  BY <1>2, <1>3 DEF Reached
<1>5. ASSUME NEW r \in Runners, NEW p \in Listeners,
             run[r].at \in {"head", "loop"}, ~run[r].close, run[r].o = p, Live(p), p = con[k].o
      PROVE  Reached(p)'
  <2>1. tl[p].rec = r /\ tl[p].rec # Null
    BY <1>5, AtWork, Initials DEF Working
  <2>2. CASE RestartConnection(k)
    <3>1. con'[k].o = p /\ con'[k].at = "dial"
      BY <1>1, <1>5, <2>2 DEF RestartConnection
    <3> QED
      BY <3>1 DEF Reached
  <2>3. CASE _connect_tcp(k)
    <3>1. ~StopsDialing(k)
      BY <1>5, <2>1 DEF StopsDialing
    <3>2. tl'[p].conn = "up"
      <4>1. tl' = [tl EXCEPT ![p] = [tl[p] EXCEPT !.conn = "up"]]
        BY <1>5, <2>3, <3>1 DEF _connect_tcp
      <4>2. tl[p] \in Object
        BY <1>1
      <4> QED
        BY <1>1, <4>1, <4>2 DEF Object
    <3> QED
      BY <3>2 DEF Reached
  <2>4. CASE ConnectorAstray(k)
    BY <1>5, <2>1, <2>4 DEF ConnectorAstray
  <2> QED
    BY <2>2, <2>3, <2>4 DEF thread_tcp_connection_proc
<1> QED
  BY <1>1, <1>2, <1>4, <1>5, ConnectionMoves

LEMMA PeerKeepsListeners ==
    ASSUME ListenerInv, ListenerType', NEW o \in Listeners, PeerHangsUp(o)
    PROVE  ListenerInv'
<1>1. tl \in [Listeners -> Object] /\ mg' = mg /\ run' = run /\ con' = con
  BY DEF ListenerInv, ListenerType, PeerHangsUp, ThreadFrame
<1>2. \A p \in Listeners : /\ tl'[p].st = tl[p].st /\ tl'[p].rec = tl[p].rec
                           /\ tl'[p].mask = tl[p].mask
                           /\ tl'[p].conn = IF p = o THEN "broken" ELSE tl[p].conn
  BY <1>1 DEF PeerHangsUp
<1>3. \A p \in Listeners : Reached(p) => Reached(p)'
  BY <1>1, <1>2 DEF Reached
<1> QED
  BY <1>1, <1>2, <1>3, ConnectionMoves

-----------------------------------------------------------------------------
(* The manager.                                                            *)

\* What the manager may rely on.
LEMMA AtManaging ==
    ASSUME ListenerInv
    PROVE  /\ mg \in ManagerState /\ mg.todo \subseteq Listeners
           /\ tl \in [Listeners -> Object] /\ run \in [Runners -> RunnerState]
           /\ \A o \in mg.todo : tl[o].st # "none"
           /\ mg.at \in {"create", "copy", "flag"} => mg.o \in Listeners /\ tl[mg.o].st # "none"
  BY DEF ListenerInv, ListenerType, Managed, ManagerState

LEMMA PassKeepsListeners ==
    ASSUME ListenerInv, ListenerType',
           \/ ManagerStarts \/ ManagerQuits \/ PassStarts \/ OldDone \/ PassDone
           \/ CopySettings \/ FlagRunner
    PROVE  ListenerInv'
<1> USE DEF ManagerFrame
<1>1. CASE ManagerStarts \/ PassStarts \/ OldDone
  <2>1. con' = con /\ run' = run /\ tl' = tl /\ mg'.todo = mg.todo /\ mg'.at \in {"top", "old", "new"}
    BY <1>1, AtManaging DEF ManagerStarts, PassStarts, OldDone, ManagerState
  <2> QED
    BY <2>1, AtManaging, ManagerMoves
<1>2. CASE ManagerQuits
  <2>1. con' = con /\ tl' = tl /\ mg'.todo = mg.todo /\ mg'.at = "done"
    BY <1>2, AtManaging DEF ManagerQuits, ManagerState
  <2>2. \A r \in Runners : /\ run'[r].at = run[r].at /\ run'[r].o = run[r].o
                           /\ run'[r].reconnect = run[r].reconnect
                           /\ run[r].close => run'[r].close
    BY <1>2, AtManaging, Signalled DEF ManagerQuits
  <2> QED
    BY <2>1, <2>2, AtManaging, ManagerMoves
<1>3. CASE PassDone
  <2>1. con' = con /\ run' = run /\ tl' = tl /\ mg'.todo = {} /\ mg'.at = "top"
    BY <1>3 DEF PassDone, Manager
  <2> QED
    BY <2>1, ManagerMoves
<1>4. CASE CopySettings
  <2>1. con' = con /\ run' = run /\ mg'.todo = mg.todo /\ mg'.at = "flag" /\ mg'.o = mg.o
    BY <1>4, AtManaging DEF CopySettings, ManagerState
  <2>2. mg.at = "copy" /\ mg.o \in Listeners /\ tl[mg.o] \in Object
    BY <1>4, AtManaging DEF CopySettings
  <2>3. tl' = [tl EXCEPT ![mg.o] = [tl[mg.o] EXCEPT !.c = mg.c]]
    BY <1>4 DEF CopySettings
  <2>4. \A p \in Listeners : /\ tl'[p].st = tl[p].st /\ tl'[p].rec = tl[p].rec
                             /\ tl'[p].mask = tl[p].mask /\ tl'[p].conn = tl[p].conn
    BY <2>2, <2>3, AtManaging DEF Object
  <2> QED
    BY <2>1, <2>2, <2>4, AtManaging, ManagerMoves
<1>5. CASE FlagRunner
  <2>1. con' = con /\ tl' = tl /\ mg'.todo = mg.todo /\ mg'.at = "apply"
    BY <1>5, AtManaging DEF FlagRunner, ManagerState
  <2>2. ASSUME NEW r \in Runners
        PROVE  /\ run'[r].at = run[r].at /\ run'[r].o = run[r].o
               /\ run'[r].reconnect = run[r].reconnect /\ run'[r].close = run[r].close
    <3>1. run'[r] = [run[r] EXCEPT !.base = run[r].base \/ (tl[mg.o].mask /\ r = tl[mg.o].rec)]
      BY <1>5 DEF FlagRunner
    <3>2. run[r] \in RunnerState
      BY AtManaging
    <3> QED
      BY <3>1, <3>2 DEF RunnerState
  <2> QED
    BY <2>1, <2>2, AtManaging, ManagerMoves
<1> QED
  BY <1>1, <1>2, <1>3, <1>4, <1>5

\* A slot is filled again only when no thread works on it.
LEMMA ApplyKeepsListeners ==
    ASSUME ListenerInv, ListenerType', Apply
    PROVE  ListenerInv'
<1>1. con' = con /\ mg.at = "apply"
  BY DEF Apply, ManagerFrame
<1>2. CASE mg' = [Manager EXCEPT !.at = mg.ret, !.i = mg.i] /\ tl' = tl /\ run' = run
  <2>1. mg'.todo = {} /\ mg'.at \in {"old", "new"}
    BY <1>2, AtManaging DEF Manager, ManagerState
  <2> QED
    BY <1>1, <1>2, <2>1, ManagerMoves
<1>3. ASSUME NEW o \in mg.todo, run' = ToldToClose({o}), tl' = tl,
             mg' = [mg EXCEPT !.todo = @ \ {o}]
      PROVE  ListenerInv'
  <2>1. mg'.todo = mg.todo \ {o} /\ mg'.at = "apply"
    BY <1>1, <1>3, AtManaging DEF ManagerState
  <2>2. \A r \in Runners : /\ run'[r].at = run[r].at /\ run'[r].o = run[r].o
                           /\ run'[r].reconnect = run[r].reconnect
                           /\ run[r].close => run'[r].close
    BY <1>3, AtManaging, Signalled
  <2> QED
    BY <1>1, <1>3, <2>1, <2>2, AtManaging, ManagerMoves
<1>4. ASSUME NEW o \in mg.todo, mg' = [mg EXCEPT !.todo = @ \ {o}, !.o = o, !.at = "copy"],
             tl' = tl, run' = run
      PROVE  ListenerInv'
  <2>1. mg'.todo = mg.todo \ {o} /\ mg'.at = "copy" /\ mg'.o = o
    BY <1>4, AtManaging DEF ManagerState
  <2> QED
    BY <1>1, <1>4, <2>1, AtManaging, ManagerMoves
<1>5. ASSUME NEW o \in mg.todo, SlotIsFree(o), run' = run,
             tl' = [tl EXCEPT ![o].mask = TRUE, ![o].rec = Null],
             mg' = [mg EXCEPT !.todo = @ \ {o}, !.o = o, !.at = "create"]
      PROVE  ListenerInv'
  <2>1. mg'.todo = mg.todo \ {o} /\ mg'.at = "create" /\ mg'.o = o /\ o \in Listeners
    BY <1>5, AtManaging DEF ManagerState
  <2>2. tl'[o] = [tl[o] EXCEPT !.mask = TRUE, !.rec = Null] /\ tl[o] \in Object
    BY <1>5, <2>1, AtManaging
  <2>3. tl'[o].mask /\ tl'[o].rec = Null
    BY <2>2 DEF Object
  <2>4. \A p \in Listeners : tl'[p].st = tl[p].st /\ tl'[p].conn = tl[p].conn
    BY <1>5, <2>1, <2>2, AtManaging DEF Object
  <2>5. \A p \in Listeners : p # o => tl'[p] = tl[p]
    BY <1>5, AtManaging
  <2>6. Managed'
    BY <2>1, <2>3, <2>4, AtManaging DEF Managed
  <2>7. Placed'
    BY <1>5, <2>4 DEF ListenerInv, Placed
  <2>8. OwnRecord'
    <3> SUFFICES ASSUME NEW q \in Runners, run[q].at \in Working, tl'[run[q].o].st = "live"
                 PROVE  tl'[run[q].o].mask /\ tl'[run[q].o].rec = q
      BY <1>5 DEF OwnRecord, Owns, Live
    <3>1. run[q].o \in Listeners /\ tl[run[q].o].mask /\ tl[run[q].o].rec = q
      BY <2>4, AtWork DEF Live
    <3>2. run[q].o # o
      BY <1>5, <3>1 DEF SlotIsFree
    <3> QED
      BY <2>5, <3>1, <3>2
  <2>9. Hearing'
    <3> SUFFICES ASSUME NEW q \in Runners, NEW p \in Listeners,
                        run[q].at \in {"head", "loop"}, ~run[q].close,
                        run[q].o = p, tl'[p].st = "live"
                 PROVE  (run[q].at = "head" /\ run[q].reconnect) \/ Reached(p)'
      <4>1. \A q \in Runners : run[q].at \in {"head", "loop"} => run[q].o \in Listeners
        BY AtWork DEF Working
      <4> QED
        BY <1>5, <4>1 DEF Hearing, Live, Reached
    <3>1. (run[q].at = "head" /\ run[q].reconnect) \/ Reached(p)
      BY <2>4, Initials DEF ListenerInv, Hearing, Live
    <3> QED
      BY <1>1, <2>4, <3>1 DEF Reached
  <2> QED
    BY <2>6, <2>7, <2>8, <2>9 DEF ListenerInv
<1> QED
  BY <1>2, <1>3, <1>4, <1>5 DEF Apply

LEMMA CreateKeepsListeners ==
    ASSUME ListenerInv, ListenerType', NEW r \in Runners, CreateRunner(r)
    PROVE  ListenerInv'
<1>1. /\ con' = con /\ run[r].at = "none" /\ mg.at = "create" /\ mg' = [mg EXCEPT !.at = "copy"]
      /\ tl' = [tl EXCEPT ![mg.o] = [tl[mg.o] EXCEPT !.rec = r]]
      /\ run' = [run EXCEPT ![r].at = "born", ![r].o = mg.o]
  BY DEF CreateRunner, ManagerFrame
<1>2. /\ mg.o \in Listeners /\ tl[mg.o].st # "none" /\ tl[mg.o].mask /\ tl[mg.o].rec = Null
      /\ tl[mg.o] \in Object /\ run[r] \in RunnerState
  BY <1>1, AtManaging DEF ListenerInv, Managed
<1>3. /\ mg'.todo = mg.todo /\ mg'.at = "copy" /\ mg'.o = mg.o
  BY <1>1, AtManaging DEF ManagerState
<1>4. /\ tl'[mg.o].mask /\ tl'[mg.o].rec = r
      /\ \A p \in Listeners : tl'[p].st = tl[p].st /\ tl'[p].conn = tl[p].conn
      /\ \A p \in Listeners : p # mg.o => tl'[p] = tl[p]
  BY <1>1, <1>2, AtManaging DEF Object
<1>5. /\ run'[r].at = "born" /\ run'[r].o = mg.o /\ run'[r].reconnect = run[r].reconnect
      /\ \A q \in Runners : q # r => run'[q] = run[q]
  BY <1>1, <1>2, AtManaging DEF RunnerState
<1>6. Managed'
  BY <1>2, <1>3, <1>4, AtManaging DEF Managed
<1>7. Placed'
  <2> SUFFICES ASSUME NEW q \in Runners
               PROVE  /\ run'[q].at \in Working => run'[q].o \in Listeners /\ tl'[run'[q].o].st # "none"
                      /\ run'[q].at \in {"none", "born"} => run'[q].reconnect
    BY DEF Placed
  <2>1. CASE q = r
    BY <1>1, <1>2, <1>4, <1>5, <2>1 DEF ListenerInv, Placed
  <2>2. CASE q # r
    BY <1>4, <1>5, <2>2 DEF ListenerInv, Placed
  <2> QED
    BY <2>1, <2>2
<1>8. OwnRecord'
  <2> SUFFICES ASSUME NEW q \in Runners, run'[q].at \in Working, tl'[run'[q].o].st = "live"
               PROVE  tl'[run'[q].o].mask /\ tl'[run'[q].o].rec = q
    BY DEF OwnRecord, Owns, Live
  <2>1. CASE q = r
    BY <1>4, <1>5, <2>1
  <2>2. CASE q # r
    <3>1. run'[q] = run[q] /\ run[q].at \in Working
      BY <1>5, <2>2
    <3>2. run[q].o \in Listeners /\ tl[run[q].o].mask /\ tl[run[q].o].rec = q
      BY <1>4, <3>1, AtWork DEF Live
    <3>3. run[q].o # mg.o
      BY <1>2, <3>2, Initials
    <3> QED
      BY <1>4, <3>1, <3>2, <3>3
  <2> QED
    BY <2>1, <2>2
<1>9. Hearing'
  <2> SUFFICES ASSUME NEW q \in Runners, NEW p \in Listeners,
                      run'[q].at \in {"head", "loop"}, ~run'[q].close,
                      run'[q].o = p, tl'[p].st = "live"
               PROVE  (run'[q].at = "head" /\ run'[q].reconnect) \/ Reached(p)'
    BY <1>7 DEF Hearing, Placed, Live, Working, Reached
  <2>1. run'[q] = run[q] /\ Live(p)
    BY <1>4, <1>5, Initials DEF Live
  <2>2. (run[q].at = "head" /\ run[q].reconnect) \/ Reached(p)
    BY <2>1 DEF ListenerInv, Hearing
  <2> QED
    BY <1>1, <1>4, <2>1, <2>2 DEF Reached
<1> QED
  BY <1>6, <1>7, <1>8, <1>9 DEF ListenerInv

\* A listener is removed, or its new configuration goes to its threads.
LEMMA OldKeepsListeners ==
    ASSUME ListenerInv, ListenerType', OldEntry
    PROVE  ListenerInv'
<1>1. con' = con /\ mg.at = "old"
  BY DEF OldEntry, ManagerFrame
<1> DEFINE id == prev[mg.i].id
           os == {o \in Listeners : Live(o) /\ tl[o].id = id}
<1>2. CASE \E j \in Changed(id) : StartApply(id, j, "old", tl) /\ tl' = tl /\ run' = run
  <2>1. /\ mg'.at = "apply"
        /\ mg'.todo = {o \in Listeners : tl[o].st = "live" /\ tl[o].id = id}
    BY <1>2, AtManaging DEF StartApply, ManagerState
  <2>2. \A o \in mg'.todo : tl[o].st # "none"
    BY <2>1
  <2> QED
    BY <1>1, <1>2, <2>1, <2>2, ManagerMoves
<1>3. CASE remove_tcp_listener(os) /\ mg' = [mg EXCEPT !.i = @ + 1]
  <2>1. mg'.todo = mg.todo /\ mg'.at = "old"
    BY <1>1, <1>3, AtManaging DEF ManagerState
  <2>2. \A p \in Listeners : IF p \in os THEN tl'[p].st = "freed" ELSE tl'[p] = tl[p]
    BY <1>3, Initials DEF remove_tcp_listener, NoListener
  <2> HIDE DEF os
  <2>3. \A r \in Runners : /\ run'[r].at = run[r].at /\ run'[r].o = run[r].o
                           /\ run'[r].reconnect = run[r].reconnect
                           /\ run[r].close => run'[r].close
    BY <1>3, AtManaging, Signalled DEF remove_tcp_listener
  <2>4. \A p \in Listeners : tl'[p].st = "live" => tl'[p] = tl[p]
    BY <2>2
  <2>5. \A p \in Listeners : tl[p].st # "none" => tl'[p].st # "none"
    BY <2>2
  <2>6. Managed'
    BY <2>1, <2>5, AtManaging DEF Managed
  <2>7. Placed'
    BY <2>3, <2>5 DEF ListenerInv, Placed
  <2>8. OwnRecord'
    <3> SUFFICES ASSUME NEW q \in Runners, run'[q].at \in Working, tl'[run'[q].o].st = "live"
                 PROVE  tl'[run'[q].o].mask /\ tl'[run'[q].o].rec = q
      BY DEF OwnRecord, Owns, Live
    <3>1. run[q].at \in Working /\ run'[q].o = run[q].o /\ run[q].o \in Listeners
      BY <2>3, AtWork
    <3>2. tl'[run[q].o] = tl[run[q].o]
      BY <2>4, <3>1
    <3> QED
      BY <3>1, <3>2, AtWork DEF Live
  <2>9. Hearing'
    <3> SUFFICES ASSUME NEW q \in Runners, NEW p \in Listeners,
                        run'[q].at \in {"head", "loop"}, ~run'[q].close,
                        run'[q].o = p, tl'[p].st = "live"
                 PROVE  (run'[q].at = "head" /\ run'[q].reconnect) \/ Reached(p)'
      BY <2>7 DEF Hearing, Placed, Live, Working, Reached
    <3>1. tl'[p] = tl[p] /\ Live(p)
      BY <2>4, Initials DEF Live
    <3>2. (run[q].at = "head" /\ run[q].reconnect) \/ Reached(p)
      BY <2>3, <3>1 DEF ListenerInv, Hearing
    <3> QED
      BY <1>1, <2>3, <3>1, <3>2 DEF Reached
  <2> QED
    BY <2>6, <2>7, <2>8, <2>9 DEF ListenerInv
<1> QED
  BY <1>2, <1>3 DEF OldEntry

\* The listener that is added is new to every thread.
LEMMA NewKeepsListeners ==
    ASSUME ListenerInv, ListenerType', NewEntry
    PROVE  ListenerInv'
<1>1. con' = con /\ run' = run /\ mg.at = "new"
  BY DEF NewEntry, ManagerFrame
<1>2. CASE mg' = [mg EXCEPT !.i = @ + 1] /\ tl' = tl
  <2>1. mg'.todo = mg.todo /\ mg'.at = "new"
    BY <1>1, <1>2, AtManaging DEF ManagerState
  <2> QED
    BY <1>1, <1>2, <2>1, AtManaging, ManagerMoves
<1>3. ASSUME NEW e, NEW o \in Listeners, tl[o].st = "none",
             tl' = [tl EXCEPT ![o] = [NoListener EXCEPT !.st = "live", !.id = e.id, !.c = e.c]],
             StartApply(e.id, mg.i, "new", tl')
      PROVE  ListenerInv'
  <2>1. tl'[o].st = "live" /\ \A p \in Listeners : p # o => tl'[p] = tl[p]
    BY <1>3, AtManaging DEF NoListener
  <2>2. \A p \in Listeners : tl[p].st # "none" => p # o /\ tl'[p] = tl[p]
    BY <1>3, <2>1
  <2>3. /\ mg'.at = "apply"
        /\ mg'.todo = {p \in Listeners : tl'[p].st = "live" /\ tl'[p].id = e.id}
    BY <1>3, AtManaging DEF StartApply, ManagerState
  <2>4. Managed'
    BY <2>3 DEF Managed
  <2>5. Placed'
    BY <1>1, <2>2 DEF ListenerInv, Placed
  <2>6. OwnRecord'
    <3> SUFFICES ASSUME NEW q \in Runners, run[q].at \in Working, tl'[run[q].o].st = "live"
                 PROVE  tl'[run[q].o].mask /\ tl'[run[q].o].rec = q
      BY <1>1 DEF OwnRecord, Owns, Live
    <3> QED
      BY <2>2, AtWork DEF Live
  <2>7. Hearing'
    <3> SUFFICES ASSUME NEW q \in Runners, NEW p \in Listeners,
                        run[q].at \in {"head", "loop"}, ~run[q].close,
                        run[q].o = p, tl'[p].st = "live"
                 PROVE  (run[q].at = "head" /\ run[q].reconnect) \/ Reached(p)'
      BY <1>1, AtWork DEF Hearing, Live, Working, Reached
    <3>1. tl'[p] = tl[p] /\ Live(p)
      BY <2>2, AtWork, Initials DEF Live, Working
    <3>2. (run[q].at = "head" /\ run[q].reconnect) \/ Reached(p)
      BY <3>1 DEF ListenerInv, Hearing
    <3> QED
      BY <1>1, <3>1, <3>2 DEF Reached
  <2> QED
    BY <2>4, <2>5, <2>6, <2>7 DEF ListenerInv
<1> QED
  BY <1>1, <1>2, <1>3 DEF NewEntry

-----------------------------------------------------------------------------
(* The theorems.                                                           *)

LEMMA ListenerStarts == ListenerInit => ListenerInv
<1> SUFFICES ASSUME ListenerInit PROVE ListenerInv
  OBVIOUS
<1>1. /\ file \in Files /\ ld \in [at : {"idle", "read", "gone"}, read : Files]
      /\ loads \in Nat /\ psv \in Seq(Entry)
  BY ListenerAssumption DEF ListenerInit
<1>2. mg \in ManagerState /\ mg.at = "wait" /\ mg.todo = {}
  BY Initials DEF ListenerInit, ManagerState, Manager
<1>3. tl \in [Listeners -> Object] /\ run \in [Runners -> RunnerState]
  BY Initials DEF ListenerInit
<1>4. con \in [Connectors -> ConnectorState]
  BY DEF ListenerInit, ConnectorState
<1>5. \A r \in Runners : run[r].at = "none" /\ run[r].reconnect
  BY DEF ListenerInit, NoRunner
<1> QED
  BY <1>1, <1>2, <1>3, <1>4, <1>5
  DEF ListenerInv, ListenerType, Managed, Placed, OwnRecord, Hearing, Working

LEMMA ListenerStep == ListenerInv /\ [ListenerNext]_listener_vars => ListenerInv'
<1> SUFFICES ASSUME ListenerInv, [ListenerNext]_listener_vars PROVE ListenerInv'
  OBVIOUS
<1>1. CASE UNCHANGED listener_vars
  <2>1. UNCHANGED <<file, ld, loads, psv, mg, tl, run, con>>
    BY <1>1 DEF listener_vars, source, loader, config
  <2> QED
    BY <2>1 DEF ListenerInv, ListenerType, Managed, Placed, OwnRecord, Owns, Hearing, Live, Reached
<1>2. CASE (\E f \in Files : Edit(f)) \/ version_checker \/ ReadConfig \/ SwapConfig \/ Quit
  <2>1. ListenerType'
    BY <1>2, LoaderType DEF ListenerInv
  <2>2. UNCHANGED <<mg, tl, run, con>>
    BY <1>2 DEF Edit, version_checker, ReadConfig, SwapConfig, Quit
  <2> QED
    BY <2>1, <2>2, ConnectionMoves DEF Reached
<1>3. CASE manager
  <2>1. ListenerType'
    BY <1>3, ManagerType DEF ListenerInv
  <2> QED
    BY <1>3, <2>1, PassKeepsListeners, ApplyKeepsListeners, CreateKeepsListeners,
       OldKeepsListeners, NewKeepsListeners DEF manager
<1>4. CASE \E r \in Runners : tcp_listener_runner(r)
  BY <1>4, RunnerType, RunnerKeepsListeners DEF ListenerInv
<1>5. CASE (\E k \in Connectors : thread_tcp_connection_proc(k)) \/ \E o \in Listeners : PeerHangsUp(o)
  <2>1. ListenerType'
    BY <1>5, ConnectionType DEF ListenerInv
  <2> QED
    BY <1>5, <2>1, ConnectorKeepsListeners, PeerKeepsListeners
<1> QED
  BY <1>1, <1>2, <1>3, <1>4, <1>5 DEF ListenerNext

\* The inductive invariant holds, for every list of listeners and any number of
\* edits, threads and lost connections (tcp_listener_manager,
\* tcp_listener_runner, thread_tcp_connection_proc).
THEOREM ListenerInvariant == ListenerSpec => []ListenerInv
  BY ListenerStarts, ListenerStep, PTL DEF ListenerSpec

\* The record a listener thread works with stays in the slot of its listener
\* until the thread clears its mask: apply_new_tcp_listener_config never frees
\* it under the thread (main.c of read_tcp_data).
THEOREM OwnRecordSafe == ListenerSpec => []OwnRecord
<1>1. ListenerInv => OwnRecord
  BY DEF ListenerInv
<1> QED
  BY <1>1, ListenerInvariant, PTL

\* A listener whose thread reads has a connection, or a connection thread that
\* will make one, however many connections were lost (tcp_listener_runner,
\* thread_tcp_connection_proc).
THEOREM NeverDeafSafe == ListenerSpec => []NeverDeaf
<1>1. ASSUME ListenerInv, NEW r \in Runners,
             run[r].at = "loop", ~run[r].close, Live(run[r].o)
      PROVE  \/ tl[run[r].o].conn # "none"
             \/ \E k \in Connectors : con[k].o = run[r].o /\ con[k].at \in {"start", "dial"}
  BY <1>1 DEF ListenerInv, Hearing, Reached
<1>2. ListenerInv => NeverDeaf
  BY <1>1 DEF NeverDeaf
<1> QED
  BY <1>2, ListenerInvariant, PTL

\* What ListenerTypeOK says of the file, the loader and the command.  A version
\* that was noticed is loaded once at most: a reading is under way only while
\* the notice stands, and the swap takes it back.
Clerks ==
    /\ ver \in 1..1+MaxEdits /\ ck \in {"on", "gone"} /\ seen \in 0..ver
    /\ version_changed \in BOOLEAN /\ prev \in Seq(Entry) /\ psv_changed \in BOOLEAN
    /\ quit_app \in BOOLEAN /\ exited \in BOOLEAN
    /\ ld.at = "read" => version_changed
    /\ loads <= seen /\ (version_changed => loads < seen)

LEMMA ClerksInit ==
    ASSUME ListenerInit
    PROVE  Clerks
<1>1. MaxEdits \in Nat
  BY ListenerAssumption
<1>2. prev \in Seq(Entry)
  BY DEF ListenerInit
<1>3. ver \in 1..1+MaxEdits /\ seen \in 0..ver /\ loads <= seen
  BY <1>1 DEF ListenerInit
<1>4. /\ ck \in {"on", "gone"} /\ version_changed = FALSE /\ psv_changed \in BOOLEAN
      /\ quit_app \in BOOLEAN /\ exited \in BOOLEAN /\ ld.at = "idle"
  BY DEF ListenerInit
<1> QED
  BY <1>2, <1>3, <1>4 DEF Clerks

\* The manager and the threads have no part in it, but for the flag a pass
\* takes back and the end of the program.
LEMMA OthersLoadNothing ==
    ASSUME \/ manager \/ \E r \in Runners : tcp_listener_runner(r)
           \/ \E k \in Connectors : thread_tcp_connection_proc(k)
           \/ \E o \in Listeners : PeerHangsUp(o)
    PROVE  /\ UNCHANGED <<ver, ck, seen, version_changed, ld, loads, prev, quit_app>>
           /\ psv_changed' \in {psv_changed, FALSE} /\ exited' \in {exited, TRUE}
<1>1. CASE manager
  BY <1>1 DEF manager, ManagerStarts, ManagerQuits, PassStarts, OldEntry, OldDone, NewEntry,
              PassDone, Apply, CopySettings, FlagRunner, CreateRunner, ManagerFrame, source,
              loader, config
<1>2. CASE \E r \in Runners : tcp_listener_runner(r)
  BY <1>2 DEF tcp_listener_runner, FindOwnRecord, LoopHead, LoopTurn, ClearMask, Astray,
              ThreadFrame, source, loader, config
<1>3. CASE \E k \in Connectors : thread_tcp_connection_proc(k)
  BY <1>3 DEF thread_tcp_connection_proc, RestartConnection, _connect_tcp, ConnectorAstray,
              ThreadFrame, source, loader, config
<1>4. CASE \E o \in Listeners : PeerHangsUp(o)
  BY <1>4 DEF PeerHangsUp, ThreadFrame, source, loader, config
<1> QED
  BY <1>1, <1>2, <1>3, <1>4

LEMMA ClerksStep ==
    ASSUME ListenerInv, Clerks, [ListenerNext]_listener_vars
    PROVE  Clerks'
<1>1. ListenerType /\ MaxEdits \in Nat /\ ver \in Nat /\ seen \in Nat /\ loads \in Nat
  BY ListenerAssumption DEF ListenerInv, ListenerType, Clerks
<1>2. ASSUME UNCHANGED <<ver, ck, seen, version_changed, ld, loads, prev, quit_app>>,
             psv_changed' \in {psv_changed, FALSE}, exited' \in {exited, TRUE}
      PROVE  Clerks'
  BY <1>2 DEF Clerks
<1>3. CASE UNCHANGED listener_vars
  BY <1>2, <1>3 DEF listener_vars, source, loader, config
<1>4. CASE \E f \in Files : Edit(f)
  <2>1. /\ ver' = ver + 1 /\ ver <= MaxEdits
        /\ UNCHANGED <<ck, seen, version_changed, ld, loads, prev, psv_changed, quit_app, exited>>
    BY <1>4 DEF Edit, loader, config
  <2> QED
    BY <1>1, <2>1 DEF Clerks
<1>5. CASE version_checker
  <2>1. /\ UNCHANGED <<ver, ld, loads, prev, psv_changed, quit_app, exited>> /\ seen # ver
        /\ \/ ck' = "gone" /\ UNCHANGED <<seen, version_changed>>
           \/ seen' = ver /\ version_changed' = TRUE /\ ck' = ck
    BY <1>5 DEF version_checker, source, config
  <2>2. CASE ck' = "gone" /\ UNCHANGED <<seen, version_changed>>
    BY <2>1, <2>2 DEF Clerks
  <2>3. CASE seen' = ver /\ version_changed' = TRUE /\ ck' = ck
    <3>1. seen < ver /\ loads < ver
      BY <1>1, <2>1 DEF Clerks
    <3> QED
      BY <1>1, <2>1, <2>3, <3>1 DEF Clerks
  <2> QED
    BY <2>1, <2>2, <2>3
<1>6. CASE ReadConfig
  <2>1. /\ UNCHANGED <<ver, ck, seen, version_changed, loads, prev, psv_changed, quit_app, exited>>
        /\ version_changed
    BY <1>6 DEF ReadConfig, source, config
  <2> QED
    BY <2>1 DEF Clerks
<1>7. CASE SwapConfig
  <2>1. psv \in Seq(Entry)
    BY <1>1 DEF ListenerType
  <2>2. (psv_changed \/ AnyChange(psv, ld.read)) \in BOOLEAN
    OBVIOUS
  <2>3. psv_changed' \in BOOLEAN
    BY <1>7, <2>2 DEF SwapConfig
  <2>4. /\ prev' = psv /\ version_changed' = FALSE /\ loads' = loads + 1 /\ ld'.at = "idle"
        /\ ld.at = "read" /\ UNCHANGED <<ver, ck, seen, quit_app, exited>>
    BY <1>7 DEF SwapConfig, source
  <2>5. loads' <= seen'
    BY <1>1, <2>4 DEF Clerks
  <2> QED
    BY <2>1, <2>3, <2>4, <2>5 DEF Clerks
<1>8. CASE Quit
  <2>1. /\ quit_app' = TRUE
        /\ UNCHANGED <<ver, ck, seen, version_changed, ld, loads, prev, psv_changed, exited>>
    BY <1>8 DEF Quit, source, loader, config
  <2> QED
    BY <2>1 DEF Clerks
<1>9. CASE \/ manager \/ \E r \in Runners : tcp_listener_runner(r)
           \/ \E k \in Connectors : thread_tcp_connection_proc(k)
           \/ \E o \in Listeners : PeerHangsUp(o)
  BY <1>2, <1>9, OthersLoadNothing
<1> QED
  BY <1>3, <1>4, <1>5, <1>6, <1>7, <1>8, <1>9 DEF ListenerNext

LEMMA ListenerTypes ==
    ASSUME ListenerInv, Clerks
    PROVE  ListenerTypeOK
<1>1. ListenerType
  BY DEF ListenerInv
<1>2. loads \in 0..ver
  BY <1>1 DEF ListenerType, Clerks
<1>3. \A a \in {psv, prev} : \A i \in DOMAIN a : a[i].c \in Cfg /\ a[i].chg \in BOOLEAN
  <2>1. ASSUME NEW a \in Seq(Entry), NEW i \in DOMAIN a
        PROVE  a[i].c \in Cfg /\ a[i].chg \in BOOLEAN
    <3>1. a[i] \in Entry
      BY ElementOfSeq
    <3> QED
      BY <3>1 DEF Entry
  <2> QED
    BY <1>1, <2>1 DEF ListenerType, Clerks
<1>4. /\ mg.at \in {"wait", "top", "old", "new", "apply", "create", "copy", "flag", "done"}
      /\ mg.ret \in {"old", "new"} /\ mg.i \in Nat
      /\ mg.todo \subseteq Listeners /\ mg.o \in Listeners \cup {Null}
  BY <1>1 DEF ListenerType, ManagerState
<1>5. \A o \in Listeners :
        /\ tl[o].st \in {"none", "live", "freed"} /\ tl[o].c \in Cfg
        /\ tl[o].mask \in BOOLEAN /\ tl[o].rec \in Runners \cup {Null}
        /\ tl[o].conn \in {"none", "up", "broken"}
  BY <1>1 DEF ListenerType, Object
<1>6. run \in [Runners -> RunnerState] /\ con \in [Connectors -> ConnectorState]
  BY <1>1 DEF ListenerType
<1>7. ld.at \in {"idle", "read", "gone"} /\ ld.read \in Files /\ file \in Files
  BY <1>1 DEF ListenerType
<1> QED
  BY <1>2, <1>3, <1>4, <1>5, <1>6, <1>7 DEF ListenerTypeOK, Clerks, RunnerState, ConnectorState

\* The state of the reader keeps its types; among them that it never swaps in
\* more configurations than the file had versions (version_checker,
\* config_loader).
THEOREM ListenerTypeCorrect == ListenerSpec => []ListenerTypeOK
<1>1. ListenerInit => Clerks
  BY ClerksInit
<1>2. ListenerInv /\ Clerks /\ [ListenerNext]_listener_vars => Clerks'
  BY ClerksStep
<1>3. ListenerInv /\ Clerks => ListenerTypeOK
  BY ListenerTypes
<1> QED
  BY <1>1, <1>2, <1>3, ListenerInvariant, PTL DEF ListenerSpec
=============================================================================

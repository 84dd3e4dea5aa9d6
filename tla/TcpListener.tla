----------------------------- MODULE TcpListener -----------------------------
(***************************************************************************)
(* The TCP reader (read_tcp_data): version_checker and config_loader load  *)
(* the list of listeners, tcp_listener_manager starts, changes and removes *)
(* them, and a listener has one thread (tcp_listener_runner) that reads    *)
(* from its connection and leaves accepting to a thread of its own         *)
(* (thread_tcp_connection_proc), which it starts and does not wait for.    *)
(*                                                                         *)
(* The connection handle belongs to the TLS library (external).  It is     *)
(* "none", "up", or "broken": still established, but the peer has closed.  *)
(* A listener that was removed is freed; a thread that needs it then, or   *)
(* follows a null pointer, goes astray ("wild").                           *)
(***************************************************************************)
EXTENDS Naturals, Sequences, FiniteSets, CfgLists

CONSTANTS
    Files,      \* the contents the configuration file may be given
    FirstFile,  \* the content it starts with
    MaxEdits,   \* bound: edits of the file
    NL,         \* bound: tcp_listener objects ever allocated
    NR,         \* bound: listener threads ever created
    NC          \* bound: connection threads ever created

Listeners  == 1..NL
Runners    == 1..NR
Connectors == 1..NC
Null       == 0

Cfg == [on : BOOLEAN, tag : Nat]

ASSUME ListenerAssumption ==
    /\ MaxEdits \in Nat /\ NL \in Nat \ {0} /\ NR \in Nat \ {0} /\ NC \in Nat \ {0}
    /\ FirstFile \in Files
    /\ \A f \in Files : f # << >> /\ f \in Seq([id : STRING, c : Cfg])

VARIABLES
    file, ver,          \* the configuration file and its version
    ck, seen,           \* version_checker; _ver (0: NULL)
    version_changed,    \* _version_changed
    ld, loads,          \* config_loader: [at, read]; configurations swapped in
    psv, prev,          \* _ptcp_listener_psvcfg, _pprev_tcp_listener_psvcfg
    psv_changed,        \* _psvcfg_changed
    mg,                 \* tcp_listener_manager
    tl,                 \* the tcp_listener objects
    run,                \* the listener threads and their records
    con,                \* the connection threads
    quit_app, exited    \* "quit" was typed; main returned

source == <<file, ver>>
loader == <<ck, seen, version_changed, ld, loads>>
config == <<psv, prev, psv_changed>>
listener_vars == <<source, loader, config, mg, tl, run, con, quit_app, exited>>

Working == {"born", "head", "loop", "leaving"}

ListenerTypeOK ==
    /\ file \in Files /\ ver \in 1..1+MaxEdits
    /\ ck \in {"on", "gone"} /\ seen \in 0..ver /\ version_changed \in BOOLEAN
    /\ ld.at \in {"idle", "read", "gone"} /\ ld.read \in Files /\ loads \in 0..ver
    /\ \A a \in {psv, prev} : \A i \in DOMAIN a : a[i].c \in Cfg /\ a[i].chg \in BOOLEAN
    /\ psv_changed \in BOOLEAN
    /\ mg.at \in {"wait", "top", "old", "new", "apply", "create", "copy", "flag", "done"}
    /\ mg.ret \in {"old", "new"} /\ mg.i \in Nat
    /\ mg.todo \subseteq Listeners /\ mg.o \in Listeners \cup {Null}
    /\ \A o \in Listeners :
        /\ tl[o].st \in {"none", "live", "freed"} /\ tl[o].c \in Cfg
        /\ tl[o].mask \in BOOLEAN /\ tl[o].rec \in Runners \cup {Null}
        /\ tl[o].conn \in {"none", "up", "broken"}
    /\ run \in [Runners -> [at : Working \cup {"none", "gone", "wild"},
                            o : Listeners \cup {Null}, base : BOOLEAN,
                            close : BOOLEAN, reconnect : BOOLEAN]]
    /\ con \in [Connectors -> [at : {"none", "start", "dial", "gone", "wild"},
                               o : Listeners \cup {Null}]]
    /\ quit_app \in BOOLEAN /\ exited \in BOOLEAN

NoCfg == [on |-> FALSE, tag |-> 0]
NoListener == [st |-> "none", id |-> "", c |-> NoCfg, mask |-> FALSE, rec |-> Null,
               conn |-> "none"]
NoRunner == [at |-> "none", o |-> Null, base |-> FALSE, close |-> FALSE,
             reconnect |-> TRUE]
Manager == [at |-> "top", ret |-> "old", i |-> 1, todo |-> {}, o |-> Null,
            c |-> NoCfg, j |-> 0, gen |-> 0]

ListenerInit ==
    /\ file = FirstFile /\ ver = 1
    /\ ck = "on" /\ seen = 0 /\ version_changed = FALSE
    /\ ld = [at |-> "idle", read |-> FirstFile] /\ loads = 0
    /\ psv = << >> /\ prev = << >> /\ psv_changed = FALSE
    /\ mg = [Manager EXCEPT !.at = "wait"]
    /\ tl = [o \in Listeners |-> NoListener]
    /\ run = [r \in Runners |-> NoRunner]
    /\ con = [k \in Connectors |-> [at |-> "none", o |-> Null]]
    /\ quit_app = FALSE /\ exited = FALSE

Up == ~exited

(***************************************************************************)
(* The configuration.                                                      *)
(***************************************************************************)
\* An edit that no thread is left to read is of no interest.
Edit(f) ==
    /\ Up /\ ver <= MaxEdits /\ f # file
    /\ ck = "on" /\ ld.at # "gone" /\ ~quit_app
    /\ file' = f /\ ver' = ver + 1
    /\ UNCHANGED <<loader, config, mg, tl, run, con, quit_app, exited>>

\* A file that cannot be read or parsed ends the thread.  Both threads end on
\* quit_app: they take no more steps.
version_checker ==
    /\ Up /\ ck = "on" /\ ld.at # "gone" /\ ~quit_app /\ seen # ver
    /\ \/ ck' = "gone" /\ UNCHANGED <<seen, version_changed>>
       \/ seen' = ver /\ version_changed' = TRUE /\ UNCHANGED ck
    /\ UNCHANGED <<source, ld, loads, config, mg, tl, run, con, quit_app, exited>>

ReadConfig ==
    /\ Up /\ ld.at = "idle" /\ ~quit_app /\ version_changed
    /\ \/ ld' = [ld EXCEPT !.at = "gone"]
       \/ ld' = [at |-> "read", read |-> file]
    /\ UNCHANGED <<source, ck, seen, version_changed, loads, config, mg, tl, run, con,
                   quit_app, exited>>

SwapConfig ==
    /\ Up /\ ld.at = "read"
    /\ prev' = psv /\ psv' = Marked(psv, ld.read)
    /\ psv_changed' = (psv_changed \/ AnyChange(psv, ld.read))
    /\ version_changed' = FALSE /\ loads' = loads + 1
    /\ ld' = [at |-> "idle", read |-> FirstFile]
    /\ UNCHANGED <<source, ck, seen, mg, tl, run, con, quit_app, exited>>

(***************************************************************************)
(* The thread of a listener.                                               *)
(***************************************************************************)
Live(o) == o # Null /\ tl[o].st = "live"
Owns(r) == tl[run[r].o].mask /\ tl[run[r].o].rec = r
ThreadFrame == UNCHANGED <<source, loader, config, mg, quit_app, exited>>

\* It looks for its own thread id and takes back a change signalled before.
FindOwnRecord(r) ==
    /\ Up /\ run[r].at = "born" /\ Live(run[r].o) /\ Owns(r)
    /\ run' = [run EXCEPT ![r].at = "head", ![r].base = FALSE]
    /\ ThreadFrame /\ UNCHANGED <<tl, con>>

StartConnection(r) ==
    /\ run[r].reconnect
    /\ \E k \in Connectors :
        /\ con[k].at = "none" /\ \A q \in 1..k-1 : con[q].at # "none"
        /\ con' = [con EXCEPT ![k] = [at |-> "start", o |-> run[r].o]]
    /\ run' = [run EXCEPT ![r].at = "loop", ![r].reconnect = FALSE]

\* Mutant: only the outer loop looks at the order to close.
CloseSeenAtHead(r) == run[r].close /\ run[r].at = "head"

CloseSeen(r) == run[r].close

\* The head of the outer loop.
LoopHead(r) ==
    /\ Up /\ run[r].at = "head" /\ Live(run[r].o)
    /\ \/ CloseSeen(r) /\ run' = [run EXCEPT ![r].at = "leaving"] /\ UNCHANGED con
       \/ ~run[r].close /\ StartConnection(r)
       \/ /\ ~run[r].close /\ ~run[r].reconnect
          /\ run' = [run EXCEPT ![r].at = "loop"] /\ UNCHANGED con
    /\ ThreadFrame /\ UNCHANGED tl

\* A turn of the inner loop that changes something: close, a new
\* configuration (no new connection for it), or a peer that has closed: found
\* by the read, which leaves the handle as it is, or after a timeout, when
\* the handle is closed.
LoopTurn(r) ==
    LET o == run[r].o IN
    /\ Up /\ run[r].at = "loop" /\ Live(o)
    /\ \/ /\ CloseSeen(r)
          /\ run' = [run EXCEPT ![r].at = "leaving"] /\ UNCHANGED tl
       \/ /\ ~run[r].close /\ run[r].base
          /\ run' = [run EXCEPT ![r].at = "head", ![r].base = FALSE] /\ UNCHANGED tl
       \/ /\ ~run[r].close /\ ~run[r].base /\ tl[o].conn = "broken"
          /\ run' = [run EXCEPT ![r].at = "head", ![r].reconnect = TRUE]
          /\ tl' \in {tl, [tl EXCEPT ![o].conn = "none"]}
    /\ ThreadFrame /\ UNCHANGED con

\* The last act: its mask.
ClearMask(r) ==
    /\ Up /\ run[r].at = "leaving" /\ Live(run[r].o)
    /\ tl' = IF Owns(r) THEN [tl EXCEPT ![run[r].o].mask = FALSE] ELSE tl
    /\ run' = [run EXCEPT ![r] = [NoRunner EXCEPT !.at = "gone", !.close = TRUE]]
    /\ ThreadFrame /\ UNCHANGED con

\* The listener was removed: its thread was told to close and reads it once
\* more to clear its mask, or is still looking for its record.
Astray(r) ==
    /\ Up /\ run[r].at \in Working /\ ~Live(run[r].o)
    /\ run' = [run EXCEPT ![r] = [NoRunner EXCEPT !.at = "wild"]]
    /\ ThreadFrame /\ UNCHANGED <<tl, con>>

(***************************************************************************)
(* The connection thread, and the peer (external).                         *)
(***************************************************************************)
RestartConnection(k) ==
    /\ Up /\ con[k].at = "start" /\ Live(con[k].o)
    /\ tl' = [tl EXCEPT ![con[k].o].conn = "none"]
    /\ con' = [con EXCEPT ![k].at = "dial"]
    /\ ThreadFrame /\ UNCHANGED run

\* Mutant: the first accept that fails ends the thread.
GivesUp(k) == TRUE

\* The thread ends without a connection when the record in the first slot
\* says close.
StopsDialing(k) == run[tl[con[k].o].rec].close

_connect_tcp(k) ==
    LET o == con[k].o IN
    /\ Up /\ con[k].at = "dial" /\ Live(o) /\ tl[o].rec # Null
    /\ \/ StopsDialing(k) /\ UNCHANGED tl
       \/ ~run[tl[o].rec].close /\ tl' = [tl EXCEPT ![o].conn = "up"]
    /\ con' = [con EXCEPT ![k] = [at |-> "gone", o |-> Null]]
    /\ ThreadFrame /\ UNCHANGED run

\* The listener is gone, or the manager has just freed the record.
ConnectorAstray(k) ==
    /\ Up /\ con[k].at \in {"start", "dial"}
    /\ ~Live(con[k].o) \/ (con[k].at = "dial" /\ tl[con[k].o].rec = Null)
    /\ con' = [con EXCEPT ![k] = [at |-> "wild", o |-> Null]]
    /\ ThreadFrame /\ UNCHANGED <<tl, run>>

PeerHangsUp(o) ==
    /\ Up /\ tl[o].conn = "up"
    /\ tl' = [tl EXCEPT ![o].conn = "broken"]
    /\ ThreadFrame /\ UNCHANGED <<run, con>>

(***************************************************************************)
(* apply_new_tcp_listener_config (PARALLELISM_COUNT = 1: one slot).        *)
(***************************************************************************)
ManagerFrame == UNCHANGED <<source, loader, con, quit_app>>

ToldToClose(os) ==
    [r \in Runners |-> [run[r] EXCEPT !.close = @ \/ \E o \in os : tl[o].mask /\ tl[o].rec = r]]

\* Mutant: the slot is taken although its thread is still on it.
FreeSlot(o) == TRUE

SlotIsFree(o) == ~tl[o].mask

\* Off: the thread is told to close.  On: a free slot is masked, and the
\* record of the thread that was there is freed.
Apply ==
    /\ Up /\ mg.at = "apply"
    /\ \/ /\ mg.todo = {} /\ mg' = [Manager EXCEPT !.at = mg.ret, !.i = mg.i] /\ UNCHANGED <<tl, run>>
       \/ \E o \in mg.todo :
            \/ /\ ~mg.c.on
               /\ run' = ToldToClose({o}) /\ mg' = [mg EXCEPT !.todo = @ \ {o}]
               /\ UNCHANGED tl
            \/ /\ mg.c.on /\ ~SlotIsFree(o)
               /\ mg' = [mg EXCEPT !.todo = @ \ {o}, !.o = o, !.at = "copy"]
               /\ UNCHANGED <<tl, run>>
            \/ /\ mg.c.on /\ SlotIsFree(o)
               /\ tl' = [tl EXCEPT ![o].mask = TRUE, ![o].rec = Null]
               /\ mg' = [mg EXCEPT !.todo = @ \ {o}, !.o = o, !.at = "create"]
               /\ UNCHANGED run
    /\ ManagerFrame /\ UNCHANGED <<config, exited>>

CreateRunner(r) ==
    /\ Up /\ mg.at = "create"
    /\ run[r].at = "none" /\ \A q \in 1..r-1 : run[q].at # "none"
    /\ tl' = [tl EXCEPT ![mg.o].rec = r]
    /\ run' = [run EXCEPT ![r].at = "born", ![r].o = mg.o]
    /\ mg' = [mg EXCEPT !.at = "copy"]
    /\ ManagerFrame /\ UNCHANGED <<config, exited>>

CopySettings ==
    /\ Up /\ mg.at = "copy"
    /\ tl' = [tl EXCEPT ![mg.o].c = mg.c]
    /\ psv' = IF mg.gen = loads THEN [psv EXCEPT ![mg.j].chg = FALSE] ELSE psv
    /\ mg' = [mg EXCEPT !.at = "flag"]
    /\ ManagerFrame /\ UNCHANGED <<prev, psv_changed, run, exited>>

FlagRunner ==
    /\ Up /\ mg.at = "flag"
    /\ run' = [r \in Runners |->
                  [run[r] EXCEPT !.base = @ \/ (tl[mg.o].mask /\ r = tl[mg.o].rec)]]
    /\ mg' = [mg EXCEPT !.at = "apply"]
    /\ ManagerFrame /\ UNCHANGED <<config, tl, exited>>

(***************************************************************************)
(* tcp_listener_manager.                                                   *)
(***************************************************************************)
ManagerStarts ==
    /\ Up /\ mg.at = "wait" /\ (psv # << >> \/ quit_app)
    /\ mg' = [mg EXCEPT !.at = "top"]
    /\ ManagerFrame /\ UNCHANGED <<config, tl, run, exited>>

\* Mutant: the quit command is looked at only when there is nothing to apply.
QuitsWhenIdle == quit_app /\ ~psv_changed

QuitSeen == quit_app

\* Every listener is switched off, the manager ends, main joins it.
ManagerQuits ==
    /\ Up /\ mg.at = "top" /\ QuitSeen
    /\ run' = ToldToClose({o \in Listeners : Live(o) /\ tl[o].id \in Ids(psv)})
    /\ mg' = [mg EXCEPT !.at = "done"] /\ exited' = TRUE
    /\ ManagerFrame /\ UNCHANGED <<config, tl>>

PassStarts ==
    /\ Up /\ mg.at = "top" /\ ~quit_app /\ psv_changed
    /\ mg' = [mg EXCEPT !.at = "old", !.i = 1]
    /\ ManagerFrame /\ UNCHANGED <<config, tl, run, exited>>

StartApply(id, j, ret, w) ==
    mg' = [mg EXCEPT !.at = "apply", !.ret = ret, !.i = @ + 1, !.j = j, !.gen = loads,
                     !.c = psv[j].c,
                     !.todo = {o \in Listeners : w[o].st = "live" /\ w[o].id = id}]

Changed(id) == {j \in DOMAIN psv : psv[j].id = id /\ psv[j].chg}

remove_tcp_listener(os) ==
    /\ run' = ToldToClose(os)
    /\ tl' = [o \in Listeners |-> IF o \in os THEN [NoListener EXCEPT !.st = "freed"]
                                  ELSE tl[o]]

OldEntry ==
    /\ Up /\ mg.at = "old" /\ mg.i <= Len(prev)
    /\ LET id == prev[mg.i].id IN
        \/ /\ \E j \in Changed(id) : /\ \A k \in Changed(id) : j <= k
                                     /\ StartApply(id, j, "old", tl)
           /\ UNCHANGED <<tl, run>>
        \/ /\ Changed(id) = {}
           /\ remove_tcp_listener({o \in Listeners : Live(o) /\ tl[o].id = id})
           /\ mg' = [mg EXCEPT !.i = @ + 1]
    /\ ManagerFrame /\ UNCHANGED <<config, exited>>

OldDone ==
    /\ Up /\ mg.at = "old" /\ mg.i > Len(prev)
    /\ mg' = [mg EXCEPT !.at = "new", !.i = 1]
    /\ ManagerFrame /\ UNCHANGED <<config, tl, run, exited>>

\* add_new_tcp_listener for an entry the previous list has not got.
NewEntry ==
    /\ Up /\ mg.at = "new" /\ mg.i <= Len(psv)
    /\ LET e == psv[mg.i] IN
        \/ /\ e.id \in Ids(prev)
           /\ mg' = [mg EXCEPT !.i = @ + 1] /\ UNCHANGED tl
        \/ /\ e.id \notin Ids(prev)
           /\ \E o \in Listeners :
                /\ tl[o].st = "none" /\ \A k \in 1..o-1 : tl[k].st # "none"
                /\ tl' = [tl EXCEPT ![o] = [NoListener EXCEPT !.st = "live", !.id = e.id, !.c = e.c]]
                /\ StartApply(e.id, mg.i, "new", tl')
    /\ ManagerFrame /\ UNCHANGED <<config, run, exited>>

PassDone ==
    /\ Up /\ mg.at = "new" /\ mg.i > Len(psv)
    /\ psv_changed' = FALSE
    /\ mg' = Manager
    /\ ManagerFrame /\ UNCHANGED <<psv, prev, tl, run, exited>>

\* input_thread; "sync" and "rst" only reset counters.
Quit ==
    /\ Up /\ ~quit_app
    /\ quit_app' = TRUE
    /\ UNCHANGED <<source, loader, config, mg, tl, run, con, exited>>

manager ==
    \/ ManagerStarts \/ ManagerQuits \/ PassStarts \/ OldEntry \/ OldDone \/ NewEntry
    \/ PassDone \/ Apply \/ CopySettings \/ FlagRunner
    \/ \E r \in Runners : CreateRunner(r)

tcp_listener_runner(r) ==
    FindOwnRecord(r) \/ LoopHead(r) \/ LoopTurn(r) \/ ClearMask(r) \/ Astray(r)

thread_tcp_connection_proc(k) ==
    RestartConnection(k) \/ _connect_tcp(k) \/ ConnectorAstray(k)

ListenerNext ==
    \/ \E f \in Files : Edit(f)
    \/ version_checker \/ ReadConfig \/ SwapConfig
    \/ manager \/ Quit
    \/ \E r \in Runners : tcp_listener_runner(r)
    \/ \E k \in Connectors : thread_tcp_connection_proc(k)
    \/ \E o \in Listeners : PeerHangsUp(o)

\* The manager, the listener threads and the connection threads are scheduled
\* by the kernel; nothing is assumed of the peers or of the user.
ListenerSpec ==
    /\ ListenerInit /\ [][ListenerNext]_listener_vars
    /\ WF_listener_vars(manager)
    /\ \A r \in Runners : WF_listener_vars(tcp_listener_runner(r))

(***************************************************************************)
(* Properties.                                                             *)
(***************************************************************************)

\* The record a listener thread works with is never freed under it, and it is
\* the one in the slot of its listener, as long as the listener is there: the
\* mask is the last thing the thread gives up, and only a slot without a mask
\* is filled again (apply_new_tcp_listener_config, tcp_listener_runner).
OwnRecord ==
    \A r \in Runners :
        run[r].at \in Working /\ Live(run[r].o) => Owns(r)

\* A listener whose thread reads is never deaf: it has a connection, or a
\* connection thread is on its way to one, whatever connections were lost and
\* whichever connection threads of earlier starts are still about.
NeverDeaf ==
    \A r \in Runners :
        run[r].at = "loop" /\ ~run[r].close /\ Live(run[r].o) =>
            \/ tl[run[r].o].conn # "none"
            \/ \E k \in Connectors : con[k].o = run[r].o /\ con[k].at \in {"start", "dial"}

\* "quit" ends the program, whatever the manager is in the middle of.
QuitEnds == quit_app ~> exited

\* A thread that was told to close ends.
ListenerStops ==
    \A r \in Runners :
        (run[r].at \in Working /\ run[r].close) ~> (run[r].at \in {"gone", "wild"} \/ exited)
=============================================================================

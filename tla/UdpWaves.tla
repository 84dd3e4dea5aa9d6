------------------------------ MODULE UdpWaves ------------------------------
(***************************************************************************)
(* The UDP generator (make_udp_packet): version_checker notices a new      *)
(* version of the configuration, config_loader reads and compares it,      *)
(* waves_manager starts, changes and removes waves, and every wave runs    *)
(* parallelism_count threads (wave_runner), which find their own record,   *)
(* send until they are closed or their quota is used up, and take          *)
(* themselves off the wave.  input_thread serves "quit" and "rst".         *)
(*                                                                         *)
(* No lock protects any of this: masks, records and flags are read and     *)
(* written by the manager and the runners in the order of the actions      *)
(* below.  A wave or a record is named by a number that is never reused;   *)
(* memory that was freed is not read on: a runner that needs its removed   *)
(* wave, and a manager whose wave was removed under it, go astray ("wild") *)
(* and a null pointer that is followed ends the process ("crash").         *)
(***************************************************************************)
EXTENDS Integers, Sequences, FiniteSets, CfgLists

CONSTANTS
    Files,      \* the contents the configuration file may be given
    FirstFile,  \* the content it starts with
    MaxEdits,   \* bound: edits of the file
    MaxCmds,    \* bound: commands typed
    NO,         \* bound: udp_wave objects ever allocated
    NR          \* bound: threads ever created

Waves   == 1..NO
Runners == 1..NR
Null    == 0

Cfg == [on : BOOLEAN, par : Nat, quota : Nat, tune : Nat]

ASSUME WavesAssumption ==
    /\ MaxEdits \in Nat /\ MaxCmds \in Nat /\ NO \in Nat \ {0} /\ NR \in Nat \ {0}
    /\ FirstFile \in Files
    /\ \A f \in Files : f # << >> /\ f \in Seq([id : STRING, c : Cfg])

VARIABLES
    file, ver,          \* the configuration file and its version
    ck,                 \* version_checker: "on" or "gone"
    seen,               \* _ver (0: NULL)
    version_changed,    \* _version_changed
    ld,                 \* config_loader: [at, read]
    loads,              \* configurations swapped in
    close_app,          \* close_app of the current general configuration
    psv, prev,          \* _pwave_psvcfg, _pprev_wave_psvcfg: [id, c, chg]
    psv_changed,        \* _psvcfg_changed
    mg,                 \* waves_manager
    wave,               \* the udp_wave objects
    run,                \* the threads and their records
    inp,                \* input_thread: "ready" or "gone"
    cmds, edits,        \* commands and edits so far
    exited              \* "no", "quit" or "crash"

source == <<file, ver, edits>>
loader == <<ck, seen, version_changed, ld, loads, close_app>>
config == <<psv, prev, psv_changed>>
input  == <<inp, cmds>>
vars   == <<source, loader, config, mg, wave, run, input, exited>>

Slot == [mask : BOOLEAN, rec : Runners \cup {Null}]
RunAt == {"none", "born", "read", "loop", "leaving", "unmask", "drop", "gone", "wild"}
MgrAt == {"wait", "top", "old", "new", "apply", "start", "create", "retire",
          "copy", "flag", "wild", "done"}

TypeOK ==
    /\ file \in Files /\ ver \in 1..1+MaxEdits /\ edits \in 0..MaxEdits
    /\ ck \in {"on", "gone"} /\ seen \in 0..ver /\ version_changed \in BOOLEAN
    /\ ld.at \in {"idle", "read", "gone"} /\ ld.read \in Files
    /\ loads \in Nat /\ close_app \in BOOLEAN /\ psv_changed \in BOOLEAN
    /\ \A a \in {psv, prev} : \A i \in DOMAIN a : a[i].c \in Cfg /\ a[i].chg \in BOOLEAN
    /\ mg.at \in MgrAt /\ mg.ret \in {"old", "new"} /\ mg.i \in Nat
    /\ mg.todo \subseteq Waves /\ mg.o \in Waves \cup {Null}
    /\ mg.n \in Nat /\ mg.s \in Nat
    /\ \A o \in Waves :
        /\ wave[o].st \in {"none", "live", "freed"} /\ wave[o].c \in Cfg
        /\ wave[o].sock \in BOOLEAN /\ wave[o].trds \in Seq(Slot)
    /\ run \in [Runners -> [at : RunAt, o : Waves \cup {Null}, quota : Nat, tune : Nat,
                            slot : Nat, base : BOOLEAN, close : BOOLEAN, freed : BOOLEAN]]
    /\ inp \in {"ready", "gone"} /\ cmds \in 0..MaxCmds
    /\ exited \in {"no", "quit", "crash"}

NoCfg == [on |-> FALSE, par |-> 0, quota |-> 0, tune |-> 0]
NoWave == [st |-> "none", id |-> "", c |-> NoCfg, sock |-> FALSE, trds |-> << >>]
Manager == [at |-> "top", ret |-> "old", i |-> 1, todo |-> {}, o |-> Null,
            c |-> NoCfg, j |-> 0, gen |-> 0, n |-> 0, s |-> 0]
NoRunner == [at |-> "none", o |-> Null, quota |-> 0, tune |-> 0, slot |-> 0,
             base |-> FALSE, close |-> FALSE, freed |-> FALSE]

Init ==
    /\ file = FirstFile /\ ver = 1 /\ edits = 0
    /\ ck = "on" /\ seen = 0 /\ version_changed = FALSE
    /\ ld = [at |-> "idle", read |-> FirstFile] /\ loads = 0
    /\ close_app = FALSE /\ psv = << >> /\ prev = << >> /\ psv_changed = FALSE
    /\ mg = [Manager EXCEPT !.at = "wait"]
    /\ wave = [o \in Waves |-> NoWave]
    /\ run = [r \in Runners |-> NoRunner]
    /\ inp = "ready" /\ cmds = 0 /\ exited = "no"

Up == exited = "no"
Crash == exited' = "crash"

(***************************************************************************)
(* The configuration: the user edits it, the checker notices the version,  *)
(* the loader reads the file, swaps it in and compares.                    *)
(***************************************************************************)
Edit(f) ==
    /\ Up /\ edits < MaxEdits /\ f # file
    /\ file' = f /\ ver' = ver + 1 /\ edits' = edits + 1
    /\ UNCHANGED <<loader, config, mg, wave, run, input, exited>>

\* A file that cannot be read or parsed ends the thread, as close_app does.
version_checker ==
    /\ Up /\ ck = "on"
    /\ \/ /\ ck' = "gone" /\ UNCHANGED <<seen, version_changed>>
       \/ /\ ~close_app /\ seen # ver
          /\ seen' = ver /\ version_changed' = TRUE /\ UNCHANGED ck
    /\ UNCHANGED <<source, ld, loads, close_app, config, mg, wave, run, input, exited>>

\* The file is read into temporaries.  The loader, too, ends on close_app and
\* on a file it cannot use.
ReadConfig ==
    /\ Up /\ ld.at = "idle"
    /\ \/ /\ close_app \/ version_changed
          /\ ld' = [ld EXCEPT !.at = "gone"]
       \/ /\ ~close_app /\ version_changed
          /\ ld' = [at |-> "read", read |-> file]
    /\ UNCHANGED <<source, ck, seen, version_changed, loads, close_app, config, mg,
                   wave, run, input, exited>>

\* The new general configuration has close_app = 0.
SwapConfig ==
    /\ Up /\ ld.at = "read"
    /\ close_app' = FALSE
    /\ prev' = psv /\ psv' = Marked(psv, ld.read)
    /\ psv_changed' = (psv_changed \/ AnyChange(psv, ld.read))
    /\ version_changed' = FALSE /\ loads' = loads + 1
    /\ ld' = [at |-> "idle", read |-> FirstFile]
    /\ UNCHANGED <<source, ck, seen, mg, wave, run, input, exited>>

(***************************************************************************)
(* The threads of a wave.                                                  *)
(***************************************************************************)
Live(o) == wave[o].st = "live"
Slots(o) == DOMAIN wave[o].trds
Masked(o) == {i \in Slots(o) : wave[o].trds[i].mask}
Matching(id) == {o \in Waves : Live(o) /\ wave[o].id = id}
SlotOf(r) == {i \in Masked(run[r].o) : wave[run[r].o].trds[i].rec = r}

Goto(r, at) == run' = [run EXCEPT ![r].at = at]
Over(r, at) == [NoRunner EXCEPT !.at = at, !.o = run[r].o]
RunnerFrame == UNCHANGED <<source, loader, config, mg, input>>

\* A thread whose wave or record was freed does not get past a step that
\* reads it.
Astray(r) ==
    /\ Up /\ run[r].o # Null
    /\ \/ /\ wave[run[r].o].st = "freed"
          /\ run[r].at \in {"born", "read", "leaving", "unmask", "drop"}
       \/ run[r].freed /\ run[r].at \in {"read", "loop"}
    /\ run' = [run EXCEPT ![r] = Over(r, "wild")]
    /\ RunnerFrame /\ UNCHANGED <<wave, exited>>

\* A masked slot without a record on the way to its own: null pointer.
NullBefore(r) ==
    \E i \in Masked(run[r].o) :
        /\ wave[run[r].o].trds[i].rec = Null
        /\ \A k \in SlotOf(r) : i < k

\* The thread takes its quota and looks until it finds its own thread id in a
\* masked slot; the socket number it takes there ends the search only if it
\* is one.  Then it takes back a change that was signalled before.
FindOwnRecord(r) ==
    /\ Up /\ run[r].at = "born" /\ Live(run[r].o)
    /\ \/ NullBefore(r) /\ Crash /\ UNCHANGED run
       \/ /\ ~NullBefore(r) /\ SlotOf(r) # {} /\ wave[run[r].o].sock
          /\ run' = [run EXCEPT ![r].at = "read", ![r].base = FALSE,
                                ![r].quota = wave[run[r].o].c.quota]
          /\ UNCHANGED exited
    /\ RunnerFrame /\ UNCHANGED wave

\* The head of the outer loop: stop, or build the packet from the wave's
\* configuration.
ReadWave(r) ==
    /\ Up /\ run[r].at = "read" /\ Live(run[r].o) /\ ~run[r].freed
    /\ run' = IF run[r].close
              THEN [run EXCEPT ![r].at = "leaving"]
              ELSE [run EXCEPT ![r].at = "loop", ![r].tune = wave[run[r].o].c.tune]
    /\ RunnerFrame /\ UNCHANGED <<wave, exited>>


\* One turn of the inner loop that changes something: close, reread the
\* configuration, or use up one packet of a limited quota.
Close(r) ==
    /\ run[r].close /\ Goto(r, "leaving")

Reread(r) ==
    /\ ~run[r].close /\ run[r].base
    /\ run' = [run EXCEPT ![r].at = "read", ![r].base = FALSE]

Send(r) ==
    /\ ~run[r].close /\ ~run[r].base /\ run[r].quota > 0
    /\ run' = [run EXCEPT ![r].quota = @ - 1,
                          ![r].at = IF run[r].quota = 1 THEN "leaving" ELSE "loop"]

LoopTurn(r) ==
    /\ Up /\ run[r].at = "loop" /\ ~run[r].freed
    /\ Close(r) \/ Reread(r) \/ Send(r)
    /\ RunnerFrame /\ UNCHANGED <<wave, exited>>

\* Leaving: the own mask first, then the record that is in that slot, then
\* the arrays if no slot is masked.
ClearMask(r) ==
    LET o == run[r].o IN
    /\ Up /\ run[r].at = "leaving" /\ Live(o)
    /\ \/ NullBefore(r) /\ Crash /\ UNCHANGED <<wave, run>>
       \/ /\ ~NullBefore(r) /\ SlotOf(r) = {}
          /\ run' = [run EXCEPT ![r] = Over(r, IF Masked(o) = {} THEN "drop" ELSE "gone")]
          /\ UNCHANGED <<wave, exited>>
       \/ /\ ~NullBefore(r)
          /\ \E i \in SlotOf(r) :
                /\ wave' = [wave EXCEPT ![o].trds[i].mask = FALSE]
                /\ run' = [run EXCEPT ![r].at = "unmask", ![r].slot = i]
          /\ UNCHANGED exited
    /\ RunnerFrame

FreeRecord(r) ==
    LET o == run[r].o
        i == run[r].slot IN
    /\ Up /\ run[r].at = "unmask" /\ Live(o)
    /\ IF i \notin Slots(o)
       THEN Crash /\ UNCHANGED <<wave, run>>
       ELSE /\ wave' = [wave EXCEPT ![o].trds[i].rec = Null]
            /\ run' = [q \in Runners |->
                          IF q = r THEN Over(r, IF Masked(o) = {} THEN "drop" ELSE "gone")
                          ELSE [run[q] EXCEPT !.freed = @ \/ q = wave[o].trds[i].rec]]
            /\ UNCHANGED exited
    /\ RunnerFrame

DropArrays(r) ==
    /\ Up /\ run[r].at = "drop" /\ Live(run[r].o)
    /\ wave' = [wave EXCEPT ![run[r].o].trds = << >>]
    /\ Goto(r, "gone")
    /\ RunnerFrame /\ UNCHANGED exited

(***************************************************************************)
(* apply_new_wave_config on wave mg.o with the settings mg.c, which are    *)
(* entry mg.j of the array that was current at load mg.gen.                *)
(***************************************************************************)
ManagerFrame == UNCHANGED <<source, loader, input>>

\* The loop over the masked slots closes the first slot's record each time.
CloseFirst(o, rs) == IF Masked(o) = {} THEN rs
                     ELSE [rs EXCEPT ![wave[o].trds[1].rec].close = TRUE]
NoFirst(o) == Masked(o) # {} /\ wave[o].trds[1].rec = Null

Grown(trds, par) ==
    trds \o [k \in 1..(IF par > Len(trds) THEN par - Len(trds) ELSE 0) |->
                [mask |-> FALSE, rec |-> Null]]

\* A wave that is switched off.
ApplyOff(o) ==
    /\ ~mg.c.on
    /\ IF NoFirst(o)
       THEN Crash /\ UNCHANGED <<mg, run>>
       ELSE /\ run' = CloseFirst(o, run)
            /\ mg' = [mg EXCEPT !.todo = @ \ {o}]
            /\ UNCHANGED exited
    /\ UNCHANGED <<wave, psv>>

\* Mutant: only as many slots are counted as the new settings want.
ValidCountOfWanted(o) == Cardinality(Masked(o) \cap 1..mg.c.par)

\* The masked slots, those of threads on their way out included.
ValidCount(o) == Cardinality(Masked(o))

\* Grow the arrays, open the socket for the first threads, count.
ApplyOn(o) ==
    LET first == mg.c.par > 0 /\ wave[o].trds = << >>
        trds  == Grown(wave[o].trds, mg.c.par)
        valid == ValidCount(o) IN
    /\ mg.c.on
    /\ \/ /\ first      \* socket() fails
          /\ wave' = [wave EXCEPT ![o].trds = trds, ![o].sock = FALSE]
          /\ mg' = [mg EXCEPT !.todo = @ \ {o}]
       \/ /\ wave' = [wave EXCEPT ![o].trds = trds, ![o].sock = @ \/ first]
          /\ mg' = [mg EXCEPT !.o = o, !.todo = @ \ {o},
                              !.at = IF valid < mg.c.par THEN "start"
                                     ELSE IF valid > mg.c.par THEN "retire" ELSE "copy",
                              !.n = IF valid < mg.c.par THEN mg.c.par - valid
                                    ELSE valid - mg.c.par]
    /\ UNCHANGED <<run, psv, exited>>

Apply ==
    /\ Up /\ mg.at = "apply"
    /\ \/ mg.todo = {} /\ mg' = [mg EXCEPT !.at = mg.ret] /\ UNCHANGED <<wave, run, psv, exited>>
       \/ \E o \in mg.todo : Live(o) /\ (ApplyOff(o) \/ ApplyOn(o))
       \/ \E o \in mg.todo : ~Live(o) /\ mg' = [mg EXCEPT !.at = "wild"]
                             /\ UNCHANGED <<wave, run, psv, exited>>
    /\ ManagerFrame /\ UNCHANGED <<prev, psv_changed>>

\* What the manager does to the wave it applies to; a wave that "rst" removed
\* meanwhile leads it astray.
OnWave(A) ==
    /\ Up
    /\ IF Live(mg.o) THEN A
       ELSE mg' = [mg EXCEPT !.at = "wild"] /\ UNCHANGED <<wave, run, psv, exited>>
    /\ ManagerFrame /\ UNCHANGED <<prev, psv_changed>>

\* The first free slot is masked, then the record left in it is freed.
MaskSlot ==
    /\ mg.at = "start"
    /\ OnWave(\E i \in Slots(mg.o) \ Masked(mg.o) :
        /\ 1..i-1 \subseteq Masked(mg.o)
        /\ wave' = [wave EXCEPT ![mg.o].trds[i] = [mask |-> TRUE, rec |-> Null]]
        /\ run' = [q \in Runners |-> [run[q] EXCEPT !.freed = @ \/ q = wave[mg.o].trds[i].rec]]
        /\ mg' = [mg EXCEPT !.at = "create", !.s = i]
        /\ UNCHANGED <<psv, exited>>)

\* The new record and its thread; the arrays may be gone under the manager.
CreateRunner(r) ==
    /\ mg.at = "create" /\ run[r].at = "none" /\ \A q \in 1..r-1 : run[q].at # "none"
    /\ OnWave(
        IF mg.s \notin Slots(mg.o) THEN Crash /\ UNCHANGED <<mg, wave, run, psv>>
        ELSE /\ wave' = [wave EXCEPT ![mg.o].trds[mg.s].rec = r]
             /\ run' = [run EXCEPT ![r].at = "born", ![r].o = mg.o]
             /\ mg' = [mg EXCEPT !.n = @ - 1, !.at = IF mg.n = 1 THEN "copy" ELSE "start"]
             /\ UNCHANGED <<psv, exited>>)

Unclosed(i) == wave[mg.o].trds[i].rec # Null /\ ~run[wave[mg.o].trds[i].rec].close

\* From the last slot down, one that was not told to close yet.  With none
\* left the loop turns for ever; a masked slot without a record is followed.
RetireOne ==
    /\ mg.at = "retire"
    /\ OnWave(\E i \in Masked(mg.o) :
        LET r == wave[mg.o].trds[i].rec IN
        /\ \A k \in Masked(mg.o) : k > i => wave[mg.o].trds[k].rec # Null /\ ~Unclosed(k)
        /\ \/ r = Null /\ Crash /\ UNCHANGED <<mg, wave, run, psv>>
           \/ /\ Unclosed(i)
              /\ run' = [run EXCEPT ![r].close = TRUE]
              /\ mg' = [mg EXCEPT !.n = @ - 1, !.at = IF mg.n = 1 THEN "copy" ELSE "retire"]
              /\ UNCHANGED <<wave, psv, exited>>)

CopySettings ==
    /\ mg.at = "copy"
    /\ OnWave(/\ wave' = [wave EXCEPT ![mg.o].c = mg.c]
              /\ psv' = IF mg.gen = loads THEN [psv EXCEPT ![mg.j].chg = FALSE] ELSE psv
              /\ mg' = [mg EXCEPT !.at = "flag"]
              /\ UNCHANGED <<run, exited>>)

\* Mutant: the loop over the slots stops one short.
OwnersButLast(o) == {wave[o].trds[i].rec : i \in Masked(o) \ {Len(wave[o].trds)}}

Owners(o) == {wave[o].trds[i].rec : i \in Masked(o)}

\* Every running thread is told to read the settings again.
FlagRunners ==
    /\ mg.at = "flag"
    /\ OnWave(IF Null \in Owners(mg.o) THEN Crash /\ UNCHANGED <<mg, wave, run, psv>>
              ELSE /\ run' = [q \in Runners |->
                                [run[q] EXCEPT !.base = @ \/ q \in Owners(mg.o)]]
                   /\ mg' = [mg EXCEPT !.at = "apply"]
                   /\ UNCHANGED <<wave, psv, exited>>)

(***************************************************************************)
(* waves_manager.                                                          *)
(***************************************************************************)
ManagerStarts ==
    /\ Up /\ mg.at = "wait" /\ (psv # << >> \/ close_app)
    /\ mg' = [mg EXCEPT !.at = "top"]
    /\ ManagerFrame /\ UNCHANGED <<config, wave, run, exited>>

\* On close_app every wave is switched off and the manager ends; main joins
\* it and the process is over.
ManagerCloses ==
    /\ Up /\ mg.at = "top" /\ close_app
    /\ mg' = [mg EXCEPT !.at = "done"]
    /\ exited' = IF \E o \in Waves : Live(o) /\ wave[o].id \in Ids(psv) /\ NoFirst(o)
                 THEN "crash" ELSE "quit"
    /\ ManagerFrame /\ UNCHANGED <<config, wave, run>>

PassStarts ==
    /\ Up /\ mg.at = "top" /\ ~close_app /\ psv_changed
    /\ mg' = [mg EXCEPT !.at = "old", !.i = 1]
    /\ ManagerFrame /\ UNCHANGED <<config, wave, run, exited>>

\* remove_wave: the wave is stopped (its first thread is told to close), its
\* holder emptied, the object freed.
remove_wave(os) ==
    IF \E o \in os : NoFirst(o)
    THEN Crash /\ UNCHANGED <<wave, run>>
    ELSE /\ wave' = [o \in Waves |-> IF o \in os THEN [wave[o] EXCEPT !.st = "freed"] ELSE wave[o]]
         /\ run' = [r \in Runners |->
                       IF \E o \in os : Masked(o) # {} /\ wave[o].trds[1].rec = r
                       THEN [run[r] EXCEPT !.close = TRUE] ELSE run[r]]
         /\ UNCHANGED exited

StartApply(id, j, ret, w) ==
    mg' = [mg EXCEPT !.at = "apply", !.ret = ret, !.i = @ + 1, !.j = j, !.gen = loads,
                     !.c = psv[j].c,
                     !.todo = {o \in Waves : w[o].st = "live" /\ w[o].id = id}]

Changed(id) == {j \in DOMAIN psv : psv[j].id = id /\ psv[j].chg}

\* One entry of the previous list: a wave that is listed and changed gets its
\* new settings, any other is removed.
OldEntry ==
    /\ Up /\ mg.at = "old" /\ mg.i <= Len(prev)
    /\ LET id == prev[mg.i].id IN
        \/ /\ \E j \in Changed(id) : /\ \A k \in Changed(id) : j <= k
                                     /\ StartApply(id, j, "old", wave)
           /\ UNCHANGED <<wave, run, exited>>
        \/ /\ Changed(id) = {}
           /\ remove_wave(Matching(id))
           /\ mg' = [mg EXCEPT !.i = @ + 1]
    /\ ManagerFrame /\ UNCHANGED config

OldDone ==
    /\ Up /\ mg.at = "old" /\ mg.i > Len(prev)
    /\ mg' = [mg EXCEPT !.at = "new", !.i = 1]
    /\ ManagerFrame /\ UNCHANGED <<config, wave, run, exited>>

\* One entry of the current list: add_new_wave if the previous list has not
\* got it.
NewEntry ==
    /\ Up /\ mg.at = "new" /\ mg.i <= Len(psv)
    /\ LET e == psv[mg.i] IN
        \/ /\ e.id \in Ids(prev)
           /\ mg' = [mg EXCEPT !.i = @ + 1] /\ UNCHANGED wave
        \/ /\ e.id \notin Ids(prev)
           /\ \E o \in Waves :
                /\ wave[o].st = "none" /\ \A k \in 1..o-1 : wave[k].st # "none"
                /\ wave' = [wave EXCEPT ![o] = [NoWave EXCEPT !.st = "live", !.id = e.id, !.c = e.c]]
                /\ StartApply(e.id, mg.i, "new", wave')
    /\ ManagerFrame /\ UNCHANGED <<config, run, exited>>

PassDone ==
    /\ Up /\ mg.at = "new" /\ mg.i > Len(psv)
    /\ psv_changed' = FALSE
    /\ mg' = Manager
    /\ ManagerFrame /\ UNCHANGED <<psv, prev, wave, run, exited>>

(***************************************************************************)
(* input_thread.                                                           *)
(***************************************************************************)
Quit ==
    /\ Up /\ inp = "ready" /\ cmds < MaxCmds /\ loads > 0
    /\ close_app' = TRUE /\ inp' = "gone" /\ cmds' = cmds + 1
    /\ UNCHANGED <<source, ck, seen, version_changed, ld, loads, config, mg, wave, run, exited>>

\* Refused while a thread of a wave is masked.  Every wave of the current
\* list is removed and the manager is made to look at the lists again.
Rst ==
    /\ Up /\ inp = "ready" /\ cmds < MaxCmds
    /\ \A o \in Waves : Live(o) => Masked(o) = {}
    /\ remove_wave({o \in Waves : Live(o) /\ wave[o].id \in Ids(psv)})
    /\ psv_changed' = TRUE /\ cmds' = cmds + 1
    /\ UNCHANGED <<source, loader, psv, prev, mg, inp>>

Runner(r) ==
    \/ FindOwnRecord(r) \/ ReadWave(r) \/ LoopTurn(r)
    \/ ClearMask(r) \/ FreeRecord(r) \/ DropArrays(r) \/ Astray(r)

Next ==
    \/ \E f \in Files : Edit(f)
    \/ version_checker \/ ReadConfig \/ SwapConfig
    \/ ManagerStarts \/ ManagerCloses \/ PassStarts \/ OldEntry \/ OldDone
    \/ NewEntry \/ PassDone
    \/ Apply \/ MaskSlot \/ RetireOne \/ CopySettings \/ FlagRunners
    \/ \E r \in Runners : CreateRunner(r) \/ Runner(r)
    \/ Quit \/ Rst

\* The runners are threads of their own in loops without a lock.
Spec == Init /\ [][Next]_vars /\ \A r \in Runners : WF_vars(Runner(r))

(***************************************************************************)
(* Properties.                                                             *)
(***************************************************************************)

\* Between two applications a wave never has more threads that were not told
\* to close than the parallelism_count it was given, whichever threads leave
\* while the manager counts, starts and retires (apply_new_wave_config).
AtMostPar ==
    \A o \in Waves :
        Live(o) /\ ~(mg.o = o /\ mg.at \in {"start", "create", "retire", "copy"}) =>
            Cardinality({i \in Masked(o) : /\ wave[o].trds[i].rec # Null
                                           /\ ~run[wave[o].trds[i].rec].close}) <= wave[o].c.par

\* A thread that sends does so with the settings of its wave, or it has been
\* told to read them again: the manager copies before it flags, the thread
\* takes the flag back before it reads (base_config_change_applied).
SettingsReach ==
    \A r \in Runners :
        LET o == run[r].o IN
        /\ run[r].at = "loop" /\ ~run[r].close /\ ~run[r].freed
        /\ Live(o) /\ SlotOf(r) # {}
        => \/ run[r].tune = wave[o].c.tune \/ run[r].base
           \/ mg.o = o /\ mg.at = "flag"

=============================================================================

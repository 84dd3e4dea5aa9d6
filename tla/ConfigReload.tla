---------------------------- MODULE ConfigReload ----------------------------
(***************************************************************************)
(* Reloading the configuration (config.c, BridgeConfig.c, Bridge.c).       *)
(*                                                                         *)
(* version_checker polls config_ver.txt and raises version_changed;        *)
(* config_loader then reads the configuration file, keeps the previous one *)
(* and flags the differences; config_executer brings the active bridges in *)
(* line. cfg_mtx is held while a file is loaded and while differences are  *)
(* executed; version_changed is written without it.                        *)
(*                                                                         *)
(* A configuration maps the bridges it lists to their settings. Bridges    *)
(* are numbered in the order of the file, which is the order of all loops. *)
(* The settings of a bridge are opaque but for sol_maintained.enable and   *)
(* the destination of its output, of which each bridge has one. All        *)
(* bridges have a thread_handler_act that starts threads.                  *)
(***************************************************************************)
EXTENDS Integers

CONSTANTS
    B,              \* number of bridges that a configuration may list
    Settings,       \* records with the fields enable and core, at least
    MaxVersion,     \* bound: versions that are released
    Paced,          \* a version is released once the previous one is applied
    MayBreak        \* a file may be unreadable or malformed

ASSUME ReloadAssumption ==
    /\ B \in Nat \ {0}
    /\ \A s \in Settings : s.enable \in BOOLEAN
    /\ MaxVersion \in Nat \ {0}
    /\ Paced \in BOOLEAN
    /\ MayBreak \in BOOLEAN

Bridges == 1..B

\* brg_cfg_t[], indexed by the id of the bridge.
Configs == UNION {[S -> Settings] : S \in SUBSET Bridges}
NoConfig == [b \in {} |-> {}]

VARIABLES
    file, fver,             \* the configuration file, and the version file
    ver, version_changed,
    checking,               \* version_checker has not ended by an error
    lpc, read_cfg,          \* config_loader, and what it has read
    old_bdj_psv_cfg, bdj_psv_cfg,
    loaded,                 \* bdj_psv_cfg is not NULL
    pcfg_changed,           \* the bridges of bdj_psv_cfg with that flag
    psv_cfg_changed,
    epc, icfg,              \* config_executer, and its loop variable
    ABs,                    \* the active bridges
    born,                   \* how many active bridges there have been
    threads,                \* the active bridges whose threads were created
    quit                    \* Ctrl+C

release  == <<file, fver>>
version  == <<ver, version_changed, checking>>
loader   == <<lpc, read_cfg>>
config   == <<old_bdj_psv_cfg, bdj_psv_cfg, loaded, pcfg_changed>>
executer == <<epc, icfg>>
bridges  == <<ABs, born, threads>>
vars == <<release, version, loader, config, psv_cfg_changed, executer, bridges, quit>>

\* An active bridge: its place in the array, its id, its copy of the settings
\* (cpy_cfg), and the bridge whose connection its output uses. this is 0 until
\* init_ActiveBridge has run, and the bridge itself in the main_instance.
AB == [n : Nat, id : Bridges, cfg : Settings, this : Nat]

TypeOK ==
    /\ file \in Configs
    /\ fver \in 1..MaxVersion
    /\ ver \in 0..MaxVersion
    /\ version_changed \in BOOLEAN
    /\ checking \in BOOLEAN
    /\ lpc \in {"idle", "read", "publish", "dead"}
    /\ read_cfg \in Configs
    /\ old_bdj_psv_cfg \in Configs
    /\ bdj_psv_cfg \in Configs
    /\ loaded \in BOOLEAN
    /\ pcfg_changed \subseteq Bridges
    /\ psv_cfg_changed \in BOOLEAN
    /\ epc \in {"wait", "loop", "old", "new"}
    /\ icfg \in 1..(B + 1)
    /\ ABs \subseteq AB
    /\ born \in Nat
    /\ \A a \in ABs : a.n \in 1..born /\ a.this \in 0..born
    /\ threads \subseteq 1..born
    /\ quit \in BOOLEAN

Init ==
    /\ file \in Configs
    /\ fver = 1
    /\ ver = 0
    /\ version_changed = FALSE
    /\ checking = TRUE
    /\ lpc = "idle"
    /\ read_cfg = NoConfig
    /\ old_bdj_psv_cfg = NoConfig
    /\ bdj_psv_cfg = NoConfig
    /\ loaded = FALSE
    /\ pcfg_changed = {}
    /\ psv_cfg_changed = FALSE
    /\ epc = "wait"
    /\ icfg = 1
    /\ ABs = {}
    /\ born = 0
    /\ threads = {}
    /\ quit = FALSE

-----------------------------------------------------------------------------
(* Releasing and noticing a version.                                       *)

\* Nothing of the last version is left to be noticed, loaded or executed.
\* config_executer waits for a configuration that lists a bridge.
Settled ==
    /\ ver = fver
    /\ ~version_changed
    /\ lpc = "idle"
    /\ \/ epc = "loop" /\ ~psv_cfg_changed
       \/ epc = "wait" /\ DOMAIN bdj_psv_cfg = {}

\* Somebody writes a new configuration file, then its version.
Release ==
    /\ fver < MaxVersion
    /\ Paced => Settled
    /\ fver' = fver + 1
    /\ file' \in Configs
    /\ UNCHANGED <<version, loader, config, psv_cfg_changed, executer, bridges, quit>>


\* version_checker, outside of cfg_mtx.
version_checker ==
    /\ checking
    /\ ~quit
    /\ ver # fver
    /\ ver' = fver
    /\ version_changed' = TRUE
    /\ UNCHANGED <<release, checking, loader, config, psv_cfg_changed, executer, bridges, quit>>

\* A version file that cannot be read or parsed ends the thread.
CheckFail ==
    /\ checking
    /\ ~quit
    /\ MayBreak
    /\ checking' = FALSE
    /\ UNCHANGED <<release, ver, version_changed, loader, config, psv_cfg_changed,
                   executer, bridges, quit>>

-----------------------------------------------------------------------------
(* config_loader.                                                          *)

\* The lock is free for the loader, respectively for the executer.
LoaderUnlocked == lpc \notin {"read", "publish"}
ExecuterUnlocked == epc \notin {"old", "new"}

LoadLock ==
    /\ lpc = "idle"
    /\ ~quit
    /\ version_changed
    /\ ExecuterUnlocked
    /\ lpc' = "read"
    /\ UNCHANGED <<release, version, read_cfg, config, psv_cfg_changed,
                   executer, bridges, quit>>

\* The file is read, parsed, and its bridges copied.
LoadRead ==
    /\ lpc = "read"
    /\ read_cfg' = file
    /\ lpc' = "publish"
    /\ UNCHANGED <<release, version, config, psv_cfg_changed, executer, bridges, quit>>

\* An error leaves the loop and ends the thread, after unlocking.
LoadFail ==
    /\ lpc = "read"
    /\ MayBreak
    /\ lpc' = "dead"
    /\ UNCHANGED <<release, version, read_cfg, config, psv_cfg_changed,
                   executer, bridges, quit>>

\* Bridges that old and new both list, with different settings.
Differing(old, new) == {b \in DOMAIN old \cap DOMAIN new : old[b] # new[b]}

\* The bridges before the first one of S.
Before(S) == {b \in Bridges : \A c \in S : b < c}

\* The bridges of new that are flagged. The walk over the old bridges ends at
\* the first removed one, the walk over the new ones at the first added one.
Flagged(old, new) ==
    LET removed == DOMAIN old \ DOMAIN new
        added   == DOMAIN new \ DOMAIN old
    IN  (Differing(old, new) \cap (Before(removed) \cup Before(added)))
        \cup {b \in added : \A c \in added : b <= c}

\* The configuration becomes the current one; the current one, if there is
\* one, the old one. All bridges of the first configuration are flagged.
LoadPublish ==
    /\ lpc = "publish"
    /\ lpc' = "idle"
    /\ bdj_psv_cfg' = read_cfg
    /\ old_bdj_psv_cfg' = bdj_psv_cfg
    /\ loaded' = TRUE
    /\ IF loaded
       THEN /\ pcfg_changed' = Flagged(bdj_psv_cfg, read_cfg)
            /\ psv_cfg_changed' = \/ psv_cfg_changed
                                  \/ Flagged(bdj_psv_cfg, read_cfg) # {}
                                  \/ DOMAIN bdj_psv_cfg \ DOMAIN read_cfg # {}
       ELSE /\ pcfg_changed' = DOMAIN read_cfg
            /\ psv_cfg_changed' = TRUE
    /\ version_changed' = FALSE
    /\ UNCHANGED <<release, ver, checking, read_cfg, executer, bridges, quit>>

-----------------------------------------------------------------------------
(* What is done to an active bridge.                                       *)

\* Mutant: a bridge that has no connections yet is shared with.
ThisOf_Unstarted(a, bs) ==
    LET same == {b \in bs : b.n # a.n /\ b.cfg.core = a.cfg.core}
        First(b) == \A c \in same : b.n <= c.n
    IN  IF \E b \in same : First(b) THEN (CHOOSE b \in same : First(b)).n ELSE a.n

\* init_ActiveBridge on bridge a, when those with its id are configured: its
\* output becomes an alias of the first bridge with an output to the same
\* destination, if there is one, or else the main_instance.
ThisOf(a, bs) ==
    LET same == {b \in bs : /\ b.n # a.n
                            /\ b.cfg.core = a.cfg.core
                            /\ b.this # 0 \/ (b.id = a.id /\ b.n < a.n)}
        First(b) == \A c \in same : b.n <= c.n
    IN  IF \E b \in same : First(b) THEN (CHOOSE b \in same : First(b)).n ELSE a.n

\* apply_new_protocol_bridge_config on the bridges with id i: those that are
\* not active yet are started, with the settings they were created with.
Started(i, s, bs) ==
    {IF s.enable /\ a.id = i /\ a.this = 0
     THEN [a EXCEPT !.this = ThisOf(a, bs)] ELSE a : a \in bs}

apply_new_protocol_bridge_config(i, s, bs) ==
    /\ ABs' = Started(i, s, bs)
    /\ threads' = threads \cup {a.n : a \in {b \in bs : s.enable /\ b.id = i}}
    /\ pcfg_changed' = IF s.enable /\ \E a \in bs : a.id = i
                       THEN pcfg_changed \ {i} ELSE pcfg_changed

\* stop_protocol_bridge clears enable, and applying a configuration that is
\* not enabled does nothing: no thread is stopped. The bridge is deleted.
remove_protocol_bridge(i) ==
    /\ ABs' = {a \in ABs : a.id # i}
    /\ UNCHANGED <<pcfg_changed, threads>>

\* Mutant: the bridge is added but not configured.
add_new_protocol_bridge_NotApplied(i, s) ==
    /\ born' = born + 1
    /\ ABs' = ABs \cup {[n |-> born + 1, id |-> i, cfg |-> s, this |-> 0]}
    /\ UNCHANGED <<pcfg_changed, threads>>

add_new_protocol_bridge(i, s) ==
    /\ born' = born + 1
    /\ apply_new_protocol_bridge_config(i, s,
            ABs \cup {[n |-> born + 1, id |-> i, cfg |-> s, this |-> 0]})

-----------------------------------------------------------------------------
(* config_executer.                                                        *)

ExecStart ==
    /\ epc = "wait"
    /\ DOMAIN bdj_psv_cfg # {}
    /\ epc' = "loop"
    /\ UNCHANGED <<release, version, loader, config, psv_cfg_changed, icfg, bridges, quit>>

ExecLock ==
    /\ epc = "loop"
    /\ ~quit
    /\ psv_cfg_changed
    /\ LoaderUnlocked
    /\ epc' = "old"
    /\ icfg' = 1
    /\ UNCHANGED <<release, version, loader, config, psv_cfg_changed, bridges, quit>>

\* Mutant: the loop takes one turn too many.
Turn_OneMore(loop) ==
    /\ epc = loop
    /\ icfg <= B + 1
    /\ icfg' = icfg + 1
    /\ UNCHANGED <<release, version, loader, old_bdj_psv_cfg, bdj_psv_cfg, loaded,
                   psv_cfg_changed, epc, quit>>

\* One turn of a loop over the bridges of a configuration.
Turn(loop) ==
    /\ epc = loop
    /\ icfg <= B
    /\ icfg' = icfg + 1
    /\ UNCHANGED <<release, version, loader, old_bdj_psv_cfg, bdj_psv_cfg, loaded,
                   psv_cfg_changed, epc, quit>>

\* The bridge exists in the new configuration, and is flagged.
Exists(b) == b \in DOMAIN bdj_psv_cfg /\ b \in pcfg_changed

ExecChanged ==
    /\ Turn("old")
    /\ icfg \in DOMAIN old_bdj_psv_cfg
    /\ Exists(icfg)
    /\ apply_new_protocol_bridge_config(icfg, bdj_psv_cfg[icfg], ABs)
    /\ UNCHANGED born

\* Mutant: a removed bridge is stopped and stays in the array.
ExecRemove_Kept ==
    /\ Turn("old")
    /\ icfg \in DOMAIN old_bdj_psv_cfg
    /\ ~Exists(icfg)
    /\ UNCHANGED <<bridges, pcfg_changed>>

ExecRemove ==
    /\ Turn("old")
    /\ icfg \in DOMAIN old_bdj_psv_cfg
    /\ ~Exists(icfg)
    /\ remove_protocol_bridge(icfg)
    /\ UNCHANGED born

\* Mutant: every bridge that is listed is added.
IsNew_Listed(b) == b \in DOMAIN bdj_psv_cfg

\* The bridge is in the new configuration only.
IsNew(b) == b \in DOMAIN bdj_psv_cfg /\ b \notin DOMAIN old_bdj_psv_cfg

ExecAdd ==
    /\ Turn("new")
    /\ IsNew(icfg)
    /\ add_new_protocol_bridge(icfg, bdj_psv_cfg[icfg])

ExecSkip ==
    /\ \/ Turn("old") /\ icfg \notin DOMAIN old_bdj_psv_cfg
       \/ Turn("new") /\ ~IsNew(icfg)
    /\ UNCHANGED <<bridges, pcfg_changed>>

\* From the loop over the old configuration to the one over the new.
ExecNext ==
    /\ epc = "old"
    /\ icfg = B + 1
    /\ epc' = "new"
    /\ icfg' = 1
    /\ UNCHANGED <<release, version, loader, config, psv_cfg_changed, bridges, quit>>

ExecDone ==
    /\ epc = "new"
    /\ icfg = B + 1
    /\ psv_cfg_changed' = FALSE
    /\ epc' = "loop"
    /\ UNCHANGED <<release, version, loader, config, icfg, bridges, quit>>

SigInt ==
    /\ ~quit
    /\ quit' = TRUE
    /\ UNCHANGED <<release, version, loader, config, psv_cfg_changed, executer, bridges>>

-----------------------------------------------------------------------------
Loader   == LoadLock \/ LoadRead \/ LoadFail \/ LoadPublish
Executer == ExecStart \/ ExecLock \/ ExecChanged \/ ExecRemove \/ ExecAdd
            \/ ExecSkip \/ ExecNext \/ ExecDone

Next == Release \/ version_checker \/ CheckFail \/ Loader \/ Executer \/ SigInt

\* The three threads go on; releases and Ctrl+C are free.
Spec == /\ Init
        /\ [][Next]_vars
        /\ WF_vars(version_checker)
        /\ WF_vars(Loader)
        /\ WF_vars(Executer)

-----------------------------------------------------------------------------
(* Properties.                                                             *)

\* No bridge is active twice: two active bridges would receive on the same
\* ports. config_executer adds a bridge by comparing two configurations,
\* without a look at the active bridges.
OneBridgePerId ==
    \A a, b \in ABs : a.id = b.id => a = b

\* Once the differences have been executed, no bridge is active that the
\* configuration does not list (remove_protocol_bridge has found them all).
ListedOnly ==
    Settled => \A a \in ABs : a.id \in DOMAIN bdj_psv_cfg

\* Once the differences have been executed, every bridge that the
\* configuration lists is there.
ListedIsThere ==
    Settled /\ epc = "loop" => \A b \in DOMAIN bdj_psv_cfg : \E a \in ABs : a.id = b

\* Bridges with the same destination share one connection, and the connection
\* thread connects main instances only: unless a bridge whose connection is
\* shared was removed, every bridge has one with its destination to rely on.
SharedHasMain ==
    (\A a \in ABs : a.this = 0 \/ \E b \in ABs : b.n = a.this)
        => \A a \in ABs : a.this # 0 =>
               \E b \in ABs : b.this = b.n /\ b.cfg.core = a.cfg.core


\* A bridge that the configuration adds, enabled, is started in the end.
AddedStarts ==
    \A b \in Bridges :
        psv_cfg_changed /\ IsNew(b) /\ bdj_psv_cfg[b].enable
            ~> (\E a \in ABs : a.id = b /\ a.this # 0) \/ quit
=============================================================================

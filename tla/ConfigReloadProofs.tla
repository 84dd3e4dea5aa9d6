------------------------- MODULE ConfigReloadProofs -------------------------
(***************************************************************************)
(* Proofs about ConfigReload: the type invariant, that config_executer     *)
(* keeps the active bridges in line with the configuration when a version  *)
(* is released only once the previous one has been applied, and that       *)
(* shared connections have a main instance. Then, about BridgeConfig, that *)
(* no change of the settings of a bridge escapes the comparison.           *)
(***************************************************************************)
EXTENDS ConfigReload, BridgeConfig, Functions, FiniteSetTheorems, TLAPS

\* A version is on its way to bdj_psv_cfg.
Underway == ver # fver \/ version_changed \/ lpc \in {"read", "publish"}

\* There is one version on its way at a time, and nothing left to execute.
OneAtATime ==
    /\ version_changed \/ lpc # "idle" => ver = fver
    /\ Underway => \/ epc = "loop" /\ ~psv_cfg_changed
                   \/ epc = "wait" /\ DOMAIN bdj_psv_cfg = {}

\* The configuration the active bridges are listed in, during a pass.
InLine ==
    /\ epc = "wait" => ABs = {}
    /\ epc = "loop" /\ ~psv_cfg_changed => \A a \in ABs : a.id \in DOMAIN bdj_psv_cfg
    /\ epc = "loop" /\ psv_cfg_changed => \A a \in ABs : a.id \in DOMAIN old_bdj_psv_cfg
    /\ epc = "old" => \A a \in ABs : /\ a.id \in DOMAIN old_bdj_psv_cfg
                                     /\ a.id < icfg => a.id \in DOMAIN bdj_psv_cfg
    /\ epc = "new" => \A a \in ABs : /\ a.id \in DOMAIN bdj_psv_cfg
                                     /\ a.id \notin DOMAIN old_bdj_psv_cfg => a.id < icfg

IInv ==
    /\ TypeOK
    /\ Paced => OneAtATime /\ InLine /\ OneBridgePerId

-----------------------------------------------------------------------------
(* The operators.                                                          *)

\* A configuration lists bridges and gives them settings.
LEMMA ConfigFacts ==
    ASSUME NEW c \in Configs
    PROVE  /\ DOMAIN c \subseteq Bridges
           /\ \A b \in DOMAIN c : c[b] \in Settings
  BY DEF Configs

\* The empty configuration.
LEMMA NoConfigFacts == NoConfig \in Configs /\ DOMAIN NoConfig = {}
  BY DEF NoConfig, Configs

\* The bridge whose connection is shared is one of the bridges.
LEMMA ThisFacts ==
    ASSUME NEW bs, NEW a
    PROVE  ThisOf(a, bs) = a.n \/ \E b \in bs : ThisOf(a, bs) = b.n
  BY DEF ThisOf

\* The active bridges after a configuration was applied to those with id i.
LEMMA StartedFacts ==
    ASSUME NEW bs \in SUBSET AB, NEW m \in Nat, NEW i, NEW s,
           \A a \in bs : a.n \in 1..m /\ a.this \in 0..m
    PROVE  /\ Started(i, s, bs) \in SUBSET AB
           /\ \A x \in Started(i, s, bs) : x.n \in 1..m /\ x.this \in 0..m
           /\ \A x \in Started(i, s, bs) : \E a \in bs : x.id = a.id
           /\ (\A a, b \in bs : a.id = b.id => a = b)
                => \A x, y \in Started(i, s, bs) : x.id = y.id => x = y
<1> DEFINE f(a) == IF s.enable /\ a.id = i /\ a.this = 0
                   THEN [a EXCEPT !.this = ThisOf(a, bs)] ELSE a
<1>1. Started(i, s, bs) = {f(a) : a \in bs}
  BY DEF Started
<1>2. ASSUME NEW a \in bs
      PROVE  f(a) \in AB /\ f(a).n \in 1..m /\ f(a).this \in 0..m /\ f(a).id = a.id
  <2>1. ThisOf(a, bs) \in 1..m
    BY ThisFacts
  <2>2. a \in AB
    OBVIOUS
  <2>3. [a EXCEPT !.this = ThisOf(a, bs)] \in AB
        /\ [a EXCEPT !.this = ThisOf(a, bs)].this = ThisOf(a, bs)
        /\ [a EXCEPT !.this = ThisOf(a, bs)].n = a.n
        /\ [a EXCEPT !.this = ThisOf(a, bs)].id = a.id
    BY <2>1, <2>2 DEF AB
  <2> QED
    BY <2>1, <2>2, <2>3
<1> HIDE DEF f
<1> QED
  BY <1>1, <1>2

\* What a call of apply_new_protocol_bridge_config does to the state.
LEMMA ApplyFacts ==
    ASSUME NEW bs \in SUBSET AB, NEW m \in Nat, NEW i, NEW s,
           \A a \in bs : a.n \in 1..m /\ a.this \in 0..m,
           threads \subseteq 1..m, pcfg_changed \subseteq Bridges,
           apply_new_protocol_bridge_config(i, s, bs)
    PROVE  /\ ABs' \in SUBSET AB
           /\ \A x \in ABs' : x.n \in 1..m /\ x.this \in 0..m
           /\ \A x \in ABs' : \E a \in bs : x.id = a.id
           /\ (\A a, b \in bs : a.id = b.id => a = b)
                => \A x, y \in ABs' : x.id = y.id => x = y
           /\ threads' \subseteq 1..m
           /\ pcfg_changed' \subseteq Bridges
<1>1. ABs' = Started(i, s, bs)
  BY DEF apply_new_protocol_bridge_config
<1>2. threads' \subseteq 1..m /\ pcfg_changed' \subseteq Bridges
  BY DEF apply_new_protocol_bridge_config
<1>3. /\ Started(i, s, bs) \in SUBSET AB
      /\ \A x \in Started(i, s, bs) : x.n \in 1..m /\ x.this \in 0..m
      /\ \A x \in Started(i, s, bs) : \E a \in bs : x.id = a.id
      /\ (\A a, b \in bs : a.id = b.id => a = b)
           => \A x, y \in Started(i, s, bs) : x.id = y.id => x = y
  BY StartedFacts
<1> QED
  BY <1>1, <1>2, <1>3

-----------------------------------------------------------------------------
(* The initial states and the steps.                                       *)

\* The invariant holds in the initial states.
LEMMA InitIInv == Init => IInv
<1> SUFFICES ASSUME Init PROVE IInv
  OBVIOUS
<1>1. TypeOK
  <2>1. 1 \in 1..MaxVersion /\ 0 \in 0..MaxVersion /\ 1 \in 1..(B + 1) /\ 0 \in Nat
    BY ReloadAssumption
  <2>2. threads \subseteq 1..born /\ ABs \subseteq AB /\ pcfg_changed \subseteq Bridges
    BY DEF Init
  <2>3. \A a \in ABs : a.n \in 1..born /\ a.this \in 0..born
    BY DEF Init
  <2> QED
    BY <2>1, <2>2, <2>3, NoConfigFacts DEF Init, TypeOK
<1> QED
  BY <1>1, NoConfigFacts DEF Init, IInv, OneAtATime, Underway, InLine, OneBridgePerId

\* Applying changed settings starts bridges and moves none.
LEMMA ChangedStep ==
    ASSUME IInv, ExecChanged PROVE IInv'
<1> USE DEF IInv
<1>1. /\ ABs' \in SUBSET AB
      /\ \A x \in ABs' : x.n \in 1..born /\ x.this \in 0..born
      /\ \A x \in ABs' : \E a \in ABs : x.id = a.id
      /\ OneBridgePerId => OneBridgePerId'
      /\ threads' \subseteq 1..born
      /\ pcfg_changed' \subseteq Bridges
  <2>1. apply_new_protocol_bridge_config(icfg, bdj_psv_cfg[icfg], ABs)
    BY DEF ExecChanged
  <2> QED
    BY <2>1, ApplyFacts DEF TypeOK, OneBridgePerId
<1>2. /\ epc = "old" /\ icfg \in 1..B /\ icfg' = icfg + 1 /\ icfg \in DOMAIN bdj_psv_cfg
      /\ UNCHANGED <<release, version, loader, old_bdj_psv_cfg, bdj_psv_cfg, loaded,
                     psv_cfg_changed, epc, quit, born>>
  BY ReloadAssumption DEF ExecChanged, Turn, Exists, TypeOK
<1>3. TypeOK'
  BY <1>1, <1>2, ReloadAssumption DEF TypeOK, release, version, loader
<1>4. OneAtATime => OneAtATime'
  BY <1>2 DEF OneAtATime, Underway, release, version, loader
<1>5. InLine => InLine'
  <2> SUFFICES ASSUME InLine, NEW x \in ABs'
               PROVE  /\ x.id \in DOMAIN old_bdj_psv_cfg
                      /\ x.id < icfg + 1 => x.id \in DOMAIN bdj_psv_cfg
    BY <1>2 DEF InLine
  <2>1. PICK a \in ABs : x.id = a.id
    BY <1>1
  <2>2. a.id \in 1..B
    BY DEF TypeOK, AB, Bridges
  <2> QED
    BY <1>2, <2>1, <2>2, ReloadAssumption DEF InLine
<1> QED
  BY <1>1, <1>3, <1>4, <1>5

\* Removing the bridges with an id keeps the others in line.
LEMMA RemoveStep ==
    ASSUME IInv, ExecRemove PROVE IInv'
<1> USE DEF IInv
<1>1. ABs' = {a \in ABs : a.id # icfg} /\ threads' = threads /\ pcfg_changed' = pcfg_changed
  BY DEF ExecRemove, remove_protocol_bridge
<1>2. /\ epc = "old" /\ icfg \in 1..B /\ icfg' = icfg + 1
      /\ UNCHANGED <<release, version, loader, old_bdj_psv_cfg, bdj_psv_cfg, loaded,
                     psv_cfg_changed, epc, quit, born>>
  BY ReloadAssumption DEF ExecRemove, Turn, TypeOK
<1>3. TypeOK'
  BY <1>1, <1>2, ReloadAssumption DEF TypeOK, release, version, loader
<1>4. OneAtATime => OneAtATime'
  BY <1>2 DEF OneAtATime, Underway, release, version, loader
<1>5. InLine => InLine'
  <2> SUFFICES ASSUME InLine, NEW x \in ABs'
               PROVE  /\ x.id \in DOMAIN old_bdj_psv_cfg
                      /\ x.id < icfg + 1 => x.id \in DOMAIN bdj_psv_cfg
    BY <1>2 DEF InLine
  <2>1. x \in ABs /\ x.id # icfg /\ x.id \in 1..B
    BY <1>1 DEF TypeOK, AB, Bridges
  <2> QED
    BY <1>2, <2>1, ReloadAssumption DEF InLine
<1>6. OneBridgePerId => OneBridgePerId'
  BY <1>1 DEF OneBridgePerId
<1> QED
  BY <1>3, <1>4, <1>5, <1>6

\* A bridge is added when no active one has its id.
LEMMA AddStep ==
    ASSUME IInv, ExecAdd PROVE IInv'
<1> USE DEF IInv
<1> DEFINE s == bdj_psv_cfg[icfg]
           new == [n |-> born + 1, id |-> icfg, cfg |-> s, this |-> 0]
           bs == ABs \cup {new}
<1>1. /\ epc = "new" /\ icfg \in 1..B /\ icfg' = icfg + 1
      /\ icfg \in DOMAIN bdj_psv_cfg /\ icfg \notin DOMAIN old_bdj_psv_cfg
      /\ born' = born + 1
      /\ UNCHANGED <<release, version, loader, old_bdj_psv_cfg, bdj_psv_cfg, loaded,
                     psv_cfg_changed, epc, quit>>
      /\ apply_new_protocol_bridge_config(icfg, s, bs)
  BY ReloadAssumption DEF ExecAdd, Turn, IsNew, add_new_protocol_bridge, TypeOK
<1>2. new \in AB /\ new.n \in 1..(born + 1) /\ new.this \in 0..(born + 1) /\ new.id = icfg
  <2>1. s \in Settings /\ icfg \in Bridges /\ born \in Nat
    BY <1>1, ConfigFacts DEF TypeOK
  <2> QED
    BY <2>1 DEF AB
<1>3. /\ bs \in SUBSET AB
      /\ \A a \in bs : a.n \in 1..(born + 1) /\ a.this \in 0..(born + 1)
      /\ threads \subseteq 1..(born + 1)
      /\ pcfg_changed \subseteq Bridges
  <2>1. \A a \in ABs : a.n \in 1..(born + 1) /\ a.this \in 0..(born + 1)
    BY DEF TypeOK
  <2> QED
    BY <1>2, <2>1 DEF TypeOK
<1> HIDE DEF s, new
<1>4. /\ ABs' \in SUBSET AB
      /\ \A x \in ABs' : x.n \in 1..(born + 1) /\ x.this \in 0..(born + 1)
      /\ \A x \in ABs' : \E a \in bs : x.id = a.id
      /\ (\A a, b \in bs : a.id = b.id => a = b) => OneBridgePerId'
      /\ threads' \subseteq 1..(born + 1)
      /\ pcfg_changed' \subseteq Bridges
  <2>1. born + 1 \in Nat
    BY DEF TypeOK
  <2> QED
    BY <1>1, <1>3, <2>1, ApplyFacts DEF OneBridgePerId
<1>5. TypeOK'
  BY <1>1, <1>4, ReloadAssumption DEF TypeOK, release, version, loader
<1>6. OneAtATime => OneAtATime'
  BY <1>1 DEF OneAtATime, Underway, release, version, loader
<1>7. InLine => InLine'
  <2> SUFFICES ASSUME InLine, NEW x \in ABs'
               PROVE  /\ x.id \in DOMAIN bdj_psv_cfg
                      /\ x.id \notin DOMAIN old_bdj_psv_cfg => x.id < icfg + 1
    BY <1>1 DEF InLine
  <2>1. PICK a \in bs : x.id = a.id
    BY <1>4
  <2>2. a \in ABs \/ a.id = icfg
    BY <1>2
  <2>3. a.id \in 1..B
    BY <1>3 DEF AB, Bridges
  <2> QED
    BY <1>1, <2>1, <2>2, <2>3, ReloadAssumption DEF InLine
<1>8. InLine /\ OneBridgePerId => OneBridgePerId'
  <2> SUFFICES ASSUME InLine, OneBridgePerId PROVE \A a, b \in bs : a.id = b.id => a = b
    BY <1>4
  <2>1. \A a \in ABs : a.id # icfg
    BY <1>1 DEF InLine, TypeOK, AB, Bridges
  <2> QED
    BY <1>2, <2>1 DEF OneBridgePerId
<1> QED
  BY <1>5, <1>6, <1>7, <1>8

\* A load puts the configuration that was executed in the place of the old.
LEMMA PublishStep ==
    ASSUME IInv, LoadPublish PROVE IInv'
<1> USE DEF IInv
<1>1. /\ lpc = "publish" /\ lpc' = "idle" /\ bdj_psv_cfg' = read_cfg
      /\ old_bdj_psv_cfg' = bdj_psv_cfg /\ version_changed' = FALSE /\ loaded' = TRUE
      /\ UNCHANGED <<release, ver, checking, read_cfg, executer, bridges, quit>>
  BY DEF LoadPublish
<1>2. pcfg_changed' \subseteq Bridges /\ psv_cfg_changed' \in BOOLEAN
  <2>1. DOMAIN bdj_psv_cfg \subseteq Bridges /\ DOMAIN read_cfg \subseteq Bridges
    BY ConfigFacts DEF TypeOK
  <2>2. Flagged(bdj_psv_cfg, read_cfg) \subseteq Bridges
    BY <2>1 DEF Flagged, Differing, Before
  <2> QED
    BY <2>1, <2>2 DEF LoadPublish, TypeOK
<1>3. TypeOK'
  BY <1>1, <1>2 DEF TypeOK, release, executer, bridges
<1>4. OneAtATime => OneAtATime'
  BY <1>1 DEF OneAtATime, Underway, release
<1>5. OneAtATime /\ InLine => InLine'
  <2> SUFFICES ASSUME OneAtATime, InLine PROVE InLine'
    OBVIOUS
  <2>1. \/ epc = "loop" /\ ~psv_cfg_changed
        \/ epc = "wait"
    BY <1>1 DEF OneAtATime, Underway
  <2>2. ~psv_cfg_changed' => DOMAIN bdj_psv_cfg \subseteq DOMAIN read_cfg
    BY DEF LoadPublish
  <2> QED
    BY <1>1, <2>1, <2>2 DEF InLine, executer, bridges
<1>6. OneBridgePerId => OneBridgePerId'
  BY <1>1 DEF OneBridgePerId, bridges
<1> QED
  BY <1>3, <1>4, <1>5, <1>6

\* Every step keeps the invariant.
LEMMA Step == IInv /\ [Next]_vars => IInv'
<1> SUFFICES ASSUME IInv, [Next]_vars PROVE IInv'
  OBVIOUS
<1> USE DEF release, version, loader, config, executer, bridges
<1>1. CASE Release
  <2>1. TypeOK'
    BY <1>1, ReloadAssumption DEF IInv, TypeOK, Release
  <2> QED
    BY <1>1, <2>1 DEF IInv, Release, Settled, OneAtATime, Underway, InLine, OneBridgePerId
<1>2. CASE version_checker
  <2>1. TypeOK'
    BY <1>2 DEF IInv, TypeOK, version_checker
  <2> QED
    BY <1>2, <2>1 DEF IInv, version_checker, OneAtATime, Underway, InLine, OneBridgePerId
<1>17. CASE CheckFail
  <2>1. TypeOK'
    BY <1>17 DEF IInv, TypeOK, CheckFail
  <2> QED
    BY <1>17, <2>1 DEF IInv, CheckFail, OneAtATime, Underway, InLine, OneBridgePerId
<1>3. CASE LoadLock
  <2>1. TypeOK'
    BY <1>3 DEF IInv, TypeOK, LoadLock
  <2> QED
    BY <1>3, <2>1 DEF IInv, LoadLock, OneAtATime, Underway, InLine, OneBridgePerId
<1>4. CASE LoadRead
  <2>1. TypeOK'
    BY <1>4 DEF IInv, TypeOK, LoadRead
  <2> QED
    BY <1>4, <2>1 DEF IInv, LoadRead, OneAtATime, Underway, InLine, OneBridgePerId
<1>5. CASE LoadFail
  <2>1. TypeOK'
    BY <1>5 DEF IInv, TypeOK, LoadFail
  <2> QED
    BY <1>5, <2>1 DEF IInv, LoadFail, OneAtATime, Underway, InLine, OneBridgePerId
<1>6. CASE LoadPublish
  BY <1>6, PublishStep
<1>7. CASE ExecStart
  <2>1. TypeOK'
    BY <1>7 DEF IInv, TypeOK, ExecStart
  <2> QED
    BY <1>7, <2>1 DEF IInv, ExecStart, OneAtATime, Underway, InLine, OneBridgePerId
<1>8. CASE ExecLock
  <2>1. TypeOK'
    BY <1>8, ReloadAssumption DEF IInv, TypeOK, ExecLock
  <2>2. InLine => InLine'
    BY <1>8, <2>1 DEF InLine, ExecLock, TypeOK, AB, Bridges, IInv
  <2> QED
    BY <1>8, <2>1, <2>2 DEF IInv, ExecLock, OneAtATime, Underway, OneBridgePerId
<1>9. CASE ExecChanged
  BY <1>9, ChangedStep
<1>10. CASE ExecRemove
  BY <1>10, RemoveStep
<1>11. CASE ExecAdd
  BY <1>11, AddStep
<1>12. CASE ExecSkip
  <2>1. /\ epc \in {"old", "new"} /\ icfg \in 1..B /\ icfg' = icfg + 1
        /\ epc = "old" => icfg \notin DOMAIN old_bdj_psv_cfg
        /\ epc = "new" => icfg \notin DOMAIN bdj_psv_cfg \/ icfg \in DOMAIN old_bdj_psv_cfg
        /\ UNCHANGED <<release, version, loader, config, psv_cfg_changed, epc, bridges, quit>>
    BY <1>12, ReloadAssumption DEF ExecSkip, Turn, IsNew, IInv, TypeOK
  <2>2. TypeOK'
    BY <2>1, ReloadAssumption DEF IInv, TypeOK
  <2>3. InLine => InLine'
    BY <2>1, ReloadAssumption DEF InLine, IInv, TypeOK, AB, Bridges
  <2> QED
    BY <2>1, <2>2, <2>3 DEF IInv, OneAtATime, Underway, OneBridgePerId
<1>13. CASE ExecNext
  <2>1. TypeOK'
    BY <1>13, ReloadAssumption DEF IInv, TypeOK, ExecNext
  <2>2. InLine => InLine'
    BY <1>13, ReloadAssumption DEF InLine, ExecNext, IInv, TypeOK, AB, Bridges
  <2> QED
    BY <1>13, <2>1, <2>2 DEF IInv, ExecNext, OneAtATime, Underway, OneBridgePerId
<1>14. CASE ExecDone
  <2>1. TypeOK'
    BY <1>14 DEF IInv, TypeOK, ExecDone
  <2> QED
    BY <1>14, <2>1 DEF IInv, ExecDone, OneAtATime, Underway, InLine, OneBridgePerId
<1>15. CASE SigInt
  <2>1. TypeOK'
    BY <1>15 DEF IInv, TypeOK, SigInt
  <2> QED
    BY <1>15, <2>1 DEF IInv, SigInt, OneAtATime, Underway, InLine, OneBridgePerId
<1>16. CASE UNCHANGED vars
  <2>1. TypeOK'
    BY <1>16 DEF IInv, TypeOK, vars
  <2> QED
    BY <1>16, <2>1 DEF IInv, vars, OneAtATime, Underway, InLine, OneBridgePerId
<1> QED
  BY <1>1, <1>2, <1>3, <1>4, <1>5, <1>6, <1>7, <1>8, <1>9, <1>10, <1>11, <1>12,
     <1>13, <1>14, <1>15, <1>16, <1>17 DEF Next, Loader, Executer

\* The inductive invariant holds in every reachable state.
THEOREM Invariance == Spec => []IInv
<1>1. Init => IInv
  BY InitIInv
<1>2. IInv /\ [Next]_vars => IInv'
  BY Step
<1> QED
  BY <1>1, <1>2, PTL DEF Spec

\* Type correctness of the reload, for any number of bridges and settings.
THEOREM TypeCorrect == Spec => []TypeOK
  BY Invariance, PTL DEF IInv

\* When versions are released one at a time, config_executer never adds a
\* bridge that is active already.
THEOREM OneBridgeSafe == Spec => [](Paced => OneBridgePerId)
<1>1. IInv => (Paced => OneBridgePerId)
  BY DEF IInv
<1> QED
  BY <1>1, Invariance, PTL

\* When versions are released one at a time, remove_protocol_bridge has
\* removed every bridge that is no longer listed.
THEOREM ListedSafe == Spec => [](Paced => ListedOnly)
<1>1. IInv => (Paced => ListedOnly)
  BY DEF IInv, InLine, ListedOnly, Settled
<1> QED
  BY <1>1, Invariance, PTL
-----------------------------------------------------------------------------
(* Shared connections.                                                     *)

\* Every bridge has a name of its own; a bridge whose connection is used is
\* started and has the same destination; and who follows the connections from
\* started bridge to started bridge, without leaving a set of them, finds a
\* main instance in it: no bridges are aliases of each other in a circle.
Rooted(bs) ==
    /\ \A a, b \in bs : a.n = b.n => a = b
    /\ \A a, b \in bs : a.this = b.n => b.this # 0 /\ b.cfg.core = a.cfg.core
    /\ \A S \in SUBSET bs :
           /\ S # {}
           /\ \A a \in S : \E b \in S : a.this = b.n
           => \E b \in S : b.this = b.n

\* The invariant of the active bridges.
AliasesRooted == Rooted(ABs)

\* init_ActiveBridge takes the bridge itself, or the first of the others with
\* its destination that is active or precedes it under the same id.
LEMMA ChosenFacts ==
    ASSUME NEW bs, NEW a
    PROVE  \/ ThisOf(a, bs) = a.n
           \/ \E b \in bs :
                 /\ ThisOf(a, bs) = b.n /\ b.n # a.n /\ b.cfg.core = a.cfg.core
                 /\ b.this # 0 \/ (b.id = a.id /\ b.n < a.n)
                 /\ \A c \in bs : /\ c.n # a.n /\ c.cfg.core = a.cfg.core
                                  /\ c.this # 0 \/ (c.id = a.id /\ c.n < a.n)
                                  => b.n <= c.n
  BY DEF ThisOf

\* Starting bridges closes no circle of aliases: a bridge is an alias of one
\* that was started before, or of the first one that is started along with it,
\* which in turn is not an alias of a third one that is started along with it.
LEMMA StartKeepsRooted ==
    ASSUME NEW bs \in SUBSET AB, NEW i, NEW s, \A a \in bs : a.n # 0, Rooted(bs)
    PROVE  Rooted(Started(i, s, bs))
<1> DEFINE starts(a) == s.enable /\ a.id = i /\ a.this = 0
           f(a) == IF starts(a) THEN [a EXCEPT !.this = ThisOf(a, bs)] ELSE a
           T == Started(i, s, bs)
<1>1. T = {f(a) : a \in bs}
  BY DEF Started
<1>2. ASSUME NEW a \in bs
      PROVE  /\ f(a).n = a.n /\ f(a).id = a.id /\ f(a).cfg = a.cfg
             /\ starts(a) => f(a).this = ThisOf(a, bs)
             /\ ~starts(a) => f(a) = a
  <2>1. a \in AB
    OBVIOUS
  <2> QED
    BY <2>1 DEF AB
<1>3. \A a \in bs : a.n \in Nat /\ a.this \in Nat
  BY DEF AB
<1>4. \A a, b \in bs : a.n = b.n => a = b
  BY DEF Rooted
<1>5. \A a, b \in bs : a.this = b.n => b.this # 0 /\ b.cfg.core = a.cfg.core
  BY DEF Rooted
<1>6. ASSUME NEW a \in bs, starts(a), ThisOf(a, bs) # a.n
      PROVE  \E b \in bs :
                 /\ ThisOf(a, bs) = b.n /\ b.n # a.n /\ b.cfg.core = a.cfg.core
                 /\ b.this # 0 \/ (starts(b) /\ b.n < a.n)
                 /\ \A c \in bs : c.cfg.core = a.cfg.core /\ starts(c) /\ c.n < a.n
                                  => b.n <= c.n
  <2>1. PICK b \in bs :
                 /\ ThisOf(a, bs) = b.n /\ b.n # a.n /\ b.cfg.core = a.cfg.core
                 /\ b.this # 0 \/ (b.id = a.id /\ b.n < a.n)
                 /\ \A c \in bs : /\ c.n # a.n /\ c.cfg.core = a.cfg.core
                                  /\ c.this # 0 \/ (c.id = a.id /\ c.n < a.n)
                                  => b.n <= c.n
    BY <1>6, ChosenFacts
  <2>2. b.this # 0 \/ (starts(b) /\ b.n < a.n)
    BY <1>6, <2>1
  <2>3. ASSUME NEW c \in bs, c.cfg.core = a.cfg.core, starts(c), c.n < a.n
        PROVE  b.n <= c.n
    <3>1. c.n # a.n
      BY <1>3, <2>3
    <3>2. c.id = a.id
      BY <1>6, <2>3
    <3> QED
      BY <2>1, <2>3, <3>1, <3>2
  <2> QED
    BY <2>1, <2>2, <2>3
<1>7. ASSUME NEW a \in bs, NEW b \in bs, f(a).this = b.n
      PROVE  /\ f(b).this # 0 /\ b.cfg.core = a.cfg.core
             /\ ~starts(a) => ~starts(b)
  <2>1. CASE ~starts(a)
    <3>1. a.this = b.n
      BY <1>2, <1>7, <2>1
    <3>2. b.this # 0 /\ b.cfg.core = a.cfg.core
      BY <1>5, <3>1
    <3>3. ~starts(b)
      BY <3>2
    <3> QED
      BY <1>2, <3>2, <3>3
  <2>2. ASSUME NEW c \in bs, starts(c) PROVE f(c).this # 0
    <3>1. f(c).this = ThisOf(c, bs)
      BY <1>2, <2>2
    <3>2. CASE ThisOf(c, bs) = c.n
      BY <3>1, <3>2
    <3>3. CASE ThisOf(c, bs) # c.n
      BY <1>6, <2>2, <3>1, <3>3
    <3> QED
      BY <3>2, <3>3
  <2>3. ASSUME b.this # 0 PROVE f(b).this # 0
    <3>1. ~starts(b)
      BY <2>3
    <3> QED
      BY <1>2, <2>3, <3>1
  <2>4. CASE starts(a) /\ ThisOf(a, bs) = a.n
    <3>1. a.n = b.n
      BY <1>2, <1>7, <2>4
    <3>2. a = b
      BY <1>4, <3>1
    <3> QED
      BY <2>2, <2>4, <3>2
  <2>5. CASE starts(a) /\ ThisOf(a, bs) # a.n
    <3>1. PICK d \in bs : /\ ThisOf(a, bs) = d.n /\ d.cfg.core = a.cfg.core
                          /\ d.this # 0 \/ starts(d)
      BY <1>6, <2>5
    <3>2. d.n = b.n
      BY <1>2, <1>7, <2>5, <3>1
    <3>3. d = b
      BY <1>4, <3>2
    <3> QED
      BY <2>2, <2>3, <2>5, <3>1, <3>3
  <2> QED
    BY <2>1, <2>4, <2>5
<1> HIDE DEF T, f, starts
<1>8. \A x, y \in T : x.n = y.n => x = y
  BY <1>1, <1>2, <1>4
<1>9. \A x, y \in T : x.this = y.n => y.this # 0 /\ y.cfg.core = x.cfg.core
  BY <1>1, <1>2, <1>7
<1>10. ASSUME NEW S \in SUBSET T, S # {}, \A x \in S : \E y \in S : x.this = y.n
       PROVE  \E y \in S : y.this = y.n
  <2> DEFINE O == {a \in bs : f(a) \in S /\ ~starts(a)}
  <2>1. \A a \in bs : f(a) \in S => \E b \in bs : f(b) \in S /\ f(a).this = b.n
    <3> SUFFICES ASSUME NEW a \in bs, f(a) \in S
                 PROVE  \E b \in bs : f(b) \in S /\ f(a).this = b.n
      OBVIOUS
    <3>1. PICK y \in S : f(a).this = y.n
      BY <1>10
    <3>2. PICK b \in bs : y = f(b)
      BY <1>1
    <3> QED
      BY <1>2, <3>1, <3>2
  <2>2. CASE O # {}
    <3>1. \A a \in O : \E b \in O : a.this = b.n
      BY <1>2, <1>7, <2>1
    <3>2. O \in SUBSET bs
      OBVIOUS
    <3> HIDE DEF O
    <3>3. \E b \in O : b.this = b.n
      BY <2>2, <3>1, <3>2 DEF Rooted
    <3>4. \A b \in O : b \in S
      BY <1>2 DEF O
    <3> QED
      BY <3>3, <3>4
  <2>3. CASE O = {}
    <3>1. \A a \in bs : f(a) \in S => starts(a)
      BY <2>3
    <3>2. PICK a \in bs : f(a) \in S
      BY <1>1, <1>10
    <3>3. CASE ThisOf(a, bs) = a.n
      BY <1>2, <3>1, <3>2, <3>3
    <3>4. CASE ThisOf(a, bs) # a.n
      <4>1. PICK b \in bs :
                 /\ ThisOf(a, bs) = b.n /\ b.n # a.n /\ b.cfg.core = a.cfg.core
                 /\ b.this # 0 \/ (starts(b) /\ b.n < a.n)
                 /\ \A c \in bs : c.cfg.core = a.cfg.core /\ starts(c) /\ c.n < a.n
                                  => b.n <= c.n
        BY <1>6, <3>1, <3>2, <3>4
      <4>2. f(b) \in S
        BY <1>2, <1>4, <2>1, <3>1, <3>2, <4>1
      <4>3. starts(b) /\ b.n < a.n
        BY <3>1, <4>1, <4>2 DEF starts
      <4>4. CASE ThisOf(b, bs) = b.n
        BY <1>2, <4>2, <4>3, <4>4
      <4>5. CASE ThisOf(b, bs) # b.n
        <5>1. PICK c \in bs : /\ ThisOf(b, bs) = c.n /\ c.cfg.core = b.cfg.core
                              /\ c.this # 0 \/ (starts(c) /\ c.n < b.n)
          BY <1>6, <4>3, <4>5
        <5>2. f(c) \in S
          BY <1>2, <1>4, <2>1, <4>2, <4>3, <5>1
        <5>3. starts(c) /\ c.n < b.n
          BY <3>1, <5>1, <5>2 DEF starts
        <5>4. b.n <= c.n
          BY <1>3, <4>1, <4>3, <5>1, <5>3
        <5> QED
          BY <1>3, <5>3, <5>4
      <4> QED
        BY <4>4, <4>5
    <3> QED
      BY <3>3, <3>4
  <2> QED
    BY <2>2, <2>3
<1> QED
  BY <1>8, <1>9, <1>10 DEF Rooted, T

\* Deleting bridges closes no circle either.
LEMMA RemoveKeepsRooted ==
    ASSUME NEW bs, NEW cs \in SUBSET bs, Rooted(bs)
    PROVE  Rooted(cs)
  BY DEF Rooted

\* A bridge that has no connection yet is in no circle.
LEMMA AddKeepsRooted ==
    ASSUME NEW bs, NEW new, NEW m \in Nat, Rooted(bs),
           \A a \in bs : a.n \in 1..m /\ a.this \in 0..m,
           new.n = m + 1, new.this = 0
    PROVE  Rooted(bs \cup {new})
<1> DEFINE cs == bs \cup {new}
<1>1. \A a, b \in cs : a.n = b.n => a = b
  BY DEF Rooted
<1>2. \A a \in cs : a.this # new.n /\ new.this # a.n
  OBVIOUS
<1>3. \A a, b \in cs : a.this = b.n => b.this # 0 /\ b.cfg.core = a.cfg.core
  BY <1>2 DEF Rooted
<1>4. ASSUME NEW S \in SUBSET cs, S # {}, \A a \in S : \E b \in S : a.this = b.n
      PROVE  \E b \in S : b.this = b.n
  <2>1. new \notin S
    BY <1>2, <1>4
  <2>2. S \in SUBSET bs
    BY <2>1
  <2> QED
    BY <1>4, <2>2 DEF Rooted
<1> HIDE DEF cs
<1>5. Rooted(cs)
  BY <1>1, <1>3, <1>4 DEF Rooted
<1> QED
  BY <1>5 DEF cs

\* Every step keeps the connections rooted.
LEMMA RootedStep == IInv /\ Rooted(ABs) /\ [Next]_vars => Rooted(ABs')
<1> SUFFICES ASSUME IInv, Rooted(ABs), [Next]_vars PROVE Rooted(ABs')
  OBVIOUS
<1>1. /\ ABs \in SUBSET AB /\ born \in Nat
      /\ \A a \in ABs : a.n \in 1..born /\ a.this \in 0..born
  BY DEF IInv, TypeOK
<1>2. CASE ExecChanged
  <2>1. ABs' = Started(icfg, bdj_psv_cfg[icfg], ABs)
    BY <1>2 DEF ExecChanged, apply_new_protocol_bridge_config
  <2>2. \A a \in ABs : a.n # 0
    BY <1>1
  <2> QED
    BY <1>1, <2>1, <2>2, StartKeepsRooted
<1>3. CASE ExecRemove
  <2>1. ABs' \in SUBSET ABs
    BY <1>3 DEF ExecRemove, remove_protocol_bridge
  <2> QED
    BY <2>1, RemoveKeepsRooted
<1>4. CASE ExecAdd
  <2> DEFINE s == bdj_psv_cfg[icfg]
             new == [n |-> born + 1, id |-> icfg, cfg |-> s, this |-> 0]
             bs == ABs \cup {new}
  <2>1. ABs' = Started(icfg, s, bs)
    BY <1>4 DEF ExecAdd, add_new_protocol_bridge, apply_new_protocol_bridge_config
  <2>2. icfg \in DOMAIN bdj_psv_cfg /\ bdj_psv_cfg \in Configs /\ icfg \in Bridges
    <3>1. icfg \in DOMAIN bdj_psv_cfg /\ bdj_psv_cfg \in Configs
      BY <1>4 DEF ExecAdd, IsNew, IInv, TypeOK
    <3> QED
      BY <3>1, ConfigFacts
  <2>3. s \in Settings
    BY <2>2, ConfigFacts
  <2>4. new \in AB /\ new.n = born + 1 /\ new.this = 0
    BY <1>1, <2>2, <2>3 DEF AB
  <2> HIDE DEF s, new
  <2>5. Rooted(bs)
    BY <1>1, <2>4, AddKeepsRooted
  <2>6. bs \in SUBSET AB /\ \A a \in bs : a.n # 0
    BY <1>1, <2>4
  <2> QED
    BY <2>1, <2>5, <2>6, StartKeepsRooted
<1>5. CASE ABs' = ABs
  BY <1>5
<1>6. \/ ABs' = ABs \/ ExecChanged \/ ExecRemove \/ ExecAdd
  BY DEF Next, Loader, Executer, vars, bridges, Release, version_checker, CheckFail,
     LoadLock, LoadRead, LoadFail, LoadPublish, ExecStart, ExecLock, ExecSkip,
     ExecNext, ExecDone, SigInt
<1> QED
  BY <1>2, <1>3, <1>4, <1>5, <1>6

\* Rooted connections have a main instance wherever none has lost its own.
LEMMA RootedHasMain == Rooted(ABs) => SharedHasMain
<1> SUFFICES ASSUME Rooted(ABs), \A a \in ABs : a.this = 0 \/ \E b \in ABs : b.n = a.this,
                    NEW a \in ABs, a.this # 0
             PROVE  \E b \in ABs : b.this = b.n /\ b.cfg.core = a.cfg.core
  BY DEF SharedHasMain
<1> DEFINE S == {b \in ABs : b.this # 0 /\ b.cfg.core = a.cfg.core}
<1>1. \A b \in S : \E c \in S : b.this = c.n
  <2> SUFFICES ASSUME NEW b \in S PROVE \E c \in S : b.this = c.n
    OBVIOUS
  <2>1. PICK c \in ABs : c.n = b.this
    OBVIOUS
  <2>2. c.this # 0 /\ c.cfg.core = b.cfg.core
    BY <2>1 DEF Rooted
  <2> QED
    BY <2>1, <2>2
<1>2. S \in SUBSET ABs /\ a \in S
  OBVIOUS
<1>3. \A b \in S : b \in ABs /\ b.cfg.core = a.cfg.core
  OBVIOUS
<1> HIDE DEF S
<1>4. \E b \in S : b.this = b.n
  BY <1>1, <1>2 DEF Rooted
<1> QED
  BY <1>3, <1>4

\* The bridges that share a connection rely on a main instance with their
\* destination, whether or not versions wait for each other, unless a bridge
\* whose connection is used was deleted.
THEOREM SharedSafe == Spec => []SharedHasMain
<1>1. Init => AliasesRooted
  BY DEF Init, AliasesRooted, Rooted
<1>2. IInv /\ AliasesRooted /\ [Next]_vars => AliasesRooted'
  BY RootedStep DEF AliasesRooted
<1>3. AliasesRooted => SharedHasMain
  BY RootedHasMain DEF AliasesRooted
<1> QED
  BY <1>1, <1>2, <1>3, Invariance, PTL DEF Spec

-----------------------------------------------------------------------------
(* The comparison: ChangeNoticed for lists of every length.                *)

\* A list is a sequence of at most MaxLen entries with distinct names.
LEMMA EndsFacts ==
    ASSUME NEW l \in Ends
    PROVE  /\ Len(l) \in Nat
           /\ DOMAIN l = 1..Len(l)
           /\ \A i \in 1..Len(l) : l[i] \in Entry
           /\ Distinct(l)
<1>1. PICK n \in 0..MaxLen : l \in [1..n -> Entry]
  BY DEF Ends
<1>2. n \in Nat
  BY LenAssumption
<1>3. Len(l) = n
  BY <1>1, <1>2
<1> QED
  BY <1>1, <1>2, <1>3 DEF Ends

\* A list with distinct names configures as many things as it has entries.
LEMMA ContentSize ==
    ASSUME NEW l \in Ends
    PROVE  IsFiniteSet(Content(l)) /\ Cardinality(Content(l)) = Len(l)
<1>1. /\ Len(l) \in Nat
      /\ DOMAIN l = 1..Len(l)
      /\ \A i \in 1..Len(l) : l[i] \in Entry
      /\ Distinct(l)
  BY EndsFacts
<1> DEFINE f == [i \in 1..Len(l) |-> l[i]]
<1>2. f \in Bijection(1..Len(l), Content(l))
  <2>1. f \in [1..Len(l) -> Content(l)]
    BY <1>1 DEF Content
  <2>2. \A i, j \in 1..Len(l) : f[i] = f[j] => i = j
    BY <1>1 DEF Distinct
  <2>3. \A c \in Content(l) : \E i \in 1..Len(l) : f[i] = c
    BY <1>1 DEF Content
  <2> QED
    BY <2>1, <2>2, <2>3 DEF Bijection, Injection, Surjection, IsInjective
<1>3. IsFiniteSet(1..Len(l)) /\ Cardinality(1..Len(l)) = Len(l)
  BY <1>1, FS_Interval
<1>4. ExistsBijection(1..Len(l), Content(l))
  BY <1>2 DEF ExistsBijection
<1> QED
  BY <1>3, <1>4, FS_Bijection

\* The first loop alone, on lists of the same length, shows them the same.
LEMMA SameContent ==
    ASSUME NEW l \in Ends, NEW r \in Ends, Len(l) = Len(r), LeftInRight(l, r)
    PROVE  Content(l) = Content(r)
<1>1. Content(l) \subseteq Content(r)
  <2> SUFFICES ASSUME NEW i \in 1..Len(l) PROVE \E j \in 1..Len(r) : l[i] = r[j]
    BY EndsFacts DEF Content
  <2>1. PICK j \in 1..Len(r) : l[i].name = r[j].name /\ l[i].data = r[j].data
    BY DEF LeftInRight, FirstNamed
  <2>2. l[i] \in Entry /\ r[j] \in Entry
    BY EndsFacts
  <2> QED
    BY <2>1, <2>2 DEF Entry
<1>2. /\ IsFiniteSet(Content(l)) /\ Cardinality(Content(l)) = Len(l)
      /\ IsFiniteSet(Content(r)) /\ Cardinality(Content(r)) = Len(r)
  BY ContentSize
<1> QED
  BY <1>1, <1>2, FS_Subset

\* No change of a bridge's settings escapes bridge_cfg0_data_equlity, however
\* many inputs and outputs the bridge has.
THEOREM Noticed == CompareSpec => []ChangeNoticed
<1> DEFINE Loaded == old_brg \in Bcfg0 /\ new_brg \in Bcfg0
<1>1. CompareInit => Loaded
  BY DEF CompareInit
<1>2. Loaded /\ [Load]_compared => Loaded'
  BY DEF Load, compared
<1>3. Loaded => ChangeNoticed
  BY SameContent DEF Bcfg0, ChangeNoticed, bridge_cfg0_data_equlity
<1> QED
  BY <1>1, <1>2, <1>3, PTL DEF CompareSpec
=============================================================================

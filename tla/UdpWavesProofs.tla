--------------------------- MODULE UdpWavesProofs ---------------------------
(***************************************************************************)
(* Proofs about UdpWaves, for any list of waves, any edits and commands    *)
(* and any number of threads: a wave never has too many of them, and new   *)
(* settings reach those it has.                                            *)
(***************************************************************************)
EXTENDS UdpWaves, FiniteSetTheorems, SequenceTheorems, TLAPS

Entry == [id : STRING, c : Cfg, chg : BOOLEAN]

Object == [st : {"none", "live", "freed"}, id : STRING \cup {""}, c : Cfg,
           sock : BOOLEAN, trds : Seq(Slot)]

RunnerState == [at : RunAt, o : Waves \cup {Null}, quota : Nat, tune : Nat, slot : Nat,
                base : BOOLEAN, close : BOOLEAN, freed : BOOLEAN]

ManagerState == [at : MgrAt, ret : {"old", "new"}, i : Nat \ {0}, todo : SUBSET Waves,
                 o : Waves \cup {Null}, c : Cfg, j : Nat, gen : Nat, n : Nat, s : Nat]

\* The types of what the threads and the manager work with.
WavesType ==
    /\ file \in Files /\ ld \in [at : {"idle", "read", "gone"}, read : Files]
    /\ loads \in Nat /\ psv \in Seq(Entry)
    /\ mg \in ManagerState
    /\ wave \in [Waves -> Object]
    /\ run \in [Runners -> RunnerState]

\* A record is in one slot only, and belongs to a thread of that wave.
OneSlot ==
    \A o \in Waves : \A i \in Slots(o) :
        LET r == wave[o].trds[i].rec IN
        r # Null => /\ run[r].at # "none" /\ run[r].o = o
                    /\ \A k \in Slots(o) : wave[o].trds[k].rec = r => k = i

\* No masked slot has the record of this thread.
Nowhere(r) == \A o \in Waves : \A i \in Masked(o) : wave[o].trds[i].rec # r

\* A thread that takes itself off its wave, or whose record was freed, has no
\* masked slot any more.
OffWave == \A r \in Runners : run[r].freed \/ run[r].at = "unmask" => Nowhere(r)

\* The masked slots of threads that were not told to close.
Open(o) == {i \in Masked(o) : wave[o].trds[i].rec # Null /\ ~run[wave[o].trds[i].rec].close}

\* The manager at work on a wave has to start or to retire at least one more
\* thread, and as many as it has counted are enough.
Counted ==
    /\ mg.at \in {"start", "create", "retire", "copy", "flag"} => mg.o \in Waves
    /\ mg.at \in {"start", "create", "retire"} => mg.n > 0
    /\ mg.at \in {"start", "create"} /\ Live(mg.o) => Cardinality(Open(mg.o)) + mg.n <= mg.c.par
    /\ mg.at = "retire" /\ Live(mg.o) => Cardinality(Open(mg.o)) <= mg.c.par + mg.n
    /\ mg.at = "copy" /\ Live(mg.o) => Cardinality(Open(mg.o)) <= mg.c.par

\* A thread that was started has a wave, and only its record can be freed.
Placed ==
    \A r \in Runners : /\ run[r].at # "none" => run[r].o \in Waves
                       /\ run[r].freed => run[r].at # "none"

WavesInv ==
    /\ WavesType /\ OneSlot /\ Placed /\ OffWave /\ Counted
    /\ AtMostPar /\ SettingsReach

-----------------------------------------------------------------------------
(* What a step may do to slots, threads and waves without harm.            *)

\* No slot gets a record, and none that keeps its record is masked again.
SlotsShrink ==
    \A o \in Waves : \A i \in Slots(o)' :
        \/ wave'[o].trds[i].rec = Null
        \/ /\ i \in Slots(o) /\ wave'[o].trds[i].rec = wave[o].trds[i].rec
           /\ wave'[o].trds[i].mask => wave[o].trds[i].mask

\* No thread is created or leaves its wave.
RunnersStay ==
    \A q \in Runners : /\ run'[q].o = run[q].o /\ (run'[q].at = "none" <=> run[q].at = "none")
                       /\ run'[q].freed => run[q].freed \/ run[q].at # "none"

\* An order to close stays with a thread that has a masked slot.
CloseStays ==
    \A o \in Waves : \A i \in Masked(o) :
        LET r == wave[o].trds[i].rec IN
        Live(o) /\ r # Null /\ run[r].close => run'[r].close

\* Who goes off its wave has no masked slot.
OffStays ==
    \A q \in Runners :
        run'[q].freed \/ run'[q].at = "unmask" =>
            run[q].freed \/ run[q].at = "unmask" \/ Nowhere(q)'

\* Who sends did so before, with the same settings, or has just read them.
SendersStay ==
    \A q \in Runners :
        run'[q].at = "loop" /\ ~run'[q].close /\ ~run'[q].freed =>
            \/ /\ run[q].at = "loop" /\ ~run[q].close /\ ~run[q].freed
               /\ run'[q].tune = run[q].tune /\ (run[q].base => run'[q].base)
            \/ run'[q].tune = wave[run[q].o].c.tune

\* A wave that lives did so before, with the same settings, or has no slots.
WavesStay ==
    \A o \in Waves : Live(o)' => \/ Live(o) /\ wave'[o].c = wave[o].c
                                 \/ ~Live(o) /\ Slots(o)' = {}

\* The manager is not about to change a wave's threads or settings.
Away == mg.at \notin {"start", "create", "retire", "copy", "flag"}

-----------------------------------------------------------------------------
(* The values of the records, and the counting.                            *)

LEMMA Initials ==
    /\ NoCfg \in Cfg /\ NoWave \in Object /\ NoRunner \in RunnerState
    /\ Manager \in ManagerState /\ Null \notin Waves /\ Null \notin Runners
<1>1. NoCfg \in Cfg
  BY DEF NoCfg, Cfg
<1>2. << >> \in Seq(Slot)
  OBVIOUS
<1>3. NoWave \in Object
  BY <1>1, <1>2 DEF NoWave, Object
<1>4. NoRunner \in RunnerState
  BY DEF NoRunner, RunnerState, RunAt
<1>5. Manager \in ManagerState
  BY <1>1 DEF Manager, ManagerState, MgrAt
<1>6. Null \notin Waves /\ Null \notin Runners
  BY WavesAssumption DEF Null, Waves, Runners
<1> QED
  BY <1>1, <1>3, <1>4, <1>5, <1>6

\* What the marked list is made of.
LEMMA MarkedFacts ==
    ASSUME NEW old, NEW new \in Files
    PROVE  Marked(old, new) \in Seq(Entry)
<1>1. new \in Seq([id : STRING, c : Cfg])
  BY WavesAssumption
<1>2. DOMAIN new = 1..Len(new) /\ Len(new) \in Nat
  BY <1>1
<1>3. ASSUME NEW j \in 1..Len(new)
      PROVE  [id |-> new[j].id, c |-> new[j].c, chg |-> Flagged(old, new, j)] \in Entry
  <2>1. new[j] \in [id : STRING, c : Cfg]
    BY <1>1, <1>2, ElementOfSeq
  <2>2. new[j].id \in STRING /\ new[j].c \in Cfg
    BY <2>1
  <2>3. Flagged(old, new, j) \in BOOLEAN
    BY DEF Flagged
  <2> QED
    BY <2>2, <2>3 DEF Entry
<1>4. Marked(old, new) \in [1..Len(new) -> Entry]
  BY <1>2, <1>3 DEF Marked
<1> QED
  BY <1>2, <1>4, SeqDef

\* What a slot is.
LEMMA SlotFacts ==
    ASSUME wave \in [Waves -> Object], NEW o \in Waves
    PROVE  /\ wave[o].trds \in Seq(Slot) /\ Len(wave[o].trds) \in Nat
           /\ Slots(o) = 1..Len(wave[o].trds)
           /\ \A i \in Slots(o) : /\ wave[o].trds[i] \in Slot
                                  /\ wave[o].trds[i].mask \in BOOLEAN
                                  /\ wave[o].trds[i].rec \in Runners \cup {Null}
<1>1. wave[o].trds \in Seq(Slot)
  BY DEF Object
<1>2. Len(wave[o].trds) \in Nat /\ Slots(o) = 1..Len(wave[o].trds)
  BY <1>1 DEF Slots
<1>3. \A i \in Slots(o) : wave[o].trds[i] \in Slot
  BY <1>1, <1>2, ElementOfSeq
<1> QED
  BY <1>1, <1>2, <1>3 DEF Slot

\* The sets that are counted are finite.
LEMMA Counts ==
    ASSUME wave \in [Waves -> Object], NEW o \in Waves
    PROVE  /\ IsFiniteSet(Masked(o)) /\ Cardinality(Masked(o)) \in Nat
           /\ IsFiniteSet(Open(o)) /\ Cardinality(Open(o)) \in Nat
           /\ Cardinality(Open(o)) <= Cardinality(Masked(o))
<1>1. IsFiniteSet(Slots(o))
  BY SlotFacts, FS_Interval
<1>2. Masked(o) \in SUBSET Slots(o)
  BY DEF Masked
<1>3. Open(o) \in SUBSET Masked(o)
  BY DEF Open
<1>4. IsFiniteSet(Masked(o)) /\ Cardinality(Masked(o)) \in Nat
  BY <1>1, <1>2, FS_Subset, FS_CardinalityType
<1> QED
  BY <1>3, <1>4, FS_Subset, FS_CardinalityType

\* The same after the step.
LEMMA CountsNext ==
    ASSUME (wave \in [Waves -> Object])', NEW o \in Waves, NEW S, IsFiniteSet(S),
           Open(o)' \subseteq S
    PROVE  /\ Cardinality(Open(o)') \in Nat /\ Cardinality(S) \in Nat
           /\ Cardinality(Open(o)') <= Cardinality(S)
<1>1. Open(o)' \in SUBSET S
  OBVIOUS
<1> QED
  BY <1>1, FS_Subset, FS_CardinalityType

-----------------------------------------------------------------------------
(* Steps that give no slot a record.                                       *)

LEMMA SlotsKept ==
    ASSUME WavesInv, WavesType', SlotsShrink, RunnersStay, OffStays
    PROVE  OneSlot' /\ Placed' /\ OffWave'
<1>1. OneSlot'
  <2> SUFFICES ASSUME NEW o \in Waves, NEW i \in Slots(o)', wave'[o].trds[i].rec # Null
               PROVE  /\ run'[wave'[o].trds[i].rec].at # "none"
                      /\ run'[wave'[o].trds[i].rec].o = o
                      /\ \A k \in Slots(o)' : wave'[o].trds[k].rec = wave'[o].trds[i].rec => k = i
    BY DEF OneSlot
  <2>1. i \in Slots(o) /\ wave'[o].trds[i].rec = wave[o].trds[i].rec
    BY DEF SlotsShrink
  <2>2. wave[o].trds[i].rec \in Runners
    BY <2>1, SlotFacts DEF WavesInv, WavesType
  <2>3. /\ run[wave[o].trds[i].rec].at # "none" /\ run[wave[o].trds[i].rec].o = o
        /\ \A k \in Slots(o) : wave[o].trds[k].rec = wave[o].trds[i].rec => k = i
    BY <2>1 DEF WavesInv, OneSlot
  <2>4. ASSUME NEW k \in Slots(o)', wave'[o].trds[k].rec = wave'[o].trds[i].rec
        PROVE  k = i
    <3>1. k \in Slots(o) /\ wave'[o].trds[k].rec = wave[o].trds[k].rec
      BY <2>4 DEF SlotsShrink
    <3> QED
      BY <2>1, <2>3, <2>4, <3>1
  <2> QED
    BY <2>1, <2>2, <2>3, <2>4 DEF RunnersStay
<1>2. Placed'
  BY DEF WavesInv, Placed, RunnersStay
<1>3. OffWave'
  <2> SUFFICES ASSUME NEW q \in Runners, run'[q].freed \/ run'[q].at = "unmask", Nowhere(q)
               PROVE  Nowhere(q)'
    BY DEF OffWave, WavesInv, OffStays
  <2> SUFFICES ASSUME NEW o \in Waves, NEW i \in Masked(o)', wave'[o].trds[i].rec = q
               PROVE  FALSE
    BY DEF Nowhere
  <2>1. i \in Slots(o)' /\ wave'[o].trds[i].mask
    BY DEF Masked
  <2>2. i \in Masked(o) /\ wave[o].trds[i].rec = q
    BY <2>1, Initials DEF SlotsShrink, Masked
  <2> QED
    BY <2>2 DEF Nowhere
<1> QED
  BY <1>1, <1>2, <1>3

LEMMA OpenShrinks ==
    ASSUME WavesInv, SlotsShrink, CloseStays, NEW o \in Waves, Live(o)
    PROVE  Open(o)' \subseteq Open(o)
<1> SUFFICES ASSUME NEW i \in Slots(o)', wave'[o].trds[i].mask, wave'[o].trds[i].rec # Null,
                    ~run'[wave'[o].trds[i].rec].close
             PROVE  i \in Open(o)
  BY DEF Open, Masked
<1>1. i \in Masked(o) /\ wave'[o].trds[i].rec = wave[o].trds[i].rec
  BY DEF SlotsShrink, Masked
<1>2. ~run[wave[o].trds[i].rec].close
  BY <1>1 DEF CloseStays
<1> QED
  BY <1>1, <1>2 DEF Open

\* A wave without slots has no thread that counts.
LEMMA OpenEmpty ==
    ASSUME NEW o \in Waves, Slots(o)' = {}
    PROVE  Open(o)' = {} /\ Cardinality(Open(o)') = 0
<1>1. Open(o)' = {}
  BY DEF Open, Masked
<1> QED
  BY <1>1, FS_EmptySet

\* No wave gets more threads that count.
LEMMA OpenKept ==
    ASSUME WavesInv, WavesType', SlotsShrink, CloseStays, WavesStay, NEW o \in Waves, Live(o)'
    PROVE  /\ Cardinality(Open(o)') \in Nat
           /\ \/ /\ Live(o) /\ wave'[o].c = wave[o].c /\ Cardinality(Open(o)) \in Nat
                 /\ Cardinality(Open(o)') <= Cardinality(Open(o))
              \/ ~Live(o) /\ Cardinality(Open(o)') = 0
<1>1. CASE Live(o) /\ wave'[o].c = wave[o].c
  <2>1. IsFiniteSet(Open(o)) /\ Cardinality(Open(o)) \in Nat
    BY Counts DEF WavesInv, WavesType
  <2>2. Open(o)' \subseteq Open(o)
    BY <1>1, OpenShrinks
  <2> QED
    BY <1>1, <2>1, <2>2, CountsNext DEF WavesType
<1>2. CASE ~Live(o) /\ Slots(o)' = {}
  BY <1>2, OpenEmpty
<1> QED
  BY <1>1, <1>2 DEF WavesStay

\* A thread that sends knows the settings, unless the manager has just copied
\* them.
LEMMA SettingsKept ==
    ASSUME WavesInv, WavesType', SlotsShrink, RunnersStay, SendersStay, WavesStay,
           \A o \in Waves : mg.at = "flag" /\ mg.o = o /\ Live(o) => mg'.at = "flag" /\ mg'.o = o
    PROVE  SettingsReach'
<1> SUFFICES ASSUME NEW q \in Runners, NEW o, o = run'[q].o,
                    run'[q].at = "loop", ~run'[q].close, ~run'[q].freed, Live(o)',
                    NEW i \in Masked(o)', wave'[o].trds[i].rec = q
             PROVE  \/ run'[q].tune = wave'[o].c.tune \/ run'[q].base
                    \/ mg'.o = o /\ mg'.at = "flag"
  BY DEF SettingsReach, Live, SlotOf, Masked, Slots
<1>1. o = run[q].o /\ o \in Waves
  BY DEF RunnersStay, WavesInv, Placed
<1>2. i \in Slots(o)' /\ wave'[o].trds[i].mask
  BY DEF Masked
<1>3. i \in Masked(o) /\ wave[o].trds[i].rec = q
  BY <1>1, <1>2, Initials DEF SlotsShrink, Masked
<1>4. Live(o) /\ wave'[o].c = wave[o].c
  BY <1>1, <1>2 DEF WavesStay
<1>5. CASE run'[q].tune = wave[run[q].o].c.tune
  BY <1>1, <1>4, <1>5
<1>6. CASE /\ run[q].at = "loop" /\ ~run[q].close /\ ~run[q].freed
           /\ run'[q].tune = run[q].tune /\ (run[q].base => run'[q].base)
  <2>1. SlotOf(q) # {}
    BY <1>1, <1>3 DEF SlotOf
  <2>2. run[q].tune = wave[o].c.tune \/ run[q].base \/ (mg.o = o /\ mg.at = "flag")
    BY <1>1, <1>4, <1>6, <2>1 DEF WavesInv, SettingsReach
  <2> QED
    BY <1>1, <1>4, <1>6, <2>2
<1> QED
  BY <1>5, <1>6 DEF SendersStay

\* A step that gives no slot a record and does not move the manager at its work
\* on a wave, unless that wave is gone.
LEMMA QuietKeeps ==
    ASSUME WavesInv, WavesType', SlotsShrink, RunnersStay, CloseStays, OffStays, SendersStay,
           WavesStay,
           \/ mg' = mg /\ \A o \in Waves : Live(o)' => Live(o)
           \/ Away /\ Away'
           \/ mg'.at = "wild" /\ mg'.o = mg.o /\ ~Live(mg.o)
    PROVE  WavesInv'
<1>1. OneSlot' /\ Placed' /\ OffWave'
  BY SlotsKept
<1>2. ASSUME NEW o \in Waves, Live(o)'
      PROVE  /\ Cardinality(Open(o)') \in Nat
             /\ \/ /\ Live(o) /\ wave'[o].c = wave[o].c /\ Cardinality(Open(o)) \in Nat
                   /\ Cardinality(Open(o)') <= Cardinality(Open(o))
                \/ ~Live(o) /\ Cardinality(Open(o)') = 0
  BY <1>2, OpenKept
<1>3. mg \in ManagerState /\ mg.n \in Nat /\ mg.c.par \in Nat
  BY DEF WavesInv, WavesType, ManagerState, Cfg
<1>4. \A o \in Waves : wave'[o] \in Object /\ wave'[o].c.par \in Nat
  BY DEF WavesType, Object, Cfg
<1>5. Counted'
  <2>1. CASE mg' = mg /\ \A o \in Waves : Live(o)' => Live(o)
    <3> SUFFICES ASSUME mg.at \in {"start", "create", "retire", "copy", "flag"}
                 PROVE  Counted'
      BY <2>1 DEF Counted
    <3>1. mg.o \in Waves /\ (mg.at \in {"start", "create", "retire"} => mg.n > 0)
      BY DEF WavesInv, Counted
    <3>2. CASE ~Live(mg.o)'
      BY <2>1, <3>1, <3>2 DEF Counted, Live
    <3>3. CASE Live(mg.o)'
      <4>1. PICK o \in Waves : o = mg.o
        BY <3>1
      <4>2. o = mg'.o /\ Live(o)'
        BY <2>1, <3>3, <4>1 DEF Live
      <4>3. Live(o) /\ Cardinality(Open(o)) \in Nat /\ Cardinality(Open(o)') \in Nat
            /\ Cardinality(Open(o)') <= Cardinality(Open(o))
        BY <1>2, <2>1, <4>2
      <4>4. /\ mg.at \in {"start", "create"} => Cardinality(Open(o)) + mg.n <= mg.c.par
            /\ mg.at = "retire" => Cardinality(Open(o)) <= mg.c.par + mg.n
            /\ mg.at = "copy" => Cardinality(Open(o)) <= mg.c.par
        BY <4>1, <4>3 DEF WavesInv, Counted
      <4>5. /\ mg.at \in {"start", "create"} => Cardinality(Open(o)') + mg.n <= mg.c.par
            /\ mg.at = "retire" => Cardinality(Open(o)') <= mg.c.par + mg.n
            /\ mg.at = "copy" => Cardinality(Open(o)') <= mg.c.par
        BY <1>3, <4>3, <4>4
      <4> QED
        BY <2>1, <3>1, <4>1, <4>2, <4>5 DEF Counted, Open, Masked, Slots
    <3> QED
      BY <3>2, <3>3
  <2>2. CASE Away'
    BY <2>2 DEF Away, Counted
  <2>3. CASE mg'.at = "wild"
    BY <2>3 DEF Counted
  <2> QED
    BY <2>1, <2>2, <2>3
<1>6. AtMostPar'
  <2> SUFFICES ASSUME NEW o \in Waves, Live(o)',
                      ~(mg'.o = o /\ mg'.at \in {"start", "create", "retire", "copy"})
               PROVE  Cardinality(Open(o)') <= wave'[o].c.par
    BY DEF AtMostPar, Open
  <2>1. CASE ~Live(o)
    BY <1>2, <1>4, <2>1
  <2>2. CASE Live(o)
    <3>1. ~(mg.o = o /\ mg.at \in {"start", "create", "retire", "copy"})
      BY <2>2 DEF Away
    <3>2. Cardinality(Open(o)) <= wave[o].c.par
      BY <2>2, <3>1 DEF WavesInv, AtMostPar, Open
    <3> QED
      BY <1>2, <1>4, <2>2, <3>2
  <2> QED
    BY <2>1, <2>2
<1>7. SettingsReach'
  <2>1. \A o \in Waves : mg.at = "flag" /\ mg.o = o /\ Live(o) => mg'.at = "flag" /\ mg'.o = o
    BY DEF Away
  <2> QED
    BY <2>1, SettingsKept
<1> QED
  BY <1>1, <1>5, <1>6, <1>7 DEF WavesInv

\* Slots, threads and waves that stay as they are.
LEMMA NothingMoves ==
    /\ wave' = wave => SlotsShrink /\ WavesStay /\ \A o \in Waves : Live(o)' => Live(o)
    /\ run' = run => RunnersStay /\ CloseStays /\ SendersStay
    /\ run' = run => OffStays
  BY DEF SlotsShrink, WavesStay, RunnersStay, CloseStays, SendersStay, OffStays, Live, Slots

\* One slot of a wave gets a new content.
LEMMA EditSlot ==
    ASSUME wave \in [Waves -> Object], NEW o \in Waves, NEW i \in Slots(o), NEW x, x \in Slot,
           wave' = [wave EXCEPT ![o].trds[i] = x]
    PROVE  /\ wave' \in [Waves -> Object] /\ wave'[o].trds = [wave[o].trds EXCEPT ![i] = x]
           /\ \A p \in Waves :
                /\ wave'[p].st = wave[p].st /\ wave'[p].c = wave[p].c /\ Slots(p)' = Slots(p)
                /\ p # o => wave'[p].trds = wave[p].trds
<1>1. wave[o] \in Object /\ wave[o].trds \in Seq(Slot) /\ i \in 1..Len(wave[o].trds)
  BY SlotFacts
<1> DEFINE t == [wave[o].trds EXCEPT ![i] = x]
<1>2. t \in Seq(Slot) /\ DOMAIN t = DOMAIN wave[o].trds
  BY <1>1, ExceptSeq
<1>3. \A k \in DOMAIN wave[o].trds : t[k] = IF k = i THEN x ELSE wave[o].trds[k]
  OBVIOUS
<1>4. wave' = [wave EXCEPT ![o] = [wave[o] EXCEPT !.trds = t]]
  OBVIOUS
<1> HIDE DEF t
<1>5. /\ [wave[o] EXCEPT !.trds = t] \in Object /\ [wave[o] EXCEPT !.trds = t].trds = t
      /\ [wave[o] EXCEPT !.trds = t].st = wave[o].st /\ [wave[o] EXCEPT !.trds = t].c = wave[o].c
  BY <1>1, <1>2 DEF Object
<1>6. wave' \in [Waves -> Object]
  BY <1>4, <1>5
<1>7. \A p \in Waves : wave'[p] = IF p = o THEN [wave[o] EXCEPT !.trds = t] ELSE wave[p]
  BY <1>4
<1> QED
  BY <1>2, <1>3, <1>5, <1>6, <1>7 DEF Slots

\* A step of the loader, of the input or of the manager that leaves waves and
\* threads alone.
LEMMA StillKeeps ==
    ASSUME WavesInv, WavesType', wave' = wave, run' = run,
           \/ mg' = mg
           \/ Away /\ Away'
           \/ mg'.at = "wild" /\ mg'.o = mg.o /\ ~Live(mg.o)
    PROVE  WavesInv'
  BY NothingMoves, QuietKeeps

-----------------------------------------------------------------------------
(* The configuration.                                                      *)

LEMMA LoaderKeeps ==
    ASSUME WavesInv,
           (\E f \in Files : Edit(f)) \/ version_checker \/ ReadConfig \/ SwapConfig \/ Quit
    PROVE  WavesInv'
<1>1. WavesType
  BY DEF WavesInv
<1>2. UNCHANGED <<mg, wave, run>>
  BY DEF Edit, version_checker, ReadConfig, SwapConfig, Quit
<1>3. file' \in Files
  BY <1>1 DEF Edit, version_checker, ReadConfig, SwapConfig, Quit, WavesType, source
<1>4. ld' \in [at : {"idle", "read", "gone"}, read : Files]
  <2>1. \/ ld' = ld \/ ld' = [ld EXCEPT !.at = "gone"]
        \/ ld' = [at |-> "read", read |-> file] \/ ld' = [at |-> "idle", read |-> FirstFile]
    BY DEF Edit, version_checker, ReadConfig, SwapConfig, Quit, loader
  <2>2. file \in Files /\ FirstFile \in Files
        /\ ld \in [at : {"idle", "read", "gone"}, read : Files]
    BY <1>1, WavesAssumption DEF WavesType
  <2>3. CASE ld' = [ld EXCEPT !.at = "gone"]
    BY <2>2, <2>3
  <2>4. CASE ld' = [at |-> "read", read |-> file] \/ ld' = [at |-> "idle", read |-> FirstFile]
    BY <2>2, <2>4
  <2> QED
    BY <2>1, <2>2, <2>3, <2>4
<1>5. loads' \in Nat
  <2>1. loads' = loads \/ loads' = loads + 1
    BY DEF Edit, version_checker, ReadConfig, SwapConfig, Quit, loader
  <2> QED
    BY <1>1, <2>1 DEF WavesType
<1>6. psv' \in Seq(Entry)
  <2>1. psv' = psv \/ psv' = Marked(psv, ld.read)
    BY DEF Edit, version_checker, ReadConfig, SwapConfig, Quit, config
  <2>2. ld.read \in Files
    BY <1>1 DEF WavesType
  <2> QED
    BY <1>1, <2>1, <2>2, MarkedFacts DEF WavesType
<1>7. WavesType'
  BY <1>1, <1>2, <1>3, <1>4, <1>5, <1>6 DEF WavesType
<1> QED
  BY <1>2, <1>7, StillKeeps

-----------------------------------------------------------------------------
(* The threads of a wave.                                                  *)

\* The step of one thread, told from its new record.
LEMMA OneRunner ==
    ASSUME WavesInv, NEW r \in Runners, NEW x \in RunnerState, run' = [run EXCEPT ![r] = x],
           x.o = run[r].o, x.at # "none", run[r].at # "none",
           run[r].close /\ ~x.close =>
               \A o \in Waves : Live(o) => \A i \in Masked(o) : wave[o].trds[i].rec # r,
           x.freed \/ x.at = "unmask" => run[r].freed \/ run[r].at = "unmask" \/ Nowhere(r)',
           x.at = "loop" /\ ~x.close /\ ~x.freed =>
               \/ /\ run[r].at = "loop" /\ ~run[r].close /\ ~run[r].freed
                  /\ x.tune = run[r].tune /\ (run[r].base => x.base)
               \/ x.tune = wave[run[r].o].c.tune
    PROVE  /\ run' \in [Runners -> RunnerState]
           /\ RunnersStay /\ CloseStays /\ OffStays /\ SendersStay
<1>1. run \in [Runners -> RunnerState] /\ wave \in [Waves -> Object]
  BY DEF WavesInv, WavesType
<1>2. run' \in [Runners -> RunnerState] /\ \A q \in Runners : run'[q] = IF q = r THEN x ELSE run[q]
  BY <1>1
<1>3. RunnersStay
  BY <1>2 DEF RunnersStay
<1>4. CloseStays
  <2> SUFFICES ASSUME NEW o \in Waves, NEW i \in Masked(o), Live(o),
                      wave[o].trds[i].rec # Null, run[wave[o].trds[i].rec].close
               PROVE  run'[wave[o].trds[i].rec].close
    BY DEF CloseStays
  <2>1. wave[o].trds[i].rec \in Runners
    BY <1>1, SlotFacts DEF Masked
  <2> QED
    BY <1>2, <2>1
<1>5. OffStays
  <2> SUFFICES ASSUME NEW q \in Runners, run'[q].freed \/ run'[q].at = "unmask"
               PROVE  run[q].freed \/ run[q].at = "unmask" \/ Nowhere(q)'
    BY DEF OffStays
  <2> QED
    BY <1>2
<1>6. SendersStay
  BY <1>2 DEF SendersStay
<1> QED
  BY <1>2, <1>3, <1>4, <1>5, <1>6

LEMMA OverFacts ==
    ASSUME run \in [Runners -> RunnerState], NEW r \in Runners, NEW at \in RunAt
    PROVE  /\ Over(r, at) \in RunnerState
           /\ Over(r, at).at = at /\ Over(r, at).o = run[r].o /\ ~Over(r, at).freed
<1>1. run[r].o \in Waves \cup {Null}
  BY DEF RunnerState
<1> QED
  BY <1>1, Initials DEF Over, NoRunner, RunnerState

\* What a thread does to its own record only.
LEMMA OwnStep ==
    ASSUME WavesInv, NEW r \in Runners,
           FindOwnRecord(r) \/ ReadWave(r) \/ LoopTurn(r) \/ Astray(r)
    PROVE  WavesInv'
<1> USE DEF RunnerFrame
<1>1. UNCHANGED <<file, ld, loads, psv, mg, wave>> /\ run[r].at # "none"
  BY DEF FindOwnRecord, ReadWave, LoopTurn, Astray, source, loader, config
<1>2. /\ run \in [Runners -> RunnerState] /\ run[r] \in RunnerState
      /\ wave \in [Waves -> Object] /\ WavesType
  BY DEF WavesInv, WavesType
<1>3. ASSUME run' \in [Runners -> RunnerState], RunnersStay, CloseStays, OffStays, SendersStay
      PROVE  WavesInv'
  <2>1. WavesType'
    BY <1>1, <1>2, <1>3 DEF WavesType
  <2> QED
    BY <1>1, <1>3, <2>1, NothingMoves, QuietKeeps
<1>4. CASE run' = run
  BY <1>2, <1>3, <1>4, NothingMoves
<1>5. CASE FindOwnRecord(r)
  <2> DEFINE x == [run[r] EXCEPT !.at = "read", !.base = FALSE, !.quota = wave[run[r].o].c.quota]
  <2>1. run' = run \/ run' = [run EXCEPT ![r] = x]
    BY <1>5 DEF FindOwnRecord
  <2>2. run[r].o \in Waves
    BY <1>1 DEF WavesInv, Placed
  <2>3. wave[run[r].o].c.quota \in Nat
    BY <1>2, <2>2 DEF Object, Cfg
  <2>4. x \in RunnerState /\ x.o = run[r].o /\ x.at = "read" /\ x.close = run[r].close
        /\ x.freed = run[r].freed
    BY <1>2, <2>3 DEF RunnerState, RunAt
  <2> HIDE DEF x
  <2> QED
    BY <1>1, <1>3, <1>4, <2>1, <2>4, OneRunner
<1>6. CASE ReadWave(r)
  <2>1. CASE run' = [run EXCEPT ![r].at = "leaving"]
    <3> DEFINE x == [run[r] EXCEPT !.at = "leaving"]
    <3>1. x \in RunnerState /\ x.o = run[r].o /\ x.at = "leaving" /\ x.close = run[r].close
          /\ x.freed = run[r].freed /\ run' = [run EXCEPT ![r] = x]
      BY <1>2, <2>1 DEF RunnerState, RunAt
    <3> HIDE DEF x
    <3> QED
      BY <1>1, <1>3, <3>1, OneRunner
  <2>2. CASE run' = [run EXCEPT ![r].at = "loop", ![r].tune = wave[run[r].o].c.tune]
    <3> DEFINE x == [run[r] EXCEPT !.at = "loop", !.tune = wave[run[r].o].c.tune]
    <3>1. run[r].o \in Waves
      BY <1>1 DEF WavesInv, Placed
    <3>2. wave[run[r].o].c.tune \in Nat
      BY <1>2, <3>1 DEF Object, Cfg
    <3>3. x \in RunnerState /\ x.o = run[r].o /\ x.at = "loop" /\ x.close = run[r].close
          /\ x.freed = run[r].freed /\ x.tune = wave[run[r].o].c.tune
      BY <1>2, <3>2 DEF RunnerState, RunAt
    <3>4. run' = [run EXCEPT ![r] = x]
      BY <2>2
    <3> HIDE DEF x
    <3> QED
      BY <1>1, <1>3, <3>3, <3>4, OneRunner
  <2> QED
    BY <1>6, <2>1, <2>2 DEF ReadWave
<1>7. CASE LoopTurn(r)
  <2>1. CASE Close(r)
    <3> DEFINE x == [run[r] EXCEPT !.at = "leaving"]
    <3>1. x \in RunnerState /\ x.o = run[r].o /\ x.at = "leaving" /\ x.close = run[r].close
          /\ x.freed = run[r].freed /\ run' = [run EXCEPT ![r] = x]
      BY <1>2, <2>1 DEF Close, Goto, RunnerState, RunAt
    <3> HIDE DEF x
    <3> QED
      BY <1>1, <1>3, <3>1, OneRunner
  <2>2. CASE Reread(r)
    <3> DEFINE x == [run[r] EXCEPT !.at = "read", !.base = FALSE]
    <3>1. x \in RunnerState /\ x.o = run[r].o /\ x.at = "read" /\ x.close = run[r].close
          /\ x.freed = run[r].freed /\ run' = [run EXCEPT ![r] = x]
      BY <1>2, <2>2 DEF Reread, RunnerState, RunAt
    <3> HIDE DEF x
    <3> QED
      BY <1>1, <1>3, <3>1, OneRunner
  <2>3. CASE Send(r)
    <3> DEFINE a == IF run[r].quota = 1 THEN "leaving" ELSE "loop"
               x == [run[r] EXCEPT !.quota = run[r].quota - 1, !.at = a]
    <3>1. run' = [run EXCEPT ![r] = x]
      BY <2>3 DEF Send
    <3>2. run[r].quota - 1 \in Nat
      BY <1>2, <2>3 DEF Send, RunnerState
    <3>3. a \in {"leaving", "loop"}
      OBVIOUS
    <3> HIDE DEF a
    <3>4. /\ x \in RunnerState /\ x.o = run[r].o /\ x.at \in {"leaving", "loop"}
          /\ x.close = run[r].close /\ x.freed = run[r].freed
          /\ x.tune = run[r].tune /\ x.base = run[r].base
      BY <1>2, <3>2, <3>3 DEF RunnerState, RunAt
    <3>5. run[r].at = "loop"
      BY <1>7 DEF LoopTurn
    <3> HIDE DEF x
    <3> QED
      BY <1>1, <1>3, <3>1, <3>4, <3>5, OneRunner
  <2> QED
    BY <1>7, <2>1, <2>2, <2>3 DEF LoopTurn
<1>8. CASE Astray(r)
  <2> DEFINE x == Over(r, "wild")
  <2>1. run' = [run EXCEPT ![r] = x]
    BY <1>8 DEF Astray
  <2>2. x \in RunnerState /\ x.at = "wild" /\ x.o = run[r].o /\ ~x.freed
    BY <1>2, OverFacts DEF RunAt
  <2>3. ASSUME NEW o \in Waves, Live(o), NEW i \in Masked(o), wave[o].trds[i].rec = r
        PROVE  FALSE
    <3>1. run[r].o = o
      BY <2>3, Initials DEF WavesInv, OneSlot, Masked
    <3>2. ~run[r].freed
      BY <2>3 DEF WavesInv, OffWave, Nowhere
    <3> QED
      BY <1>8, <2>3, <3>1, <3>2 DEF Astray, Live
  <2> HIDE DEF x
  <2> QED
    BY <1>1, <1>3, <2>1, <2>2, <2>3, OneRunner
<1> QED
  BY <1>5, <1>6, <1>7, <1>8

\* Clearing the own mask leaves no masked slot with the own record.
LEMMA ClearMaskKeeps ==
    ASSUME WavesInv, NEW r \in Runners, ClearMask(r)
    PROVE  WavesInv'
<1>0. PICK o \in Waves : o = run[r].o
  BY DEF ClearMask, WavesInv, Placed
<1>1. /\ UNCHANGED <<file, ld, loads, psv, mg>> /\ run[r].at = "leaving" /\ Live(o)
  BY <1>0 DEF ClearMask, RunnerFrame, source, loader, config
<1>2. /\ run \in [Runners -> RunnerState] /\ run[r] \in RunnerState
      /\ wave \in [Waves -> Object] /\ WavesType
  BY DEF WavesInv, WavesType
<1>3. CASE wave' = wave /\ run' = run
  <2>1. WavesType'
    BY <1>1, <1>2, <1>3 DEF WavesType
  <2> QED
    BY <1>1, <1>3, <2>1, StillKeeps
<1>4. ASSUME NEW at \in {"drop", "gone"}, wave' = wave, SlotOf(r) = {},
             run' = [run EXCEPT ![r] = Over(r, at)]
      PROVE  WavesInv'
  <2> DEFINE x == Over(r, at)
  <2>1. x \in RunnerState /\ x.at = at /\ x.o = run[r].o /\ ~x.freed
    BY <1>2, OverFacts DEF RunAt
  <2>2. run' = [run EXCEPT ![r] = x]
    BY <1>4
  <2>3. ASSUME NEW p \in Waves, NEW i \in Masked(p), wave[p].trds[i].rec = r
        PROVE  FALSE
    <3>1. run[r].o = p
      BY <2>3, Initials DEF WavesInv, OneSlot, Masked
    <3> QED
      BY <1>4, <2>3, <3>1 DEF SlotOf
  <2> HIDE DEF x
  <2>4. run' \in [Runners -> RunnerState] /\ RunnersStay /\ CloseStays /\ OffStays /\ SendersStay
    BY <1>1, <2>1, <2>2, <2>3, OneRunner
  <2>5. WavesType'
    BY <1>1, <1>2, <1>4, <2>4 DEF WavesType
  <2> QED
    BY <1>1, <1>4, <2>4, <2>5, NothingMoves, QuietKeeps
<1>5. ASSUME NEW i \in SlotOf(r), wave' = [wave EXCEPT ![o].trds[i].mask = FALSE],
             run' = [run EXCEPT ![r].at = "unmask", ![r].slot = i]
      PROVE  WavesInv'
  <2> DEFINE x == [run[r] EXCEPT !.at = "unmask", !.slot = i]
  <2>1. i \in Slots(o) /\ wave[o].trds[i].mask /\ wave[o].trds[i].rec = r
    BY <1>0, <1>5 DEF SlotOf, Masked
  <2>2. i \in Nat /\ wave[o].trds[i] \in Slot
    BY <1>1, <1>2, <2>1, SlotFacts
  <2>3. x \in RunnerState /\ x.o = run[r].o /\ x.at = "unmask" /\ x.close = run[r].close
    BY <1>2, <2>2 DEF RunnerState, RunAt
  <2>4. run' = [run EXCEPT ![r] = x]
    BY <1>5
  <2>5. PICK y : y = [wave[o].trds[i] EXCEPT !.mask = FALSE]
    OBVIOUS
  <2>6. y \in Slot /\ ~y.mask /\ y.rec = r
    BY <2>1, <2>2, <2>5 DEF Slot
  <2> HIDE DEF x
  <2>7. /\ wave' \in [Waves -> Object]
        /\ \A p \in Waves :
             /\ wave'[p].st = wave[p].st /\ wave'[p].c = wave[p].c /\ Slots(p)' = Slots(p)
        /\ \A p \in Waves : \A k \in Slots(p) :
             \/ p = o /\ k = i /\ wave'[p].trds[k] = y
             \/ (p # o \/ k # i) /\ wave'[p].trds[k] = wave[p].trds[k]
    <3>1. wave' = [wave EXCEPT ![o].trds[i] = y]
      BY <1>5, <2>5
    <3>2. /\ wave' \in [Waves -> Object] /\ wave'[o].trds = [wave[o].trds EXCEPT ![i] = y]
          /\ \A p \in Waves :
               /\ wave'[p].st = wave[p].st /\ wave'[p].c = wave[p].c /\ Slots(p)' = Slots(p)
               /\ p # o => wave'[p].trds = wave[p].trds
      BY <1>2, <2>1, <2>6, <3>1, EditSlot
    <3> QED
      BY <3>2 DEF Slots
  <2>8. SlotsShrink
    BY <2>1, <2>6, <2>7 DEF SlotsShrink
  <2>9. WavesStay /\ \A p \in Waves : Live(p)' => Live(p)
    BY <2>7 DEF WavesStay, Live
  <2>10. Nowhere(r)'
    <3> SUFFICES ASSUME NEW p \in Waves, NEW k \in Slots(p), wave'[p].trds[k].mask,
                        wave'[p].trds[k].rec = r
                 PROVE  FALSE
      BY <2>7 DEF Nowhere, Masked
    <3>1. wave[p].trds[k].rec = r
      BY <2>1, <2>6, <2>7
    <3>2. p = o /\ k = i
      BY <2>1, <3>1, Initials DEF WavesInv, OneSlot
    <3> QED
      BY <2>6, <2>7, <3>2
  <2>11. run' \in [Runners -> RunnerState] /\ RunnersStay /\ CloseStays /\ OffStays /\ SendersStay
    BY <1>1, <2>3, <2>4, <2>10, OneRunner
  <2>12. WavesType'
    BY <1>1, <1>2, <2>7, <2>11 DEF WavesType
  <2> QED
    BY <1>1, <2>8, <2>9, <2>11, <2>12, QuietKeeps
<1> QED
  BY <1>0, <1>3, <1>4, <1>5 DEF ClearMask

\* The record that is freed is in no slot afterwards.
LEMMA FreeRecordKeeps ==
    ASSUME WavesInv, NEW r \in Runners, FreeRecord(r)
    PROVE  WavesInv'
<1>0. PICK o \in Waves, i \in Nat : o = run[r].o /\ i = run[r].slot
  BY DEF FreeRecord, WavesInv, WavesType, RunnerState, Placed
<1>1. /\ UNCHANGED <<file, ld, loads, psv, mg>> /\ run[r].at = "unmask" /\ Live(o)
  BY <1>0 DEF FreeRecord, RunnerFrame, source, loader, config
<1>2. /\ run \in [Runners -> RunnerState] /\ run[r] \in RunnerState
      /\ wave \in [Waves -> Object] /\ WavesType
  BY DEF WavesInv, WavesType
<1>3. CASE wave' = wave /\ run' = run
  <2>1. WavesType'
    BY <1>1, <1>2, <1>3 DEF WavesType
  <2> QED
    BY <1>1, <1>3, <2>1, StillKeeps
<1>4. ASSUME i \in Slots(o), wave' = [wave EXCEPT ![o].trds[i].rec = Null],
             NEW at \in {"drop", "gone"},
             run' = [q \in Runners |->
                       IF q = r THEN Over(r, at)
                       ELSE [run[q] EXCEPT !.freed = @ \/ q = wave[o].trds[i].rec]]
      PROVE  WavesInv'
  <2>1. PICK y : y = [wave[o].trds[i] EXCEPT !.rec = Null]
    OBVIOUS
  <2>2. y \in Slot /\ y.rec = Null
    BY <1>2, <1>4, <2>1, SlotFacts DEF Slot
  <2>3. /\ wave' \in [Waves -> Object]
        /\ \A p \in Waves :
             /\ wave'[p].st = wave[p].st /\ wave'[p].c = wave[p].c /\ Slots(p)' = Slots(p)
        /\ \A p \in Waves : \A k \in Slots(p) :
             \/ p = o /\ k = i /\ wave'[p].trds[k] = y
             \/ (p # o \/ k # i) /\ wave'[p].trds[k] = wave[p].trds[k]
    <3>1. wave' = [wave EXCEPT ![o].trds[i] = y]
      BY <1>4, <2>1
    <3>2. /\ wave' \in [Waves -> Object] /\ wave'[o].trds = [wave[o].trds EXCEPT ![i] = y]
          /\ \A p \in Waves :
               /\ wave'[p].st = wave[p].st /\ wave'[p].c = wave[p].c /\ Slots(p)' = Slots(p)
               /\ p # o => wave'[p].trds = wave[p].trds
      <4>1. i \in Slots(o)
        BY <1>4
      <4> QED
        BY <1>2, <2>2, <3>1, <4>1, EditSlot
    <3> QED
      BY <3>2 DEF Slots
  <2>4. SlotsShrink
    BY <2>2, <2>3 DEF SlotsShrink
  <2>5. WavesStay /\ \A p \in Waves : Live(p)' => Live(p)
    BY <2>3 DEF WavesStay, Live
  <2>6. Over(r, at) \in RunnerState /\ Over(r, at).at = at /\ Over(r, at).o = o
        /\ ~Over(r, at).freed
    BY <1>0, <1>2, OverFacts DEF RunAt
  <2>7. ASSUME NEW q \in Runners, q # r
        PROVE  /\ run'[q] \in RunnerState
               /\ run'[q].at = run[q].at /\ run'[q].o = run[q].o /\ run'[q].close = run[q].close
               /\ run'[q].tune = run[q].tune /\ run'[q].base = run[q].base
               /\ run'[q].freed <=> run[q].freed \/ q = wave[o].trds[i].rec
    <3> DEFINE hit == q = wave[o].trds[i].rec
    <3>1. run'[q] = [run[q] EXCEPT !.freed = run[q].freed \/ hit] /\ run[q] \in RunnerState
      BY <1>2, <1>4, <2>7
    <3>2. hit \in BOOLEAN /\ (run[q].freed \/ hit) \in BOOLEAN
      OBVIOUS
    <3>3. hit <=> q = wave[o].trds[i].rec
      OBVIOUS
    <3> HIDE DEF hit
    <3> QED
      BY <3>1, <3>2, <3>3 DEF RunnerState
  <2>8. run'[r] = Over(r, at)
    BY <1>4
  <2>9. run' \in [Runners -> RunnerState]
    <3>1. run' = [q \in Runners |-> run'[q]]
      BY <1>4
    <3> QED
      BY <2>6, <2>7, <2>8, <3>1
  <2>10. RunnersStay
    <3>1. ASSUME NEW q \in Runners, q # r, run'[q].freed
          PROVE  run[q].freed \/ run[q].at # "none"
      <4>1. run[q].freed \/ q = wave[o].trds[i].rec
        BY <2>7, <3>1
      <4>2. q # Null /\ i \in Slots(o)
        BY <1>4, Initials
      <4>3. q = wave[o].trds[i].rec => run[q].at # "none"
        BY <4>2 DEF WavesInv, OneSlot
      <4> QED
        BY <4>1, <4>3
    <3> QED
      BY <1>0, <1>1, <2>6, <2>7, <2>8, <3>1 DEF RunnersStay
  <2>11. CloseStays
    <3> SUFFICES ASSUME NEW p \in Waves, NEW k \in Masked(p), wave[p].trds[k].rec # Null,
                        run[wave[p].trds[k].rec].close
                 PROVE  run'[wave[p].trds[k].rec].close
      BY DEF CloseStays
    <3>1. wave[p].trds[k].rec \in Runners
      BY <1>2, SlotFacts DEF Masked
    <3>2. wave[p].trds[k].rec # r
      BY <1>1 DEF WavesInv, OffWave, Nowhere
    <3> QED
      BY <2>7, <3>1, <3>2
  <2>12. OffStays
    <3> SUFFICES ASSUME NEW q \in Runners, run'[q].freed \/ run'[q].at = "unmask",
                        ~(run[q].freed \/ run[q].at = "unmask")
                 PROVE  Nowhere(q)'
      BY DEF OffStays
    <3>1. q # r
      BY <1>1
    <3>2. q = wave[o].trds[i].rec
      BY <2>7, <3>1
    <3> SUFFICES ASSUME NEW p \in Waves, NEW k \in Slots(p), wave'[p].trds[k].rec = q
                 PROVE  FALSE
      BY <2>3 DEF Nowhere, Masked
    <3>3. ~(p = o /\ k = i) /\ wave[p].trds[k].rec = q
      BY <2>2, <2>3, Initials
    <3>4. q # Null
      BY Initials
    <3>5. /\ run[q].o = o
          /\ \A h \in Slots(o) : wave[o].trds[h].rec = q => h = i
      <4>1. OneSlot /\ i \in Slots(o)
        BY <1>4 DEF WavesInv
      <4>2. wave[o].trds[i].rec # Null
        BY <3>2, <3>4
      <4>3. /\ run[wave[o].trds[i].rec].o = o
            /\ \A h \in Slots(o) : wave[o].trds[h].rec = wave[o].trds[i].rec => h = i
        BY <4>1, <4>2 DEF OneSlot
      <4> QED
        BY <3>2, <4>3
    <3>6. run[q].o = p
      BY <3>3, <3>4 DEF WavesInv, OneSlot
    <3> QED
      BY <3>3, <3>5, <3>6
  <2>13. SendersStay
    <3> SUFFICES ASSUME NEW q \in Runners, run'[q].at = "loop", ~run'[q].close, ~run'[q].freed
                 PROVE  /\ run[q].at = "loop" /\ ~run[q].close /\ ~run[q].freed
                        /\ run'[q].tune = run[q].tune /\ (run[q].base => run'[q].base)
      BY DEF SendersStay
    <3>1. q # r
      BY <2>6, <2>8
    <3> QED
      BY <2>7, <3>1
  <2>14. WavesType'
    BY <1>1, <1>2, <2>3, <2>9 DEF WavesType
  <2> QED
    BY <1>1, <2>4, <2>5, <2>10, <2>11, <2>12, <2>13, <2>14, QuietKeeps
<1> QED
  BY <1>0, <1>3, <1>4 DEF FreeRecord

LEMMA DropArraysKeeps ==
    ASSUME WavesInv, NEW r \in Runners, DropArrays(r)
    PROVE  WavesInv'
<1> DEFINE o == run[r].o
           x == [run[r] EXCEPT !.at = "gone"]
           y == [wave[o] EXCEPT !.trds = << >>]
<1>1. /\ UNCHANGED <<file, ld, loads, psv, mg>> /\ run[r].at = "drop" /\ o \in Waves
      /\ run' = [run EXCEPT ![r] = x] /\ wave' = [wave EXCEPT ![o] = y]
  BY DEF DropArrays, Goto, RunnerFrame, source, loader, config, WavesInv, Placed
<1>2. /\ run \in [Runners -> RunnerState] /\ run[r] \in RunnerState
      /\ wave \in [Waves -> Object] /\ WavesType
  BY DEF WavesInv, WavesType
<1>3. x \in RunnerState /\ x.o = run[r].o /\ x.at = "gone" /\ x.close = run[r].close
      /\ x.freed = run[r].freed
  BY <1>2 DEF RunnerState, RunAt
<1>4. y \in Object /\ y.st = wave[o].st /\ y.c = wave[o].c /\ y.trds = << >>
  <2>1. wave[o] \in Object /\ << >> \in Seq(Slot)
    BY <1>1, <1>2
  <2> QED
    BY <2>1 DEF Object
<1> HIDE DEF x, y, o
<1>5. wave' \in [Waves -> Object] /\ \A p \in Waves : wave'[p] = IF p = o THEN y ELSE wave[p]
  BY <1>1, <1>2, <1>4
<1>6. \A p \in Waves : Slots(p)' = IF p = o THEN {} ELSE Slots(p)
  BY <1>4, <1>5 DEF Slots
<1>7. SlotsShrink
  BY <1>5, <1>6 DEF SlotsShrink
<1>8. WavesStay /\ \A p \in Waves : Live(p)' => Live(p)
  BY <1>4, <1>5 DEF WavesStay, Live
<1>9. run' \in [Runners -> RunnerState] /\ RunnersStay /\ CloseStays /\ OffStays /\ SendersStay
  BY <1>1, <1>3, OneRunner
<1>10. WavesType'
  BY <1>1, <1>2, <1>5, <1>9 DEF WavesType
<1> QED
  BY <1>1, <1>7, <1>8, <1>9, <1>10, QuietKeeps

-----------------------------------------------------------------------------
(* The manager between two waves.                                          *)

LEMMA ManagerTurns ==
    ASSUME WavesInv, ManagerStarts \/ ManagerCloses \/ PassStarts \/ OldDone \/ PassDone
    PROVE  WavesInv'
<1>1. UNCHANGED <<file, ld, loads, psv, wave, run>>
  BY DEF ManagerStarts, ManagerCloses, PassStarts, OldDone, PassDone, ManagerFrame, source,
         loader, config
<1>2. WavesType /\ mg \in ManagerState
  BY DEF WavesInv, WavesType
<1>3. mg' \in ManagerState /\ Away /\ Away'
  <2>1. CASE mg' = Manager /\ mg.at = "new"
    BY <2>1, Initials DEF Manager, Away
  <2>2. ASSUME NEW at \in {"top", "done"}, mg' = [mg EXCEPT !.at = at], Away
        PROVE  mg' \in ManagerState /\ Away /\ Away'
    BY <1>2, <2>2 DEF ManagerState, MgrAt, Away
  <2>3. ASSUME NEW at \in {"old", "new"}, mg' = [mg EXCEPT !.at = at, !.i = 1], Away
        PROVE  mg' \in ManagerState /\ Away /\ Away'
    <3>1. 1 \in Nat \ {0} /\ at \in MgrAt
      BY DEF MgrAt
    <3>2. mg' \in ManagerState /\ mg'.at = at
      BY <1>2, <2>3, <3>1 DEF ManagerState
    <3> QED
      BY <2>3, <3>2 DEF Away
  <2>4. CASE ManagerStarts \/ ManagerCloses
    BY <2>2, <2>4 DEF ManagerStarts, ManagerCloses, Away
  <2>5. CASE PassStarts \/ OldDone
    BY <2>3, <2>5 DEF PassStarts, OldDone, Away
  <2> QED
    BY <2>1, <2>4, <2>5 DEF PassDone
<1>4. WavesType'
  BY <1>1, <1>2, <1>3 DEF WavesType
<1> QED
  BY <1>1, <1>3, <1>4, StillKeeps

\* Threads that are told to close, or are left alone.
LEMMA SomeClose ==
    ASSUME WavesInv, run' = [q \in Runners |-> run'[q]],
           \A q \in Runners : run'[q] = run[q] \/ run'[q] = [run[q] EXCEPT !.close = TRUE]
    PROVE  /\ run' \in [Runners -> RunnerState]
           /\ RunnersStay /\ CloseStays /\ OffStays /\ SendersStay
<1>1. run \in [Runners -> RunnerState] /\ wave \in [Waves -> Object]
  BY DEF WavesInv, WavesType
<1>2. ASSUME NEW q \in Runners
      PROVE  /\ run'[q] \in RunnerState
             /\ run'[q].at = run[q].at /\ run'[q].o = run[q].o /\ run'[q].tune = run[q].tune
             /\ run'[q].base = run[q].base /\ run'[q].freed = run[q].freed
             /\ run[q].close => run'[q].close
  <2>1. CASE run'[q] = run[q]
    BY <1>1, <2>1
  <2>2. CASE run'[q] = [run[q] EXCEPT !.close = TRUE]
    <3>1. PICK x : x = [run[q] EXCEPT !.close = TRUE]
      OBVIOUS
    <3>2. run[q] \in RunnerState
      BY <1>1
    <3>3. x \in RunnerState /\ x.close
      BY <3>1, <3>2 DEF RunnerState
    <3>4. /\ x.at = run[q].at /\ x.o = run[q].o /\ x.tune = run[q].tune
          /\ x.base = run[q].base /\ x.freed = run[q].freed
      BY <3>1, <3>2 DEF RunnerState
    <3> QED
      BY <2>2, <3>1, <3>3, <3>4
  <2> QED
    BY <2>1, <2>2
<1>3. run' \in [Runners -> RunnerState]
  BY <1>2
<1>4. RunnersStay /\ OffStays
  BY <1>2 DEF RunnersStay, OffStays
<1>5. SendersStay
  BY <1>2 DEF SendersStay
<1>6. CloseStays
  <2> SUFFICES ASSUME NEW o \in Waves, NEW i \in Masked(o), Live(o),
                      wave[o].trds[i].rec # Null, run[wave[o].trds[i].rec].close
               PROVE  run'[wave[o].trds[i].rec].close
    BY DEF CloseStays
  <2>1. wave[o].trds[i].rec \in Runners
    BY <1>1, SlotFacts DEF Masked
  <2> QED
    BY <1>2, <2>1
<1> QED
  BY <1>3, <1>4, <1>5, <1>6

\* Waves that are removed, with their first thread told to close.
LEMMA RemovalKeeps ==
    ASSUME WavesInv, NEW os, remove_wave(os), UNCHANGED <<file, ld, loads, psv>>,
           mg' \in ManagerState, mg' = mg \/ (Away /\ Away')
    PROVE  WavesInv'
<1>1. /\ run \in [Runners -> RunnerState] /\ wave \in [Waves -> Object] /\ WavesType
  BY DEF WavesInv, WavesType
<1>2. CASE wave' = wave /\ run' = run
  <2>1. WavesType'
    BY <1>1, <1>2 DEF WavesType
  <2> QED
    BY <1>2, <2>1, StillKeeps
<1>3. CASE /\ wave' = [o \in Waves |-> IF o \in os THEN [wave[o] EXCEPT !.st = "freed"] ELSE wave[o]]
           /\ run' = [r \in Runners |->
                        IF \E o \in os : Masked(o) # {} /\ wave[o].trds[1].rec = r
                        THEN [run[r] EXCEPT !.close = TRUE] ELSE run[r]]
  <2>1. run' = [q \in Runners |-> run'[q]]
    BY <1>3
  <2>2. \A q \in Runners : run'[q] = run[q] \/ run'[q] = [run[q] EXCEPT !.close = TRUE]
    BY <1>3
  <2>3. run' \in [Runners -> RunnerState] /\ RunnersStay /\ CloseStays /\ OffStays /\ SendersStay
    BY <2>1, <2>2, SomeClose
  <2>4. ASSUME NEW o \in Waves
        PROVE  /\ wave'[o] \in Object /\ wave'[o].trds = wave[o].trds /\ wave'[o].c = wave[o].c
               /\ wave'[o].st = wave[o].st \/ wave'[o].st = "freed"
    BY <1>1, <1>3 DEF Object
  <2>5. wave' \in [Waves -> Object]
    <3>1. wave' = [o \in Waves |-> wave'[o]]
      BY <1>3
    <3> QED
      BY <2>4, <3>1
  <2>6. SlotsShrink
    BY <2>4 DEF SlotsShrink, Slots
  <2>7. WavesStay /\ \A o \in Waves : Live(o)' => Live(o)
    BY <2>4 DEF WavesStay, Live
  <2>8. WavesType'
    BY <1>1, <2>3, <2>5 DEF WavesType
  <2> QED
    BY <2>3, <2>6, <2>7, <2>8, QuietKeeps
<1> QED
  BY <1>2, <1>3 DEF remove_wave

LEMMA RstKeeps ==
    ASSUME WavesInv, Rst
    PROVE  WavesInv'
<1>1. UNCHANGED <<file, ld, loads, psv, mg>> /\ mg \in ManagerState
  BY DEF Rst, source, loader, WavesInv, WavesType
<1>2. PICK os : os = {o \in Waves : Live(o) /\ wave[o].id \in Ids(psv)}
  OBVIOUS
<1>3. remove_wave(os)
  BY <1>2 DEF Rst
<1> QED
  BY <1>1, <1>3, RemovalKeeps

\* The manager turns to the waves of one entry.
LEMMA ApplyStarts ==
    ASSUME WavesType, NEW j \in DOMAIN psv, NEW ret \in {"old", "new"}, NEW t \in SUBSET Waves,
           mg' = [mg EXCEPT !.at = "apply", !.ret = ret, !.i = @ + 1, !.j = j, !.gen = loads,
                            !.c = psv[j].c, !.todo = t]
    PROVE  mg' \in ManagerState /\ mg'.at = "apply"
<1>1. mg \in ManagerState /\ loads \in Nat /\ mg.i + 1 \in Nat \ {0}
  BY DEF WavesType, ManagerState
<1>2. psv[j] \in Entry /\ j \in Nat
  BY ElementOfSeq DEF WavesType
<1>3. psv[j].c \in Cfg
  BY <1>2 DEF Entry
<1> QED
  BY <1>1, <1>2, <1>3 DEF ManagerState, MgrAt

LEMMA OldEntryKeeps ==
    ASSUME WavesInv, OldEntry
    PROVE  WavesInv'
<1>1. UNCHANGED <<file, ld, loads, psv>> /\ mg.at = "old" /\ WavesType /\ Away
  BY DEF OldEntry, ManagerFrame, source, loader, config, WavesInv, Away
<1>2. PICK id : id = prev[mg.i].id
  OBVIOUS
<1>3. CASE \E j \in Changed(id) : StartApply(id, j, "old", wave) /\ UNCHANGED <<wave, run>>
  <2>1. PICK j \in DOMAIN psv : StartApply(id, j, "old", wave) /\ UNCHANGED <<wave, run>>
    BY <1>3 DEF Changed
  <2>2. PICK t : t = {o \in Waves : wave[o].st = "live" /\ wave[o].id = id}
    OBVIOUS
  <2>3. t \in SUBSET Waves
    BY <2>2
  <2>4. mg' \in ManagerState /\ mg'.at = "apply"
    BY <1>1, <2>1, <2>2, <2>3, ApplyStarts DEF StartApply
  <2>5. WavesType'
    BY <1>1, <2>1, <2>4 DEF WavesType
  <2> QED
    BY <1>1, <2>1, <2>4, <2>5, StillKeeps DEF Away
<1>4. CASE remove_wave(Matching(id)) /\ mg' = [mg EXCEPT !.i = @ + 1]
  <2>1. PICK os : os = Matching(id)
    OBVIOUS
  <2>2. mg' \in ManagerState /\ mg'.at = "old"
    <3>1. mg \in ManagerState /\ mg.i + 1 \in Nat \ {0}
      BY <1>1 DEF WavesType, ManagerState
    <3> QED
      BY <1>1, <1>4, <3>1 DEF ManagerState
  <2> QED
    BY <1>1, <1>4, <2>1, <2>2, RemovalKeeps DEF Away
<1> QED
  BY <1>2, <1>3, <1>4 DEF OldEntry

\* A new wave has no slots yet.
LEMMA NewEntryKeeps ==
    ASSUME WavesInv, NewEntry
    PROVE  WavesInv'
<1>1. /\ UNCHANGED <<file, ld, loads, psv, run>> /\ mg.at = "new" /\ WavesType /\ Away
      /\ mg.i \in 1..Len(psv)
  BY DEF NewEntry, ManagerFrame, source, loader, config, WavesInv, WavesType, ManagerState, Away
<1>2. mg \in ManagerState /\ mg.i + 1 \in Nat \ {0} /\ mg.i \in DOMAIN psv /\ psv[mg.i] \in Entry
  BY <1>1, ElementOfSeq DEF WavesType, ManagerState
<1>3. CASE mg' = [mg EXCEPT !.i = @ + 1] /\ wave' = wave
  <2>1. mg' \in ManagerState /\ mg'.at = "new"
    BY <1>1, <1>2, <1>3 DEF ManagerState
  <2>2. WavesType'
    BY <1>1, <1>3, <2>1 DEF WavesType
  <2> QED
    BY <1>1, <1>3, <2>1, <2>2, StillKeeps DEF Away
<1>4. ASSUME NEW o \in Waves, wave[o].st = "none",
             wave' = [wave EXCEPT ![o] = [NoWave EXCEPT !.st = "live", !.id = psv[mg.i].id,
                                                        !.c = psv[mg.i].c]],
             StartApply(psv[mg.i].id, mg.i, "new", wave')
      PROVE  WavesInv'
  <2>1. PICK j : j = mg.i
    OBVIOUS
  <2>2. PICK t : t = {p \in Waves : wave'[p].st = "live" /\ wave'[p].id = psv[mg.i].id}
    OBVIOUS
  <2>3. t \in SUBSET Waves
    BY <2>2
  <2>4. mg' \in ManagerState /\ mg'.at = "apply"
    BY <1>1, <1>2, <1>4, <2>1, <2>2, <2>3, ApplyStarts DEF StartApply
  <2>5. PICK x : x = [NoWave EXCEPT !.st = "live", !.id = psv[mg.i].id, !.c = psv[mg.i].c]
    OBVIOUS
  <2>6. x \in Object /\ x.st = "live" /\ x.trds = << >>
    BY <1>2, <2>5, Initials DEF Object, Entry, NoWave
  <2>7. wave' \in [Waves -> Object] /\ \A p \in Waves : wave'[p] = IF p = o THEN x ELSE wave[p]
    BY <1>1, <1>4, <2>5, <2>6 DEF WavesType
  <2>8. \A p \in Waves : Slots(p)' = IF p = o THEN {} ELSE Slots(p)
    BY <2>6, <2>7 DEF Slots
  <2>9. SlotsShrink
    BY <2>7, <2>8 DEF SlotsShrink
  <2>10. WavesStay
    BY <1>4, <2>6, <2>7, <2>8 DEF WavesStay, Live
  <2>11. WavesType'
    BY <1>1, <2>4, <2>7 DEF WavesType
  <2>12. RunnersStay /\ CloseStays /\ OffStays /\ SendersStay
    BY <1>1, NothingMoves
  <2> QED
    BY <1>1, <2>4, <2>9, <2>10, <2>11, <2>12, QuietKeeps DEF Away
<1> QED
  BY <1>3, <1>4 DEF NewEntry

-----------------------------------------------------------------------------
(* The manager at work on a wave.                                          *)

\* What the arrays of a wave grow by is free.
LEMMA GrownFacts ==
    ASSUME NEW t \in Seq(Slot), NEW n \in Nat
    PROVE  /\ Grown(t, n) \in Seq(Slot)
           /\ \A i \in DOMAIN Grown(t, n) :
                \/ Grown(t, n)[i].rec = Null
                \/ i \in DOMAIN t /\ Grown(t, n)[i] = t[i]
<1> DEFINE m == IF n > Len(t) THEN n - Len(t) ELSE 0
           e == [k \in 1..m |-> [mask |-> FALSE, rec |-> Null]]
<1>1. m \in Nat /\ Len(t) \in Nat
  OBVIOUS
<1> HIDE DEF m
<1>2. [mask |-> FALSE, rec |-> Null] \in Slot
  BY DEF Slot
<1>3. e \in Seq(Slot) /\ Len(e) = m /\ \A k \in 1..m : e[k].rec = Null
  <2>1. e \in [1..m -> Slot] /\ \A k \in 1..m : e[k].rec = Null
    BY <1>2
  <2> HIDE DEF e
  <2>2. e \in Seq(Slot)
    BY <1>1, <2>1, SeqDef
  <2>3. Len(e) = m
    BY <1>1, <2>1, <2>2
  <2> QED
    BY <2>1, <2>2, <2>3
<1>4. Grown(t, n) = t \o e
  BY DEF Grown, m
<1> HIDE DEF e
<1>5. /\ t \o e \in Seq(Slot) /\ Len(t \o e) = Len(t) + m
      /\ \A i \in 1..Len(t) + m : (t \o e)[i] = IF i <= Len(t) THEN t[i] ELSE e[i - Len(t)]
  BY <1>1, <1>3, ConcatProperties
<1>6. ASSUME NEW i \in 1..Len(t) + m
      PROVE  (t \o e)[i].rec = Null \/ (i \in DOMAIN t /\ (t \o e)[i] = t[i])
  <2>1. CASE i <= Len(t)
    BY <1>1, <1>5, <2>1
  <2>2. CASE i > Len(t)
    <3>1. i - Len(t) \in 1..m
      BY <1>1, <2>2
    <3> QED
      BY <1>1, <1>3, <1>5, <2>2, <3>1
  <2>3. i <= Len(t) \/ i > Len(t)
    BY <1>1
  <2> QED
    BY <2>1, <2>2, <2>3
<1> QED
  BY <1>4, <1>5, <1>6

\* A step of the manager's work on a wave that gives no slot a record and
\* leaves the counting right.
LEMMA WorkKeeps ==
    ASSUME WavesInv, WavesType', SlotsShrink, RunnersStay, CloseStays, OffStays, SendersStay,
           WavesStay, Counted', mg.at # "flag",
           mg.at \in {"start", "create", "retire", "copy"} =>
               mg'.o = mg.o /\ mg'.at \in {"start", "create", "retire", "copy"}
    PROVE  WavesInv'
<1>1. OneSlot' /\ Placed' /\ OffWave'
  BY SlotsKept
<1>2. AtMostPar'
  <2> SUFFICES ASSUME NEW o \in Waves, Live(o)',
                      ~(mg'.o = o /\ mg'.at \in {"start", "create", "retire", "copy"})
               PROVE  Cardinality(Open(o)') <= wave'[o].c.par
    BY DEF AtMostPar, Open
  <2>1. wave'[o].c.par \in Nat
    BY DEF WavesType, Object, Cfg
  <2>2. CASE ~Live(o) /\ Cardinality(Open(o)') = 0
    BY <2>1, <2>2
  <2>3. CASE /\ Live(o) /\ wave'[o].c = wave[o].c /\ Cardinality(Open(o)) \in Nat
             /\ Cardinality(Open(o)') <= Cardinality(Open(o))
    <3>1. Cardinality(Open(o)) <= wave[o].c.par
      BY <2>3 DEF WavesInv, AtMostPar, Open
    <3>2. Cardinality(Open(o)') \in Nat
      BY OpenKept
    <3> QED
      BY <2>1, <2>3, <3>1, <3>2
  <2> QED
    BY <2>2, <2>3, OpenKept
<1>3. SettingsReach'
  BY SettingsKept
<1> QED
  BY <1>1, <1>2, <1>3 DEF WavesInv

\* Switching a wave off, and applying new settings: the arrays grow, the
\* masked slots are counted.
LEMMA ApplyKeeps ==
    ASSUME WavesInv, Apply
    PROVE  WavesInv'
<1>1. UNCHANGED <<file, ld, loads, psv>> /\ mg.at = "apply" /\ Away
  BY DEF Apply, ApplyOff, ApplyOn, ManagerFrame, source, loader, Away
<1>2. /\ WavesType /\ mg \in ManagerState /\ wave \in [Waves -> Object]
      /\ run \in [Runners -> RunnerState]
  BY DEF WavesInv, WavesType
<1>3. ASSUME mg' \in ManagerState, Away', wave' = wave, run' = run
      PROVE  WavesInv'
  <2>1. WavesType'
    BY <1>1, <1>2, <1>3 DEF WavesType
  <2> QED
    BY <1>1, <1>3, <2>1, StillKeeps
<1>4. CASE mg' = [mg EXCEPT !.at = mg.ret] /\ wave' = wave /\ run' = run
  <2>1. mg' \in ManagerState /\ mg'.at \in {"old", "new"}
    BY <1>2, <1>4 DEF ManagerState, MgrAt
  <2> QED
    BY <1>3, <1>4, <2>1 DEF Away
<1>5. CASE mg' = [mg EXCEPT !.at = "wild"] /\ wave' = wave /\ run' = run
  <2>1. mg' \in ManagerState /\ mg'.at = "wild"
    BY <1>2, <1>5 DEF ManagerState, MgrAt
  <2> QED
    BY <1>3, <1>5, <2>1 DEF Away
<1>6. ASSUME NEW o \in mg.todo, Live(o), ApplyOff(o)
      PROVE  WavesInv'
  <2>1. CASE mg' = mg /\ wave' = wave /\ run' = run
    BY <1>1, <1>2, <1>3, <2>1 DEF Away
  <2>2. CASE mg' = [mg EXCEPT !.todo = @ \ {o}] /\ wave' = wave /\ run' = CloseFirst(o, run)
    <3>1. mg' \in ManagerState /\ mg'.at = "apply"
      <4>1. mg.todo \ {o} \in SUBSET Waves
        BY <1>2 DEF ManagerState
      <4> QED
        BY <1>1, <1>2, <2>2, <4>1 DEF ManagerState
    <3>2. run' = [q \in Runners |-> run'[q]]
      BY <1>2, <2>2 DEF CloseFirst
    <3>3. \A q \in Runners : run'[q] = run[q] \/ run'[q] = [run[q] EXCEPT !.close = TRUE]
      BY <1>2, <2>2 DEF CloseFirst
    <3>4. run' \in [Runners -> RunnerState] /\ RunnersStay /\ CloseStays /\ OffStays /\ SendersStay
      BY <3>2, <3>3, SomeClose
    <3>5. WavesType'
      BY <1>1, <1>2, <2>2, <3>1, <3>4 DEF WavesType
    <3>6. SlotsShrink /\ WavesStay
      BY <2>2, NothingMoves
    <3> QED
      BY <1>1, <3>1, <3>4, <3>5, <3>6, QuietKeeps DEF Away
  <2> QED
    BY <1>6, <2>1, <2>2 DEF ApplyOff
<1>7. ASSUME NEW o \in mg.todo, Live(o), ApplyOn(o)
      PROVE  WavesInv'
  <2>1. o \in Waves /\ o # Null /\ mg.c.par \in Nat /\ wave[o] \in Object
        /\ wave[o].trds \in Seq(Slot)
    BY <1>2, Initials DEF ManagerState, Cfg, Object
  <2>2. PICK t : t = Grown(wave[o].trds, mg.c.par)
    OBVIOUS
  <2>3. /\ t \in Seq(Slot)
        /\ \A i \in DOMAIN t : \/ t[i].rec = Null
                               \/ i \in DOMAIN wave[o].trds /\ t[i] = wave[o].trds[i]
    BY <2>1, <2>2, GrownFacts
  <2>4. ASSUME NEW b \in BOOLEAN, wave' = [wave EXCEPT ![o].trds = t, ![o].sock = b]
        PROVE  wave' \in [Waves -> Object] /\ SlotsShrink /\ WavesStay
    <3>1. wave' = [wave EXCEPT ![o] = [wave[o] EXCEPT !.trds = t, !.sock = b]]
      BY <1>2, <2>1, <2>4
    <3>2. PICK x : x = [wave[o] EXCEPT !.trds = t, !.sock = b]
      OBVIOUS
    <3>3. x \in Object /\ x.trds = t /\ x.st = wave[o].st /\ x.c = wave[o].c
      BY <2>1, <2>3, <3>2 DEF Object
    <3>4. wave' \in [Waves -> Object] /\ \A p \in Waves : wave'[p] = IF p = o THEN x ELSE wave[p]
      BY <1>2, <3>1, <3>2, <3>3
    <3>5. SlotsShrink
      BY <2>3, <3>3, <3>4 DEF SlotsShrink, Slots
    <3>6. WavesStay
      BY <3>3, <3>4 DEF WavesStay, Live
    <3> QED
      BY <3>4, <3>5, <3>6
  <2>5. PICK b \in BOOLEAN : wave' = [wave EXCEPT ![o].trds = t, ![o].sock = b]
    <3>1. (wave[o].sock \/ (mg.c.par > 0 /\ wave[o].trds = << >>)) \in BOOLEAN
      OBVIOUS
    <3> QED
      BY <1>7, <2>2, <3>1 DEF ApplyOn
  <2>6. wave' \in [Waves -> Object] /\ SlotsShrink /\ WavesStay
    BY <2>4, <2>5
  <2>7. run' = run
    BY <1>7 DEF ApplyOn
  <2>8. RunnersStay /\ CloseStays /\ OffStays /\ SendersStay
    BY <2>7, NothingMoves
  <2>9. mg.todo \ {o} \in SUBSET Waves
    BY <1>2 DEF ManagerState
  <2>10. CASE mg' = [mg EXCEPT !.todo = @ \ {o}]
    <3>1. mg' \in ManagerState /\ mg'.at = "apply"
      BY <1>1, <1>2, <2>9, <2>10 DEF ManagerState
    <3>2. WavesType'
      BY <1>1, <1>2, <2>6, <2>7, <3>1 DEF WavesType
    <3> QED
      BY <1>1, <2>6, <2>8, <3>1, <3>2, QuietKeeps DEF Away
  <2>11. ASSUME NEW at, NEW n,
                mg' = [mg EXCEPT !.o = o, !.todo = @ \ {o}, !.at = at, !.n = n],
                at = IF ValidCount(o) < mg.c.par THEN "start"
                     ELSE IF ValidCount(o) > mg.c.par THEN "retire" ELSE "copy",
                n = IF ValidCount(o) < mg.c.par THEN mg.c.par - ValidCount(o)
                    ELSE ValidCount(o) - mg.c.par
         PROVE  WavesInv'
    <3>1. /\ ValidCount(o) \in Nat /\ Cardinality(Open(o)) \in Nat
          /\ Cardinality(Open(o)) <= ValidCount(o)
      BY <1>2, <2>1, Counts DEF ValidCount
    <3>2. n \in Nat /\ at \in {"start", "retire", "copy"}
      BY <2>1, <2>11, <3>1
    <3>3. /\ mg' \in ManagerState /\ mg'.o = o /\ mg'.at = at /\ mg'.n = n /\ mg'.c = mg.c
      BY <1>2, <2>1, <2>9, <2>11, <3>2 DEF ManagerState, MgrAt
    <3>4. WavesType'
      BY <1>1, <1>2, <2>6, <2>7, <3>3 DEF WavesType
    <3>5. Cardinality(Open(o)') \in Nat /\ Cardinality(Open(o)') <= ValidCount(o)
      <4>1. Open(o)' \subseteq Open(o)
        BY <1>7, <2>1, <2>6, <2>8, OpenShrinks
      <4>2. IsFiniteSet(Open(o))
        BY <1>2, <2>1, Counts
      <4>3. /\ Cardinality(Open(o)') \in Nat
            /\ Cardinality(Open(o)') <= Cardinality(Open(o))
        BY <2>1, <2>6, <4>1, <4>2, CountsNext
      <4> QED
        BY <3>1, <4>3
    <3>6. /\ at = "start" => n > 0 /\ Cardinality(Open(o)') + n <= mg.c.par
          /\ at = "retire" => n > 0 /\ Cardinality(Open(o)') <= mg.c.par + n
          /\ at = "copy" => Cardinality(Open(o)') <= mg.c.par
      BY <2>1, <2>11, <3>1, <3>5
    <3>7. Counted'
      BY <2>1, <3>2, <3>3, <3>6 DEF Counted, Open, Masked, Slots
    <3> QED
      BY <1>1, <2>6, <2>8, <3>4, <3>7, WorkKeeps
  <2> QED
    BY <1>7, <2>10, <2>11 DEF ApplyOn
<1> QED
  BY <1>4, <1>5, <1>6, <1>7 DEF Apply

\* A wave that was removed under the manager, and a null pointer.
LEMMA WildKeeps ==
    ASSUME WavesInv, UNCHANGED <<file, ld, loads, psv, wave, run>>,
           mg' = mg \/ (mg' = [mg EXCEPT !.at = "wild"] /\ ~Live(mg.o))
    PROVE  WavesInv'
<1>1. WavesType /\ mg \in ManagerState
  BY DEF WavesInv, WavesType
<1>2. mg' = mg \/ (mg'.at = "wild" /\ mg'.o = mg.o /\ ~Live(mg.o))
  BY <1>1 DEF ManagerState
<1>3. mg' \in ManagerState
  BY <1>1 DEF ManagerState, MgrAt
<1>4. WavesType'
  BY <1>1, <1>3 DEF WavesType
<1> QED
  BY <1>2, <1>4, StillKeeps

\* The slot that is masked has no record; the one that was left in it is freed.
LEMMA MaskSlotKeeps ==
    ASSUME WavesInv, MaskSlot
    PROVE  WavesInv'
<1>1. UNCHANGED <<file, ld, loads, psv>> /\ mg.at = "start"
  BY DEF MaskSlot, OnWave, ManagerFrame, source, loader
<1>2. /\ WavesType /\ mg \in ManagerState /\ wave \in [Waves -> Object]
      /\ run \in [Runners -> RunnerState]
  BY DEF WavesInv, WavesType
<1>3. PICK o \in Waves : o = mg.o
  BY <1>1 DEF WavesInv, Counted
<1>4. CASE ~Live(mg.o)
  BY <1>1, <1>4, WildKeeps DEF MaskSlot, OnWave
<1>5. ASSUME Live(o), NEW i \in Slots(o), i \notin Masked(o),
             wave' = [wave EXCEPT ![o].trds[i] = [mask |-> TRUE, rec |-> Null]],
             run' = [q \in Runners |-> [run[q] EXCEPT !.freed = @ \/ q = wave[o].trds[i].rec]],
             mg' = [mg EXCEPT !.at = "create", !.s = i]
      PROVE  WavesInv'
  <2>1. PICK y : y = [mask |-> TRUE, rec |-> Null]
    OBVIOUS
  <2>2. y \in Slot /\ y.rec = Null
    BY <2>1 DEF Slot
  <2>3. /\ wave' \in [Waves -> Object] /\ wave'[o].trds = [wave[o].trds EXCEPT ![i] = y]
        /\ \A p \in Waves :
             /\ wave'[p].st = wave[p].st /\ wave'[p].c = wave[p].c /\ Slots(p)' = Slots(p)
             /\ p # o => wave'[p].trds = wave[p].trds
    <3>1. wave' = [wave EXCEPT ![o].trds[i] = y]
      BY <1>5, <2>1
    <3>2. i \in Slots(o)
      BY <1>5
    <3> QED
      BY <1>2, <2>2, <3>1, <3>2, EditSlot
  <2>4. \A p \in Waves : \A k \in Slots(p) :
          \/ p = o /\ k = i /\ wave'[p].trds[k] = y
          \/ (p # o \/ k # i) /\ wave'[p].trds[k] = wave[p].trds[k]
    BY <2>3 DEF Slots
  <2>5. SlotsShrink
    BY <2>2, <2>3, <2>4 DEF SlotsShrink
  <2>6. WavesStay
    BY <2>3 DEF WavesStay, Live
  <2>7. ASSUME NEW q \in Runners
        PROVE  /\ run'[q] \in RunnerState
               /\ run'[q].at = run[q].at /\ run'[q].o = run[q].o /\ run'[q].close = run[q].close
               /\ run'[q].tune = run[q].tune /\ run'[q].base = run[q].base
               /\ run'[q].freed <=> run[q].freed \/ q = wave[o].trds[i].rec
    <3> DEFINE hit == q = wave[o].trds[i].rec
    <3>1. run'[q] = [run[q] EXCEPT !.freed = run[q].freed \/ hit] /\ run[q] \in RunnerState
      BY <1>2, <1>5, <2>7
    <3>2. hit \in BOOLEAN /\ (run[q].freed \/ hit) \in BOOLEAN
      OBVIOUS
    <3>3. hit <=> q = wave[o].trds[i].rec
      OBVIOUS
    <3> HIDE DEF hit
    <3> QED
      BY <3>1, <3>2, <3>3 DEF RunnerState
  <2>8. run' \in [Runners -> RunnerState]
    <3>1. run' = [q \in Runners |-> run'[q]]
      BY <1>5
    <3> QED
      BY <2>7, <3>1
  <2>9. ASSUME NEW q \in Runners, q = wave[o].trds[i].rec
        PROVE  /\ run[q].at # "none" /\ run[q].o = o
               /\ \A k \in Slots(o) : wave[o].trds[k].rec = q => k = i
    <3>1. q # Null /\ i \in Slots(o)
      BY <1>5, Initials
    <3> QED
      BY <2>9, <3>1 DEF WavesInv, OneSlot
  <2>10. RunnersStay
    BY <2>7, <2>9 DEF RunnersStay
  <2>11. CloseStays
    <3> SUFFICES ASSUME NEW p \in Waves, NEW k \in Masked(p), wave[p].trds[k].rec # Null,
                        run[wave[p].trds[k].rec].close
                 PROVE  run'[wave[p].trds[k].rec].close
      BY DEF CloseStays
    <3>1. wave[p].trds[k].rec \in Runners
      BY <1>2, SlotFacts DEF Masked
    <3> QED
      BY <2>7, <3>1
  <2>12. OffStays
    <3> SUFFICES ASSUME NEW q \in Runners, q = wave[o].trds[i].rec
                 PROVE  Nowhere(q)'
      BY <2>7 DEF OffStays
    <3> SUFFICES ASSUME NEW p \in Waves, NEW k \in Slots(p), wave'[p].trds[k].rec = q
                 PROVE  FALSE
      BY <2>3 DEF Nowhere, Masked
    <3>1. q # Null
      BY Initials
    <3>2. (p # o \/ k # i) /\ wave[p].trds[k].rec = q
      BY <2>2, <2>4, <3>1
    <3>3. run[q].o = p
      BY <3>1, <3>2 DEF WavesInv, OneSlot
    <3> QED
      BY <2>9, <3>2, <3>3
  <2>13. SendersStay
    BY <2>7 DEF SendersStay
  <2>14. i \in Nat
    BY <1>2, <1>5, SlotFacts
  <2>15. /\ mg' \in ManagerState /\ mg'.at = "create" /\ mg'.o = mg.o /\ mg'.n = mg.n
         /\ mg'.c = mg.c
    BY <1>2, <1>5, <2>14 DEF ManagerState, MgrAt
  <2>16. WavesType'
    BY <1>1, <1>2, <2>3, <2>8, <2>15 DEF WavesType
  <2>17. Counted'
    <3>1. Cardinality(Open(o)') \in Nat /\ Cardinality(Open(o)') <= Cardinality(Open(o))
          /\ Cardinality(Open(o)) \in Nat
      BY <1>2, <1>5, <2>3, <2>5, <2>11, OpenShrinks, Counts, CountsNext
    <3>2. mg.n > 0 /\ Cardinality(Open(o)) + mg.n <= mg.c.par
      BY <1>1, <1>3, <1>5 DEF WavesInv, Counted
    <3>3. mg.n \in Nat /\ mg.c.par \in Nat
      BY <1>2 DEF ManagerState, Cfg
    <3>4. Cardinality(Open(o)') + mg.n <= mg.c.par
      BY <3>1, <3>2, <3>3
    <3> QED
      BY <1>3, <2>15, <3>2, <3>4 DEF Counted, Open, Masked, Slots
  <2> QED
    BY <1>1, <2>5, <2>6, <2>10, <2>11, <2>12, <2>13, <2>15, <2>16, <2>17, WorkKeeps
<1> QED
  BY <1>3, <1>4, <1>5 DEF MaskSlot, OnWave

\* The thread that is told to close does not count any more.
LEMMA RetireOneKeeps ==
    ASSUME WavesInv, RetireOne
    PROVE  WavesInv'
<1>1. UNCHANGED <<file, ld, loads, psv>> /\ mg.at = "retire"
  BY DEF RetireOne, OnWave, ManagerFrame, source, loader
<1>2. /\ WavesType /\ mg \in ManagerState /\ wave \in [Waves -> Object]
      /\ run \in [Runners -> RunnerState]
  BY DEF WavesInv, WavesType
<1>3. PICK o \in Waves : o = mg.o
  BY <1>1 DEF WavesInv, Counted
<1>4. CASE ~Live(mg.o)
  BY <1>1, <1>4, WildKeeps DEF RetireOne, OnWave
<1>5. CASE UNCHANGED <<mg, wave, run>>
  BY <1>1, <1>5, WildKeeps
<1>6. ASSUME Live(o), NEW i \in Masked(o), Unclosed(i), wave' = wave,
             run' = [run EXCEPT ![wave[o].trds[i].rec].close = TRUE],
             mg' = [mg EXCEPT !.n = @ - 1, !.at = IF mg.n = 1 THEN "copy" ELSE "retire"]
      PROVE  WavesInv'
  <2>1. i \in Slots(o) /\ wave[o].trds[i].rec \in Runners
    BY <1>2, <1>3, <1>6, SlotFacts DEF Masked, Unclosed
  <2>2. i \in Open(o)
    BY <1>3, <1>6 DEF Open, Unclosed
  <2>3. run' = [q \in Runners |-> run'[q]]
    BY <1>2, <1>6
  <2>4. \A q \in Runners : run'[q] = run[q] \/ run'[q] = [run[q] EXCEPT !.close = TRUE]
    BY <1>2, <1>6
  <2>5. run' \in [Runners -> RunnerState] /\ RunnersStay /\ CloseStays /\ OffStays /\ SendersStay
    BY <2>3, <2>4, SomeClose
  <2>6. SlotsShrink /\ WavesStay
    BY <1>6, NothingMoves
  <2>7. Open(o)' \subseteq Open(o) \ {i}
    <3>1. Open(o)' \subseteq Open(o)
      BY <1>6, <2>5, <2>6, OpenShrinks
    <3>2. run'[wave'[o].trds[i].rec].close
      BY <1>2, <1>6, <2>1 DEF RunnerState
    <3>3. i \notin Open(o)'
      BY <3>2 DEF Open
    <3> QED
      BY <3>1, <3>3
  <2>8. /\ Cardinality(Open(o)') \in Nat /\ Cardinality(Open(o)) \in Nat
        /\ Cardinality(Open(o)') <= Cardinality(Open(o)) - 1
    <3>1. IsFiniteSet(Open(o)) /\ Cardinality(Open(o)) \in Nat
      BY <1>2, Counts
    <3>2. /\ IsFiniteSet(Open(o) \ {i})
          /\ Cardinality(Open(o) \ {i}) = Cardinality(Open(o)) - 1
      BY <2>2, <3>1, FS_RemoveElement
    <3>3. (wave \in [Waves -> Object])'
      BY <1>2, <1>6
    <3> QED
      BY <2>7, <3>1, <3>2, <3>3, CountsNext
  <2>9. mg.n \in Nat /\ mg.n > 0 /\ mg.c.par \in Nat /\ Cardinality(Open(o)) <= mg.c.par + mg.n
    BY <1>1, <1>2, <1>3, <1>6 DEF WavesInv, Counted, ManagerState, Cfg
  <2>10. PICK at : at = IF mg.n = 1 THEN "copy" ELSE "retire"
    OBVIOUS
  <2>11. mg.n - 1 \in Nat /\ at \in MgrAt
    BY <2>9, <2>10 DEF MgrAt
  <2>12. /\ mg' \in ManagerState /\ mg'.at = at /\ mg'.o = mg.o /\ mg'.n = mg.n - 1
         /\ mg'.c = mg.c
    BY <1>2, <1>6, <2>10, <2>11 DEF ManagerState
  <2>13. WavesType'
    BY <1>1, <1>2, <1>6, <2>5, <2>12 DEF WavesType
  <2>14. Counted'
    <3>1. /\ at = "retire" => mg.n - 1 > 0 /\ Cardinality(Open(o)') <= mg.c.par + (mg.n - 1)
          /\ at = "copy" => Cardinality(Open(o)') <= mg.c.par
      BY <2>8, <2>9, <2>10
    <3> QED
      BY <1>3, <2>10, <2>12, <3>1 DEF Counted, Open, Masked, Slots
  <2> QED
    BY <1>1, <2>5, <2>6, <2>10, <2>12, <2>13, <2>14, WorkKeeps
<1> QED
  BY <1>3, <1>4, <1>5, <1>6 DEF RetireOne, OnWave

\* The settings are copied; the threads that send are told next.
LEMMA CopySettingsKeeps ==
    ASSUME WavesInv, CopySettings
    PROVE  WavesInv'
<1>1. UNCHANGED <<file, ld, loads>> /\ mg.at = "copy"
  BY DEF CopySettings, OnWave, ManagerFrame, source, loader
<1>2. /\ WavesType /\ mg \in ManagerState /\ wave \in [Waves -> Object]
      /\ run \in [Runners -> RunnerState] /\ psv \in Seq(Entry)
  BY DEF WavesInv, WavesType
<1>3. PICK o \in Waves : o = mg.o
  BY <1>1 DEF WavesInv, Counted
<1>4. CASE ~Live(mg.o)
  BY <1>1, <1>4, WildKeeps DEF CopySettings, OnWave
<1>5. CASE Live(o)
  <2>1. /\ wave' = [wave EXCEPT ![o].c = mg.c] /\ run' = run
        /\ psv' = IF mg.gen = loads THEN [psv EXCEPT ![mg.j].chg = FALSE] ELSE psv
        /\ mg' = [mg EXCEPT !.at = "flag"]
    BY <1>3, <1>5 DEF CopySettings, OnWave
  <2>2. mg' \in ManagerState /\ mg'.at = "flag" /\ mg'.o = o
    BY <1>2, <1>3, <2>1 DEF ManagerState, MgrAt
  <2>3. mg.c \in Cfg
    BY <1>2 DEF ManagerState
  <2>4. PICK x : x = [wave[o] EXCEPT !.c = mg.c]
    OBVIOUS
  <2>5. x \in Object /\ x.c = mg.c /\ x.st = wave[o].st /\ x.trds = wave[o].trds
    BY <1>2, <2>3, <2>4 DEF Object
  <2>6. wave' \in [Waves -> Object] /\ \A p \in Waves : wave'[p] = IF p = o THEN x ELSE wave[p]
    BY <1>2, <2>1, <2>4, <2>5
  <2>7. psv' \in Seq(Entry)
    <3>1. CASE mg.j \in DOMAIN psv
      <4>1. psv[mg.j] \in Entry
        BY <1>2, <3>1, ElementOfSeq
      <4>2. [psv[mg.j] EXCEPT !.chg = FALSE] \in Entry
        BY <4>1 DEF Entry
      <4>3. PICK e \in Entry : e = [psv[mg.j] EXCEPT !.chg = FALSE]
        BY <4>2
      <4>4. [psv EXCEPT ![mg.j] = e] \in Seq(Entry)
        BY <1>2, <3>1, <4>3, ExceptSeq
      <4>5. psv' = psv \/ psv' = [psv EXCEPT ![mg.j] = e]
        BY <2>1, <4>3
      <4> QED
        BY <1>2, <4>4, <4>5
    <3>2. CASE mg.j \notin DOMAIN psv
      <4>1. psv' = psv
        BY <1>2, <2>1, <3>2
      <4> QED
        BY <1>2, <4>1
    <3> QED
      BY <3>1, <3>2
  <2>8. WavesType'
    BY <1>1, <1>2, <2>1, <2>2, <2>6, <2>7 DEF WavesType
  <2>9. \A p \in Waves : wave'[p].trds = wave[p].trds /\ wave'[p].st = wave[p].st
    BY <2>5, <2>6
  <2>10. SlotsShrink
    BY <2>9 DEF SlotsShrink, Slots
  <2>11. OneSlot' /\ Placed' /\ OffWave'
    BY <2>1, <2>8, <2>10, NothingMoves, SlotsKept
  <2>12. Counted'
    BY <1>3, <2>2 DEF Counted
  <2>13. ASSUME NEW p \in Waves
         PROVE  Open(p)' = Open(p) /\ (Live(p)' <=> Live(p))
    BY <2>1, <2>9 DEF Open, Masked, Slots, Live
  <2>14. AtMostPar'
    <3> SUFFICES ASSUME NEW p \in Waves, Live(p)
                 PROVE  Cardinality(Open(p)) <= wave'[p].c.par
      BY <2>13 DEF AtMostPar, Open
    <3>1. CASE p = o
      BY <1>1, <1>3, <2>5, <2>6, <3>1 DEF WavesInv, Counted
    <3>2. CASE p # o
      BY <1>3, <2>6, <3>2 DEF WavesInv, AtMostPar, Open
    <3> QED
      BY <3>1, <3>2
  <2>15. SettingsReach'
    <3> SUFFICES ASSUME NEW q \in Runners, NEW p, p = run[q].o,
                        run[q].at = "loop", ~run[q].close, ~run[q].freed, Live(p)',
                        SlotOf(q)' # {}
                 PROVE  \/ run[q].tune = wave'[p].c.tune \/ run[q].base
                        \/ p = o
      BY <2>1, <2>2 DEF SettingsReach, Live
    <3>1. p \in Waves
      BY DEF WavesInv, Placed
    <3>2. SlotOf(q)' = SlotOf(q)
      BY <2>1, <2>9, <3>1 DEF SlotOf, Masked, Slots
    <3>3. CASE p # o
      BY <1>1, <2>6, <2>13, <3>1, <3>2, <3>3 DEF WavesInv, SettingsReach
    <3> QED
      BY <3>3
  <2> QED
    BY <2>8, <2>11, <2>12, <2>14, <2>15 DEF WavesInv
<1> QED
  BY <1>3, <1>4, <1>5

\* Every thread with a masked slot is told to read the settings.
LEMMA FlagRunnersKeeps ==
    ASSUME WavesInv, FlagRunners
    PROVE  WavesInv'
<1>1. UNCHANGED <<file, ld, loads, psv>> /\ mg.at = "flag"
  BY DEF FlagRunners, OnWave, ManagerFrame, source, loader
<1>2. /\ WavesType /\ mg \in ManagerState /\ wave \in [Waves -> Object]
      /\ run \in [Runners -> RunnerState]
  BY DEF WavesInv, WavesType
<1>3. PICK o \in Waves : o = mg.o
  BY <1>1 DEF WavesInv, Counted
<1>4. CASE ~Live(mg.o)
  BY <1>1, <1>4, WildKeeps DEF FlagRunners, OnWave
<1>5. CASE UNCHANGED <<mg, wave, run>>
  BY <1>1, <1>5, WildKeeps
<1>6. CASE /\ run' = [q \in Runners |-> [run[q] EXCEPT !.base = @ \/ q \in Owners(mg.o)]]
           /\ mg' = [mg EXCEPT !.at = "apply"] /\ wave' = wave
  <2>1. ASSUME NEW q \in Runners
        PROVE  /\ run'[q] \in RunnerState
               /\ run'[q].at = run[q].at /\ run'[q].o = run[q].o /\ run'[q].close = run[q].close
               /\ run'[q].tune = run[q].tune /\ run'[q].freed = run[q].freed
               /\ run'[q].base <=> run[q].base \/ q \in Owners(o)
    <3> DEFINE hit == q \in Owners(o)
    <3>1. run'[q] = [run[q] EXCEPT !.base = run[q].base \/ hit] /\ run[q] \in RunnerState
      BY <1>2, <1>3, <1>6, <2>1
    <3>2. hit \in BOOLEAN /\ (run[q].base \/ hit) \in BOOLEAN
      OBVIOUS
    <3>3. hit <=> q \in Owners(o)
      OBVIOUS
    <3> HIDE DEF hit
    <3> QED
      BY <3>1, <3>2, <3>3 DEF RunnerState
  <2>2. run' \in [Runners -> RunnerState]
    <3>1. run' = [q \in Runners |-> run'[q]]
      BY <1>6
    <3> QED
      BY <2>1, <3>1
  <2>3. mg' \in ManagerState /\ mg'.at = "apply"
    BY <1>2, <1>6 DEF ManagerState, MgrAt
  <2>4. WavesType'
    BY <1>1, <1>2, <1>6, <2>2, <2>3 DEF WavesType
  <2>5. RunnersStay /\ OffStays
    BY <2>1 DEF RunnersStay, OffStays
  <2>6. OneSlot' /\ Placed' /\ OffWave'
    BY <1>6, <2>4, <2>5, NothingMoves, SlotsKept
  <2>7. Counted'
    BY <2>3 DEF Counted
  <2>8. AtMostPar'
    <3> SUFFICES ASSUME NEW p \in Waves, Live(p)
                 PROVE  Cardinality(Open(p)') <= wave[p].c.par
      BY <1>6 DEF AtMostPar, Open, Live
    <3>1. Open(p)' = Open(p)
      <4>1. \A i \in Masked(p) : wave[p].trds[i].rec # Null => wave[p].trds[i].rec \in Runners
        BY <1>2, SlotFacts DEF Masked
      <4> QED
        BY <1>6, <2>1, <4>1 DEF Open, Masked, Slots
    <3>2. Cardinality(Open(p)) <= wave[p].c.par
      BY <1>1 DEF WavesInv, AtMostPar, Open
    <3> QED
      BY <3>1, <3>2
  <2>9. SettingsReach'
    <3> SUFFICES ASSUME NEW q \in Runners, NEW p, p = run[q].o,
                        run[q].at = "loop", ~run[q].close, ~run[q].freed, Live(p),
                        NEW i \in Masked(p), wave[p].trds[i].rec = q
                 PROVE  run[q].tune = wave[p].c.tune \/ run'[q].base
      BY <1>6, <2>1 DEF SettingsReach, Live, SlotOf, Masked, Slots
    <3>1. CASE p = o
      BY <2>1, <3>1 DEF Owners
    <3>2. CASE p # o
      <4>1. SlotOf(q) # {}
        BY DEF SlotOf
      <4> QED
        BY <1>3, <2>1, <3>2, <4>1 DEF WavesInv, SettingsReach
    <3> QED
      BY <3>1, <3>2
  <2> QED
    BY <2>4, <2>6, <2>7, <2>8, <2>9 DEF WavesInv
<1> QED
  BY <1>4, <1>5, <1>6 DEF FlagRunners, OnWave

\* The new thread is in one slot and adds at most one to those that count.
LEMMA CreateRunnerKeeps ==
    ASSUME WavesInv, NEW r \in Runners, CreateRunner(r)
    PROVE  WavesInv'
<1>1. UNCHANGED <<file, ld, loads, psv>> /\ mg.at = "create" /\ run[r].at = "none"
  BY DEF CreateRunner, OnWave, ManagerFrame, source, loader
<1>2. /\ WavesType /\ mg \in ManagerState /\ wave \in [Waves -> Object]
      /\ run \in [Runners -> RunnerState] /\ r # Null
  BY Initials DEF WavesInv, WavesType
<1>3. PICK o \in Waves : o = mg.o
  BY <1>1 DEF WavesInv, Counted
<1>4. CASE ~Live(mg.o)
  BY <1>1, <1>4, WildKeeps DEF CreateRunner, OnWave
<1>5. CASE UNCHANGED <<mg, wave, run>>
  BY <1>1, <1>5, WildKeeps
<1>6. ASSUME Live(o), NEW s \in Slots(o), wave' = [wave EXCEPT ![o].trds[s].rec = r],
             run' = [run EXCEPT ![r].at = "born", ![r].o = o],
             mg' = [mg EXCEPT !.n = @ - 1, !.at = IF mg.n = 1 THEN "copy" ELSE "start"]
      PROVE  WavesInv'
  <2>1. PICK y : y = [wave[o].trds[s] EXCEPT !.rec = r]
    OBVIOUS
  <2>2. s \in Slots(o) /\ wave[o].trds[s] \in Slot
    BY <1>2, <1>6, SlotFacts
  <2>3. y \in Slot /\ y.rec = r
    BY <2>1, <2>2 DEF Slot
  <2>4. /\ wave' \in [Waves -> Object] /\ wave'[o].trds = [wave[o].trds EXCEPT ![s] = y]
        /\ \A p \in Waves :
             /\ wave'[p].st = wave[p].st /\ wave'[p].c = wave[p].c /\ Slots(p)' = Slots(p)
             /\ p # o => wave'[p].trds = wave[p].trds
    <3>1. wave' = [wave EXCEPT ![o].trds[s] = y]
      BY <1>6, <2>1
    <3> QED
      BY <1>2, <2>2, <2>3, <3>1, EditSlot
  <2>5. \A p \in Waves : \A k \in Slots(p) :
          \/ p = o /\ k = s /\ wave'[p].trds[k] = y
          \/ (p # o \/ k # s) /\ wave'[p].trds[k] = wave[p].trds[k]
    BY <2>4 DEF Slots
  <2>6. PICK x : x = [run[r] EXCEPT !.at = "born", !.o = o]
    OBVIOUS
  <2>7. x \in RunnerState /\ x.at = "born" /\ x.o = o /\ x.freed = run[r].freed
    BY <1>2, <2>6 DEF RunnerState, RunAt
  <2>8. run' \in [Runners -> RunnerState] /\ \A q \in Runners : run'[q] = IF q = r THEN x ELSE run[q]
    BY <1>2, <1>6, <2>6, <2>7
  <2>9. PICK at : at = IF mg.n = 1 THEN "copy" ELSE "start"
    OBVIOUS
  <2>10. mg.n \in Nat /\ mg.n > 0 /\ mg.c.par \in Nat /\ Cardinality(Open(o)) + mg.n <= mg.c.par
    BY <1>1, <1>2, <1>3, <1>6 DEF WavesInv, Counted, ManagerState, Cfg
  <2>11. mg.n - 1 \in Nat /\ at \in MgrAt
    BY <2>9, <2>10 DEF MgrAt
  <2>12. /\ mg' \in ManagerState /\ mg'.at = at /\ mg'.o = o /\ mg'.n = mg.n - 1
         /\ mg'.c = mg.c
    BY <1>2, <1>3, <1>6, <2>9, <2>11 DEF ManagerState
  <2>13. WavesType'
    BY <1>1, <1>2, <2>4, <2>8, <2>12 DEF WavesType
  \* The thread was in no slot before.
  <2>14. ASSUME NEW p \in Waves, NEW k \in Slots(p)
         PROVE  wave[p].trds[k].rec # r
    BY <1>1, <1>2, <2>14 DEF WavesInv, OneSlot
  <2>15. OneSlot'
    <3> SUFFICES ASSUME NEW p \in Waves, NEW k \in Slots(p), NEW q, q = wave'[p].trds[k].rec,
                        q # Null
                 PROVE  /\ run'[q].at # "none" /\ run'[q].o = p
                        /\ \A h \in Slots(p) : wave'[p].trds[h].rec = q => h = k
      BY <2>4 DEF OneSlot
    <3>1. CASE p = o /\ k = s
      <4>1. q = r
        BY <2>3, <2>5, <3>1
      <4>2. \A h \in Slots(p) : wave'[p].trds[h].rec = q => h = k
        BY <2>5, <2>14, <3>1, <4>1
      <4> QED
        BY <2>7, <2>8, <3>1, <4>1, <4>2
    <3>2. CASE p # o \/ k # s
      <4>1. q = wave[p].trds[k].rec
        BY <2>5, <3>2
      <4>2. q \in Runners /\ q # r
        BY <1>2, <2>14, <4>1, SlotFacts
      <4>3. /\ run[q].at # "none" /\ run[q].o = p
            /\ \A h \in Slots(p) : wave[p].trds[h].rec = q => h = k
        BY <4>1 DEF WavesInv, OneSlot
      <4>4. \A h \in Slots(p) : wave'[p].trds[h].rec = q => h = k
        BY <2>3, <2>5, <4>2, <4>3
      <4> QED
        BY <2>8, <4>2, <4>3, <4>4
    <3> QED
      BY <3>1, <3>2
  <2>16. ~run[r].freed
    BY <1>1 DEF WavesInv, Placed
  <2>17. Placed'
    BY <2>7, <2>8, <2>16 DEF WavesInv, Placed
  <2>18. OffWave'
    <3> SUFFICES ASSUME NEW q \in Runners, run'[q].freed \/ run'[q].at = "unmask",
                        NEW p \in Waves, NEW k \in Slots(p), wave'[p].trds[k].mask,
                        wave'[p].trds[k].rec = q
                 PROVE  FALSE
      BY <2>4 DEF OffWave, Nowhere, Masked
    <3>1. q # r /\ Nowhere(q)
      BY <2>7, <2>8, <2>16 DEF WavesInv, OffWave
    <3>2. wave'[p].trds[k] = wave[p].trds[k]
      BY <2>3, <2>5, <3>1
    <3>3. k \in Masked(p)
      BY <3>2 DEF Masked
    <3> QED
      BY <3>1, <3>2, <3>3 DEF Nowhere
  <2>19. ASSUME NEW p \in Waves
         PROVE  Open(p)' \subseteq Open(p) \cup {s} /\ (p # o => Open(p)' \subseteq Open(p))
    <3> SUFFICES ASSUME NEW k \in Slots(p), wave'[p].trds[k].mask, wave'[p].trds[k].rec # Null,
                        ~run'[wave'[p].trds[k].rec].close, p # o \/ k # s
                 PROVE  k \in Open(p)
      BY <2>4 DEF Open, Masked
    <3>1. wave'[p].trds[k] = wave[p].trds[k]
      BY <2>5
    <3>2. wave[p].trds[k].rec \in Runners /\ wave[p].trds[k].rec # r
      BY <1>2, <2>14, <3>1, SlotFacts
    <3> QED
      BY <2>8, <3>1, <3>2 DEF Open, Masked
  <2>20. /\ Cardinality(Open(o)') \in Nat /\ Cardinality(Open(o)) \in Nat
         /\ Cardinality(Open(o)') <= Cardinality(Open(o)) + 1
    <3>1. IsFiniteSet(Open(o)) /\ Cardinality(Open(o)) \in Nat
      BY <1>2, Counts
    <3>2. /\ IsFiniteSet(Open(o) \cup {s})
          /\ Cardinality(Open(o) \cup {s}) <= Cardinality(Open(o)) + 1
      <4>1. /\ IsFiniteSet(Open(o) \cup {s})
            /\ Cardinality(Open(o) \cup {s}) = IF s \in Open(o) THEN Cardinality(Open(o))
                                               ELSE Cardinality(Open(o)) + 1
        BY <3>1, FS_AddElement
      <4> QED
        BY <3>1, <4>1
    <3>3. Open(o)' \subseteq Open(o) \cup {s}
      BY <2>19
    <3>4. /\ Cardinality(Open(o)') \in Nat /\ Cardinality(Open(o) \cup {s}) \in Nat
          /\ Cardinality(Open(o)') <= Cardinality(Open(o) \cup {s})
      BY <2>4, <3>2, <3>3, CountsNext
    <3> QED
      BY <3>1, <3>2, <3>4
  <2>21. Counted'
    <3>1. /\ at = "start" => mg.n - 1 > 0 /\ Cardinality(Open(o)') + (mg.n - 1) <= mg.c.par
          /\ at = "copy" => Cardinality(Open(o)') <= mg.c.par
      BY <2>9, <2>10, <2>20
    <3> QED
      BY <2>9, <2>12, <3>1 DEF Counted, Open, Masked, Slots
  <2>22. AtMostPar'
    <3> SUFFICES ASSUME NEW p \in Waves, Live(p)', p # o
                 PROVE  Cardinality(Open(p)') <= wave'[p].c.par
      BY <2>9, <2>12 DEF AtMostPar, Open
    <3>1. Live(p) /\ wave'[p].c = wave[p].c
      BY <2>4 DEF Live
    <3>2. Cardinality(Open(p)) <= wave[p].c.par
      BY <1>3, <3>1 DEF WavesInv, AtMostPar, Open
    <3>3. IsFiniteSet(Open(p)) /\ Cardinality(Open(p)) \in Nat /\ wave[p].c.par \in Nat
      BY <1>2, Counts DEF Object, Cfg
    <3>4. Cardinality(Open(p)') \in Nat /\ Cardinality(Open(p)') <= Cardinality(Open(p))
      BY <2>4, <2>19, <3>3, CountsNext
    <3> QED
      BY <3>1, <3>2, <3>3, <3>4
  <2>23. SettingsReach'
    <3> SUFFICES ASSUME NEW q \in Runners, NEW p, p = run'[q].o,
                        run'[q].at = "loop", ~run'[q].close, ~run'[q].freed, Live(p)',
                        NEW k \in Masked(p)', wave'[p].trds[k].rec = q
                 PROVE  run'[q].tune = wave'[p].c.tune \/ run'[q].base
      BY DEF SettingsReach, Live, SlotOf, Masked, Slots
    <3>1. q # r /\ run'[q] = run[q]
      BY <2>7, <2>8
    <3>2. p \in Waves /\ p = run[q].o
      BY <3>1 DEF WavesInv, Placed
    <3>3. k \in Slots(p) /\ wave'[p].trds[k] = wave[p].trds[k] /\ wave'[p].trds[k].mask
      BY <2>3, <2>4, <2>5, <3>1, <3>2 DEF Masked
    <3>4. Live(p) /\ SlotOf(q) # {} /\ wave'[p].c = wave[p].c
      <4>1. Live(p) /\ wave'[p].c = wave[p].c
        BY <2>4, <3>2 DEF Live
      <4>2. k \in Masked(p) /\ wave[p].trds[k].rec = q
        BY <3>3 DEF Masked
      <4>3. k \in SlotOf(q)
        BY <3>2, <4>2 DEF SlotOf
      <4> QED
        BY <4>1, <4>3
    <3> QED
      BY <1>1, <3>1, <3>2, <3>4 DEF WavesInv, SettingsReach
  <2> QED
    BY <2>13, <2>15, <2>17, <2>18, <2>21, <2>22, <2>23 DEF WavesInv
<1> QED
  BY <1>3, <1>4, <1>5, <1>6 DEF CreateRunner, OnWave

-----------------------------------------------------------------------------
(* The theorems.                                                           *)

LEMMA WavesInit ==
    ASSUME Init
    PROVE  WavesInv
<1>1. WavesType
  <2>1. FirstFile \in Files
    BY WavesAssumption
  <2>2. [Manager EXCEPT !.at = "wait"] \in ManagerState
    BY Initials DEF ManagerState, MgrAt
  <2>3. << >> \in Seq(Entry)
    OBVIOUS
  <2>4. ld \in [at : {"idle", "read", "gone"}, read : Files]
    BY <2>1 DEF Init
  <2> QED
    BY <2>1, <2>2, <2>3, <2>4, Initials DEF Init, WavesType
<1>2. \A o \in Waves : wave[o].trds = << >> /\ ~Live(o)
  BY DEF Init, NoWave, Live
<1>3. \A o \in Waves : Slots(o) = {}
  BY <1>2 DEF Slots
<1>4. \A r \in Runners : run[r].at = "none" /\ ~run[r].freed
  BY DEF Init, NoRunner
<1>5. OneSlot /\ Placed /\ OffWave
  BY <1>3, <1>4 DEF OneSlot, Placed, OffWave
<1>6. mg.at = "wait"
  BY DEF Init, Manager
<1>7. Counted /\ AtMostPar
  BY <1>2, <1>6 DEF Counted, AtMostPar
<1>8. SettingsReach
  BY <1>4 DEF SettingsReach
<1> QED
  BY <1>1, <1>5, <1>7, <1>8 DEF WavesInv

LEMMA WavesStep ==
    ASSUME WavesInv, [Next]_vars
    PROVE  WavesInv'
<1>1. CASE UNCHANGED vars
  <2>1. UNCHANGED <<file, ld, loads, psv, mg, wave, run>>
    BY <1>1 DEF vars, source, loader, config
  <2> QED
    BY <2>1, WildKeeps
<1>2. CASE (\E f \in Files : Edit(f)) \/ version_checker \/ ReadConfig \/ SwapConfig \/ Quit
  BY <1>2, LoaderKeeps
<1>3. CASE ManagerStarts \/ ManagerCloses \/ PassStarts \/ OldDone \/ PassDone
  BY <1>3, ManagerTurns
<1>4. CASE OldEntry \/ NewEntry \/ Rst
  BY <1>4, OldEntryKeeps, NewEntryKeeps, RstKeeps
<1>5. CASE Apply \/ MaskSlot \/ RetireOne \/ CopySettings \/ FlagRunners
  BY <1>5, ApplyKeeps, MaskSlotKeeps, RetireOneKeeps, CopySettingsKeeps, FlagRunnersKeeps
<1>6. ASSUME NEW r \in Runners, CreateRunner(r) \/ Runner(r)
      PROVE  WavesInv'
  BY <1>6, CreateRunnerKeeps, OwnStep, ClearMaskKeeps, FreeRecordKeeps, DropArraysKeeps
  DEF Runner
<1> QED
  BY <1>1, <1>2, <1>3, <1>4, <1>5, <1>6 DEF Next

\* Throughout, a record is in one slot of its thread's wave only, a thread on
\* its way out has no masked slot, and the manager's count is enough: what
\* wave_runner and apply_new_wave_config rely on without a lock.
THEOREM WavesInvariant == Spec => []WavesInv
  BY WavesInit, WavesStep, PTL DEF Spec

\* A wave never has more threads that were not told to close than its
\* parallelism_count, however they leave while the manager counts, starts and
\* retires (apply_new_wave_config).
THEOREM AtMostParSafe == Spec => []AtMostPar
<1>1. WavesInv => AtMostPar
  BY DEF WavesInv
<1> QED
  BY <1>1, WavesInvariant, PTL

\* A thread that sends does so with the settings of its wave or has been told
\* to read them again: the manager copies before it flags, the thread takes
\* the flag back before it reads (base_config_change_applied).
THEOREM SettingsReachSafe == Spec => []SettingsReach
<1>1. WavesInv => SettingsReach
  BY DEF WavesInv
<1> QED
  BY <1>1, WavesInvariant, PTL

-----------------------------------------------------------------------------
(* The type invariant.                                                     *)

\* What TypeOK says of the file, the loader and the input.
Clerks ==
    /\ ver = 1 + edits /\ edits \in 0..MaxEdits
    /\ ck \in {"on", "gone"} /\ seen \in 0..ver /\ version_changed \in BOOLEAN
    /\ close_app \in BOOLEAN /\ prev \in Seq(Entry) /\ psv_changed \in BOOLEAN
    /\ inp \in {"ready", "gone"} /\ cmds \in 0..MaxCmds
    /\ exited \in {"no", "quit", "crash"}

LEMMA ClerksInit ==
    ASSUME Init
    PROVE  Clerks
<1>1. MaxEdits \in Nat /\ MaxCmds \in Nat
  BY WavesAssumption
<1>2. prev \in Seq(Entry)
  BY DEF Init
<1>3. ver = 1 + edits /\ edits \in 0..MaxEdits /\ seen \in 0..ver /\ cmds \in 0..MaxCmds
  BY <1>1 DEF Init
<1>4. /\ ck \in {"on", "gone"} /\ version_changed \in BOOLEAN /\ close_app \in BOOLEAN
      /\ psv_changed \in BOOLEAN /\ inp \in {"ready", "gone"}
      /\ exited \in {"no", "quit", "crash"}
  BY DEF Init
<1> QED
  BY <1>2, <1>3, <1>4 DEF Clerks

\* A wave that is removed ends the process at worst.
LEMMA RemovalExit ==
    ASSUME NEW os, remove_wave(os)
    PROVE  exited' \in {exited, "crash"}
  BY DEF remove_wave, Crash

\* The threads of the waves have no part in it.
LEMMA RunnerExit ==
    ASSUME NEW r \in Runners, CreateRunner(r) \/ Runner(r)
    PROVE  /\ UNCHANGED <<ver, edits, ck, seen, version_changed, close_app, prev, psv_changed,
                          inp, cmds>>
           /\ exited' \in {exited, "crash"}
<1>1. CASE CreateRunner(r)
  BY <1>1 DEF CreateRunner, OnWave, ManagerFrame, Crash, source, loader, input
<1>2. CASE FindOwnRecord(r) \/ ReadWave(r) \/ LoopTurn(r) \/ Astray(r)
  BY <1>2 DEF FindOwnRecord, ReadWave, LoopTurn, Astray, RunnerFrame, Crash, source, loader,
              config, input
<1>3. CASE ClearMask(r) \/ FreeRecord(r) \/ DropArrays(r)
  BY <1>3 DEF ClearMask, FreeRecord, DropArrays, RunnerFrame, Crash, source, loader, config, input
<1> QED
  BY <1>1, <1>2, <1>3 DEF Runner

\* Nor have the manager's passes, but for the flag they take back.
LEMMA ManagerExit ==
    ASSUME \/ ManagerStarts \/ ManagerCloses \/ PassStarts \/ OldEntry \/ OldDone \/ NewEntry
           \/ PassDone \/ Apply \/ MaskSlot \/ RetireOne \/ CopySettings \/ FlagRunners
    PROVE  /\ UNCHANGED <<ver, edits, ck, seen, version_changed, close_app, prev, inp, cmds>>
           /\ psv_changed' \in {psv_changed, FALSE} /\ exited' \in {exited, "quit", "crash"}
<1>1. CASE ManagerStarts \/ ManagerCloses \/ PassStarts \/ OldDone \/ NewEntry \/ PassDone
  BY <1>1 DEF ManagerStarts, ManagerCloses, PassStarts, OldDone, NewEntry, PassDone, ManagerFrame,
              source, loader, config, input
<1>2. CASE OldEntry
  <2>1. exited' \in {exited, "crash"}
    <3>1. PICK os : os = Matching(prev[mg.i].id)
      OBVIOUS
    <3> QED
      BY <1>2, <3>1, RemovalExit DEF OldEntry
  <2> QED
    BY <1>2, <2>1 DEF OldEntry, ManagerFrame, source, loader, config, input
<1>3. CASE Apply
  BY <1>3 DEF Apply, ApplyOff, ApplyOn, ManagerFrame, Crash, source, loader, input
<1>4. CASE MaskSlot \/ RetireOne
  BY <1>4 DEF MaskSlot, RetireOne, OnWave, ManagerFrame, Crash, source, loader, input
<1>5. CASE CopySettings \/ FlagRunners
  BY <1>5 DEF CopySettings, FlagRunners, OnWave, ManagerFrame, Crash, source, loader, input
<1> QED
  BY <1>1, <1>2, <1>3, <1>4, <1>5

LEMMA ClerksStep ==
    ASSUME WavesInv, Clerks, [Next]_vars
    PROVE  Clerks'
<1>1. ASSUME UNCHANGED <<ver, edits, ck, seen, version_changed, close_app, prev, inp, cmds>>,
             psv_changed' \in {psv_changed, FALSE}, exited' \in {exited, "quit", "crash"}
      PROVE  Clerks'
  BY <1>1 DEF Clerks
<1>2. CASE UNCHANGED vars
  BY <1>1, <1>2 DEF vars, source, loader, config, input
<1>3. CASE \E f \in Files : Edit(f)
  <2>1. /\ ver' = ver + 1 /\ edits' = edits + 1 /\ edits < MaxEdits
        /\ UNCHANGED <<ck, seen, version_changed, close_app, prev, psv_changed, inp, cmds, exited>>
    BY <1>3 DEF Edit, loader, config, input
  <2>2. MaxEdits \in Nat
    BY WavesAssumption
  <2> QED
    BY <2>1, <2>2 DEF Clerks
<1>4. CASE version_checker
  <2>1. /\ ck' \in {ck, "gone"} /\ seen' \in {seen, ver} /\ version_changed' \in {version_changed, TRUE}
        /\ UNCHANGED <<ver, edits, close_app, prev, psv_changed, inp, cmds, exited>>
    BY <1>4 DEF version_checker, source, config, input
  <2>2. ver \in 0..ver
    BY WavesAssumption DEF Clerks
  <2> QED
    BY <2>1, <2>2 DEF Clerks
<1>5. CASE ReadConfig
  BY <1>1, <1>5 DEF ReadConfig, source, config, input
<1>6. CASE SwapConfig
  <2>1. psv \in Seq(Entry)
    BY DEF WavesInv, WavesType
  <2>2. (psv_changed \/ AnyChange(psv, ld.read)) \in BOOLEAN
    OBVIOUS
  <2>3. psv_changed' \in BOOLEAN
    BY <1>6, <2>2 DEF SwapConfig
  <2>4. /\ close_app' = FALSE /\ prev' = psv /\ version_changed' = FALSE
        /\ UNCHANGED <<ver, edits, ck, seen, inp, cmds, exited>>
    BY <1>6 DEF SwapConfig, source, input
  <2> QED
    BY <2>1, <2>3, <2>4 DEF Clerks
<1>7. CASE Quit
  <2>1. /\ close_app' = TRUE /\ inp' = "gone" /\ cmds' = cmds + 1 /\ cmds < MaxCmds
        /\ UNCHANGED <<ver, edits, ck, seen, version_changed, prev, psv_changed, exited>>
    BY <1>7 DEF Quit, source, config
  <2> QED
    BY <2>1, WavesAssumption DEF Clerks
<1>8. CASE Rst
  <2>1. PICK os : os = {o \in Waves : Live(o) /\ wave[o].id \in Ids(psv)}
    OBVIOUS
  <2>2. exited' \in {exited, "crash"}
    BY <1>8, <2>1, RemovalExit DEF Rst
  <2>3. /\ psv_changed' = TRUE /\ cmds' = cmds + 1 /\ cmds < MaxCmds
        /\ UNCHANGED <<ver, edits, ck, seen, version_changed, close_app, prev, inp>>
    BY <1>8 DEF Rst, source, loader
  <2> QED
    BY <2>2, <2>3, WavesAssumption DEF Clerks
<1>9. CASE \/ ManagerStarts \/ ManagerCloses \/ PassStarts \/ OldEntry \/ OldDone \/ NewEntry
           \/ PassDone \/ Apply \/ MaskSlot \/ RetireOne \/ CopySettings \/ FlagRunners
  BY <1>1, <1>9, ManagerExit
<1>10. ASSUME NEW r \in Runners, CreateRunner(r) \/ Runner(r)
       PROVE  Clerks'
  BY <1>1, <1>10, RunnerExit
<1> QED
  BY <1>2, <1>3, <1>4, <1>5, <1>6, <1>7, <1>8, <1>9, <1>10 DEF Next

LEMMA WavesTypeOK ==
    ASSUME WavesInv, Clerks
    PROVE  TypeOK
<1>1. WavesType
  BY DEF WavesInv
<1>2. ver \in 1..1+MaxEdits
  BY WavesAssumption DEF Clerks
<1>3. \A a \in {psv, prev} : \A i \in DOMAIN a : a[i].c \in Cfg /\ a[i].chg \in BOOLEAN
  <2>1. ASSUME NEW a \in Seq(Entry), NEW i \in DOMAIN a
        PROVE  a[i].c \in Cfg /\ a[i].chg \in BOOLEAN
    <3>1. a[i] \in Entry
      BY ElementOfSeq
    <3> QED
      BY <3>1 DEF Entry
  <2> QED
    BY <1>1, <2>1 DEF WavesType, Clerks
<1>4. /\ mg.at \in MgrAt /\ mg.ret \in {"old", "new"} /\ mg.i \in Nat
      /\ mg.todo \subseteq Waves /\ mg.o \in Waves \cup {Null}
      /\ mg.n \in Nat /\ mg.s \in Nat
  BY <1>1 DEF WavesType, ManagerState
<1>5. \A o \in Waves :
        /\ wave[o].st \in {"none", "live", "freed"} /\ wave[o].c \in Cfg
        /\ wave[o].sock \in BOOLEAN /\ wave[o].trds \in Seq(Slot)
  BY <1>1 DEF WavesType, Object
<1>6. run \in [Runners -> RunnerState]
  BY <1>1 DEF WavesType
<1>7. ld.at \in {"idle", "read", "gone"} /\ ld.read \in Files /\ file \in Files /\ loads \in Nat
  BY <1>1 DEF WavesType
<1> QED
  BY <1>2, <1>3, <1>4, <1>5, <1>6, <1>7 DEF TypeOK, Clerks, RunnerState

\* The state keeps its types: versions, commands and the places of all threads
\* stay in range, and slots hold records (the structures of make_udp_packet).
THEOREM TypeCorrect == Spec => []TypeOK
<1>1. Init => Clerks
  BY ClerksInit
<1>2. WavesInv /\ Clerks /\ [Next]_vars => Clerks'
  BY ClerksStep
<1>3. WavesInv /\ Clerks => TypeOK
  BY WavesTypeOK
<1> QED
  BY <1>1, <1>2, <1>3, WavesInvariant, PTL DEF Spec
=============================================================================

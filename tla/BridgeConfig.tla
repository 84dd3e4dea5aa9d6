---------------------------- MODULE BridgeConfig ----------------------------
(***************************************************************************)
(* The comparison of two configurations of a bridge (BridgeConfig.c).      *)
(*                                                                         *)
(* config_loader asks bridge_cfg_data_equlity whether the settings of a    *)
(* bridge have changed; ConfigReload takes the answer for granted. The     *)
(* inputs, and the outputs, of a bridge are arrays of named entries in the *)
(* order of the file; the names are keys of a JSON object, so they differ. *)
(***************************************************************************)
EXTENDS Integers, FiniteSets, Sequences

CONSTANTS
    Names, Data,    \* names of inputs and outputs, and what they configure
    Solid,          \* values of sol_maintained
    MaxLen          \* bound: inputs, and outputs, of a bridge

ASSUME LenAssumption == MaxLen \in Nat

Entry == [name : Names, data : Data]

\* No two entries have the same name.
Distinct(l) == \A i, j \in DOMAIN l : l[i].name = l[j].name => i = j

Ends == {l \in UNION {[1..n -> Entry] : n \in 0..MaxLen} : Distinct(l)}

Bcfg0 == [sol_maintained : Solid, in : Ends, out : Ends]

\* The first entry of r with the name of l[i].
FirstNamed(l, r, i, j) ==
    /\ l[i].name = r[j].name
    /\ \A k \in 1..(j - 1) : l[i].name # r[k].name

\* The loop over the left entries: each is on the right, with the same data.
LeftInRight(l, r) ==
    \A i \in 1..Len(l) :
        \E j \in 1..Len(r) : FirstNamed(l, r, i, j) /\ l[i].data = r[j].data

\* The loop over the right entries. Its indices are crossed: it looks up the
\* name of the left entry i on the right, and compares the others' data.
RightInLeft(l, r) ==
    \A i \in 1..Len(r) :
        \E j \in 1..Len(l) : FirstNamed(l, r, i, j) /\ r[i].data = l[j].data

\* Mutant: an output is compared by its name alone.
bridge_cfg0_data_equlity_OutNames(left, right) ==
    /\ left.sol_maintained = right.sol_maintained
    /\ Len(left.in) = Len(right.in)
    /\ Len(left.out) = Len(right.out)
    /\ LeftInRight(left.in, right.in)
    /\ RightInLeft(left.in, right.in)
    /\ \A i \in 1..Len(left.out) :
          \E j \in 1..Len(right.out) : FirstNamed(left.out, right.out, i, j)

bridge_cfg0_data_equlity(left, right) ==
    /\ left.sol_maintained = right.sol_maintained
    /\ Len(left.in) = Len(right.in)
    /\ Len(left.out) = Len(right.out)
    /\ LeftInRight(left.in, right.in)
    /\ RightInLeft(left.in, right.in)
    /\ LeftInRight(left.out, right.out)
    /\ RightInLeft(left.out, right.out)

-----------------------------------------------------------------------------
(* Two loads of the configuration of a bridge.                             *)

VARIABLES old_brg, new_brg, loads
compared == <<old_brg, new_brg, loads>>

CompareInit == new_brg \in Bcfg0 /\ old_brg = new_brg /\ loads = 1

Load ==
    /\ loads = 1
    /\ loads' = 2
    /\ old_brg' = new_brg
    /\ new_brg' \in Bcfg0

CompareSpec == CompareInit /\ [][Load]_compared

\* What a list of entries configures.
Content(l) == {l[i] : i \in DOMAIN l}

\* A change of the settings is noticed: if the two loads compare equal, they
\* configure the same inputs and the same outputs in the same way.
ChangeNoticed ==
    bridge_cfg0_data_equlity(old_brg, new_brg)
        => /\ old_brg.sol_maintained = new_brg.sol_maintained
           /\ Content(old_brg.in) = Content(new_brg.in)
           /\ Content(old_brg.out) = Content(new_brg.out)
=============================================================================

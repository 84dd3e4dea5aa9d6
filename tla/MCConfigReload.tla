--------------------------- MODULE MCConfigReload ---------------------------
(***************************************************************************)
(* Instances of ConfigReload for TLC. All outputs go to one destination.   *)
(***************************************************************************)
EXTENDS ConfigReload

Setting(e, d) == [enable |-> e, core |-> "tcp1", data |-> d]

\* Disabled, enabled, and enabled with other data.
ThreeSettings == {Setting(FALSE, 1), Setting(TRUE, 1), Setting(TRUE, 2)}
TwoSettings == {Setting(FALSE, 1), Setting(TRUE, 1)}
=============================================================================

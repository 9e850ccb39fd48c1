--------------------------- MODULE DeviceOptions ---------------------------
(***************************************************************************)
(* Values of the device options (crates/virtual-yubihsm-core/src/device.rs)*)
(* and the partial maps (BTreeMap) the device keeps.                       *)
(***************************************************************************)
EXTENDS Naturals

OFF == 0
ON  == 1
FIX == 2
OptionValues == {OFF, ON, FIX}

\* set_option_value: a fixed option accepts nothing but FIX.
MaySet(current, value) == current = FIX => value = FIX

\* A partial map with one key added or overwritten, or removed.
Insert(map, key, value) ==
  [k \in DOMAIN map \cup {key} |-> IF k = key THEN value ELSE map[k]]

Remove(map, key) == [k \in DOMAIN map \ {key} |-> map[k]]

=============================================================================

------------------------------ MODULE MCDisplay ------------------------------
(***************************************************************************)
(* Five commands before the shutdown: inserting, bus events in any order,  *)
(* an eject and another insertion, Blink Device for up to two seconds.     *)
(***************************************************************************)
EXTENDS Display

==============================================================================

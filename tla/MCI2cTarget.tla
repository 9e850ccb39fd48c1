---------------------------- MODULE MCI2cTarget -----------------------------
(***************************************************************************)
(* Five requests of a controller that may give up at any point: two        *)
(* recoveries with commands in between, or up to five recoveries.          *)
(***************************************************************************)
EXTENDS I2cTarget

=============================================================================

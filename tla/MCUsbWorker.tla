---------------------------- MODULE MCUsbWorker -----------------------------
(***************************************************************************)
(* Four events in any mix: presses and releases that cross with ejecting   *)
(* and inserting, re-enabled endpoints, and up to three requests, enough   *)
(* to fill the response channel behind a writer that the host keeps        *)
(* waiting.                                                                *)
(***************************************************************************)
EXTENDS UsbWorker

=============================================================================

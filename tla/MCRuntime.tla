----------------------------- MODULE MCRuntime -----------------------------
(***************************************************************************)
(* Two processes that take turns on one state file, each with two threads  *)
(* that execute frames.                                                    *)
(***************************************************************************)
EXTENDS RuntimeProperties

CONSTANTS p1, p2, c1, c2

TwoProcesses == {p1, p2}
TwoClients == {c1, c2}

=============================================================================

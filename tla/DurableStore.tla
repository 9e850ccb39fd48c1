---------------------------- MODULE DurableStore ----------------------------
(***************************************************************************)
(* What the persistent runtime promises its clients, in terms of nothing   *)
(* but durable transactions.  They are numbered in the order in which they *)
(* execute; each is first volatile, then durable unless the power goes, and*)
(* a client is told of its success only once it is durable.                *)
(***************************************************************************)
EXTENDS Naturals

VARIABLES
  next,      \* number of the next transaction
  volatile,  \* executed, not in the state file
  durable,   \* in the state file
  told       \* reported successful to a client

vars == <<next, volatile, durable, told>>

Init ==
  /\ next = 1
  /\ volatile = {}
  /\ durable = {}
  /\ told = {}

Execute ==
  /\ next' = next + 1
  /\ volatile' = volatile \cup {next}
  /\ UNCHANGED <<durable, told>>

\* Transactions become durable in order: none overtakes an earlier one.
Persist ==
  \E kept \in SUBSET volatile :
    /\ \A k \in kept, later \in volatile \ kept : k < later
    /\ durable' = durable \cup kept
    /\ volatile' = volatile \ kept
    /\ UNCHANGED <<next, told>>

Tell ==
  \E m \in durable :
    /\ told' = told \cup {m}
    /\ UNCHANGED <<next, volatile, durable>>

\* The volatile ones are lost, together and without a trace.
PowerCycle ==
  /\ volatile' = {}
  /\ UNCHANGED <<next, durable, told>>

Next == Execute \/ Persist \/ Tell \/ PowerCycle

Spec == Init /\ [][Next]_vars

=============================================================================

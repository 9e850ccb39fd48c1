------------------------- MODULE RuntimeProperties -------------------------
(***************************************************************************)
(* What makes the persistent runtime of PersistentRuntime.tla correct.     *)
(***************************************************************************)
EXTENDS PersistentRuntime

Mutations == 1..MaxMutations
Epochs == 0..MaxEpoch
Images == [epoch : Epochs, applied : SUBSET Mutations]

\* Every variable has the type of what it models, the epoch its limited range
\* (persistent_runtime.rs); part of EpochsOrderImages.
RuntimeTypeOK ==
  /\ mode \in {"Immediate", "Batched"}
  /\ disk \in [exists : BOOLEAN, epoch : Epochs, applied : SUBSET Mutations]
  /\ owner \in Processes \cup {None}
  /\ status \in [Processes -> {"down", "opening", "open", "closing", "stopped"}]
  /\ memory \in [Processes ->
       [epoch : Epochs, applied : SUBSET Mutations, change : BOOLEAN]]
  /\ recorded \in [Processes -> 0..MaxMutations]
  /\ saved \in [Processes -> 0..MaxMutations]
  /\ writing \in [Processes ->
       [busy : BOOLEAN, image : Images, upto : 0..MaxMutations]]
  /\ failed \in [Processes -> BOOLEAN]
  /\ mutex \in [Processes -> Clients \cup {None}]
  /\ request \in [Processes -> [Clients ->
       [ pc       : {"idle", "checked", "executed", "refused", "waiting"},
         mutation : 0..MaxMutations,
         ticket   : 0..MaxMutations ]]]
  /\ next \in 1 .. MaxMutations + 1
  /\ told \in SUBSET Mutations

Serving(p) == status[p] \in {"open", "closing"}

\* Executed transactions that only memory knows of.
Unsaved ==
  { m \in Mutations \ disk.applied :
      \E p \in Processes : Serving(p) /\ m \in memory[p].applied }

\* A Batched response says nothing about durability.
Promised == IF mode = "Immediate" THEN told ELSE {}

Promise == INSTANCE DurableStore
             WITH volatile <- Unsaved, durable <- disk.applied, told <- Promised

\* docs/pkcs11rs-connector-integration.md: "Immediate mode waits for durable
\* storage before every successful mutating response."  Whatever clients,
\* writer, failures, crashes and restarts do, the runtime behaves like
\* DurableStore: a transaction is reported only once a crash cannot take it
\* back, and in either mode none becomes durable ahead of an earlier one
\* (persistent_runtime.rs execute_observing).
KeepsPromise == Promise!Spec

\* The state file never goes back: every new image has a later epoch and holds
\* every transaction of the one it replaces, whichever process writes it
\* (persistent_runtime.rs open, shutdown; device.rs take_persistent_change).
DiskMovesForward ==
  [][ disk' # disk =>
        \/ ~disk.exists
        \/ /\ disk'.epoch > disk.epoch
           /\ disk.applied \subseteq disk'.applied ]_vars

\* The epoch never leaves its range and orders images: a serving device is never behind the file, and
\* while the epoch has room, it agrees with it when the epochs do.
EpochsOrderImages ==
  /\ RuntimeTypeOK
  /\ \A p \in Processes : Serving(p) =>
    /\ disk.exists
    /\ memory[p].epoch >= disk.epoch
    /\ memory[p].epoch = disk.epoch /\ ~memory[p].change =>
         memory[p].applied = disk.applied

\* docs: "graceful shutdown flushes pending batched state": a successful
\* shutdown leaves every transaction reported to a client in the file
\* (persistent_runtime.rs shutdown).
StoppedMeansSaved ==
  \A p \in Processes : status[p] = "stopped" =>
    told \cap memory[p].applied \subseteq disk.applied

\* Every frame that is being executed is answered, with a response or an
\* error: nobody waits for a writer that waits for the mutex
\* (persistent_runtime.rs execute_observing).
RequestsEnd ==
  \A p \in Processes, c \in Clients :
    request[p][c].pc # "idle" ~> request[p][c].pc = "idle"

\* What was reported becomes durable unless the process dies or its writer
\* fails first, also when the response did not wait for it.
ReportedBecomesDurable ==
  \A p \in Processes, m \in Mutations :
    status[p] = "open" /\ m \in told \cap memory[p].applied
      ~> m \in disk.applied \/ failed[p] \/ status[p] = "down"

=============================================================================

------------------------- MODULE PersistentRuntime -------------------------
(***************************************************************************)
(* Ownership and persistence of one device's state file, as in             *)
(* crates/virtual-yubihsm-core/src/persistent_runtime.rs: processes        *)
(* (USB worker, I2C target, connector) that open, serve, shut down and     *)
(* crash, the threads that execute frames through a PersistentDeviceHandle,*)
(* and the background writer of software-key-core's StatePersistence, which*)
(* is external and modelled from its use here.                             *)
(*                                                                         *)
(* The device is abstracted to the durable transactions it has executed,   *)
(* numbered in the order of execution, and its state epoch.                *)
(***************************************************************************)
EXTENDS Integers

CONSTANTS
  Processes,     \* processes that may own the state file
  Clients,       \* threads of a process that execute frames
  None,          \* no process or client
  MaxEpoch,      \* where the state epoch overflows (u64::MAX in the code)
  MaxMutations   \* bound on the durable transactions of a model

ASSUME RuntimeAssumption ==
  /\ None \notin Processes \cup Clients
  /\ MaxEpoch \in Nat
  /\ MaxMutations \in Nat

VARIABLES
  mode,       \* PersistenceMode the processes are started with
  disk,       \* the state file: [exists, epoch, applied]
  owner,      \* the process that holds the StateLock
  status,     \* process -> where it is in its life
  memory,     \* process -> the Device: [epoch, applied, change]
  recorded,   \* process -> mutations recorded with the writer
  saved,      \* process -> mutations the writer reported durable
  writing,    \* process -> the snapshot being written
  failed,     \* process -> the writer failed
  mutex,      \* process -> the client that holds the device's mutex
  request,    \* process -> client -> [pc, mutation, ticket]
  next,       \* number of the next durable transaction
  told        \* transactions a client was told have succeeded

fileVars == <<mode, disk, owner>>
writerVars == <<recorded, saved, writing, failed>>
clientVars == <<mutex, request>>
historyVars == <<next, told>>
vars == <<mode, disk, owner, status, memory, recorded, saved, writing, failed,
          mutex, request, next, told>>

\* persistent_state leaves out persistent_change, a restored device has it clear.
FactoryImage == [epoch |-> 0, applied |-> {}]
Image(device) == [epoch |-> device.epoch, applied |-> device.applied]
File(image) == [exists |-> TRUE, epoch |-> image.epoch, applied |-> image.applied]
Restored(image) == [epoch |-> image.epoch, applied |-> image.applied, change |-> FALSE]

NotWriting == [busy |-> FALSE, image |-> FactoryImage, upto |-> 0]
Idle == [pc |-> "idle", mutation |-> 0, ticket |-> 0]
Quiet == [c \in Clients |-> Idle]

\* No state file yet, or one an earlier life has left.
Init ==
  /\ mode \in {"Immediate", "Batched"}
  /\ disk \in { [exists |-> FALSE, epoch |-> 0, applied |-> {}] }
             \cup { File([epoch |-> e, applied |-> {}]) : e \in 1..MaxEpoch }
  /\ owner = None
  /\ status = [p \in Processes |-> "down"]
  /\ memory = [p \in Processes |-> Restored(FactoryImage)]
  /\ recorded = [p \in Processes |-> 0]
  /\ saved = [p \in Processes |-> 0]
  /\ writing = [p \in Processes |-> NotWriting]
  /\ failed = [p \in Processes |-> FALSE]
  /\ mutex = [p \in Processes |-> None]
  /\ request = [p \in Processes |-> Quiet]
  /\ next = 1
  /\ told = {}

-----------------------------------------------------------------------------
(* Opening *)

\* Mutant: the lock is not tried for.
LockAnyway == TRUE

\* A second owner is an error at start-up; the kernel frees a dead owner's lock.
LockFree == owner = None

Open(p) ==
  /\ status[p] \in {"down", "stopped"}
  /\ LockFree
  /\ owner' = p
  /\ status' = [status EXCEPT ![p] = "opening"]
  /\ UNCHANGED <<mode, disk, memory, writerVars, clientVars, historyVars>>

\* load_or_create_state, then StatePersistence::start.
Load(p) ==
  /\ status[p] = "opening"
  /\ disk' = IF disk.exists THEN disk ELSE File(FactoryImage)
  /\ memory' = [memory EXCEPT ![p] = Restored(disk')]
  /\ status' = [status EXCEPT ![p] = "open"]
  /\ recorded' = [recorded EXCEPT ![p] = 0]
  /\ saved' = [saved EXCEPT ![p] = 0]
  /\ failed' = [failed EXCEPT ![p] = FALSE]
  /\ UNCHANGED <<mode, owner, writing, clientVars, historyVars>>

-----------------------------------------------------------------------------
(* execute_observing *)

AtStep(p, c, pc) == status[p] = "open" /\ request[p][c].pc = pc

Goto(p, c, entry) == request' = [request EXCEPT ![p][c] = entry]

\* check_health before anything else; with a failed writer the call ends here.
Begin(p, c) ==
  /\ AtStep(p, c, "idle")
  /\ ~failed[p]
  /\ Goto(p, c, [Idle EXCEPT !.pc = "checked"])
  /\ UNCHANGED <<fileVars, status, memory, writerVars, mutex, historyVars>>

TakesMutex(p, c) == mutex[p] = None /\ mutex' = [mutex EXCEPT ![p] = c]

\* Mutants: the epoch does not advance; a change is not recorded with the
\* writer.
SameEpoch(epoch) == epoch
ForgetsMutation(p) == recorded' = recorded

\* take_persistent_change, with checked_add.
EpochHasRoom(epoch) == epoch < MaxEpoch
NextEpoch(epoch) == epoch + 1

\* StatePersistence::record_mutation of a healthy writer.
RecordsMutation(p) == recorded' = [recorded EXCEPT ![p] = @ + 1]

\* A frame that leaves the durable state alone.
ExecuteRead(p, c) ==
  /\ AtStep(p, c, "checked")
  /\ TakesMutex(p, c)
  /\ ~memory[p].change
  /\ Goto(p, c, [Idle EXCEPT !.pc = "executed"])
  /\ UNCHANGED <<fileVars, status, memory, writerVars, historyVars>>

\* A frame that changes it: the epoch advances and the change is recorded
\* while the mutex is held.
ExecuteMutation(p, c) ==
  /\ AtStep(p, c, "checked")
  /\ TakesMutex(p, c)
  /\ next <= MaxMutations
  /\ EpochHasRoom(memory[p].epoch)
  /\ ~failed[p]
  /\ memory' = [memory EXCEPT ![p].epoch = NextEpoch(@), ![p].applied = @ \cup {next}]
  /\ RecordsMutation(p)
  /\ Goto(p, c, [pc |-> "executed", mutation |-> next, ticket |-> recorded[p] + 1])
  /\ next' = next + 1
  /\ UNCHANGED <<fileVars, status, saved, writing, failed, told>>

\* take_persistent_change finds the epoch exhausted: the device has changed,
\* the client gets an error, and so does every later one.
ExhaustEpoch(p, c) ==
  /\ AtStep(p, c, "checked")
  /\ TakesMutex(p, c)
  /\ ~EpochHasRoom(memory[p].epoch)
  /\ \/ /\ next <= MaxMutations
        /\ memory' = [memory EXCEPT ![p].applied = @ \cup {next}, ![p].change = TRUE]
        /\ next' = next + 1
     \/ /\ memory[p].change
        /\ UNCHANGED <<memory, next>>
  /\ Goto(p, c, [Idle EXCEPT !.pc = "refused"])
  /\ UNCHANGED <<fileVars, status, writerVars, told>>

\* record_mutation finds the writer failed.
ExecuteUnrecorded(p, c) ==
  /\ AtStep(p, c, "checked")
  /\ TakesMutex(p, c)
  /\ next <= MaxMutations
  /\ EpochHasRoom(memory[p].epoch)
  /\ failed[p]
  /\ memory' = [memory EXCEPT ![p].epoch = NextEpoch(@), ![p].applied = @ \cup {next}]
  /\ Goto(p, c, [Idle EXCEPT !.pc = "refused"])
  /\ next' = next + 1
  /\ UNCHANGED <<fileVars, status, writerVars, told>>

\* Mutant: the guard of the mutex lives until the answer is out.
KeepsMutex(p) == mutex' = mutex

ReleasesMutex(p) == mutex' = [mutex EXCEPT ![p] = None]

\* The block that holds the guard ends.
Release(p, c) ==
  /\ ReleasesMutex(p)
  /\ \/ /\ AtStep(p, c, "executed")
        /\ Goto(p, c, [request[p][c] EXCEPT !.pc = "waiting"])
     \/ /\ AtStep(p, c, "refused")
        /\ Goto(p, c, Idle)
  /\ UNCHANGED <<fileVars, status, memory, writerVars, historyVars>>

\* Mutant: the writer is awaited in neither mode.
MayAnswerUnsaved(p, entry) == ~failed[p]

\* mutation.wait() of a mutation, check_health of anything else.
MayAnswer(p, entry) ==
  IF entry.mutation # 0 /\ mode = "Immediate"
    THEN saved[p] >= entry.ticket
    ELSE ~failed[p]

Answer(p, c) ==
  LET entry == request[p][c] IN
  /\ AtStep(p, c, "waiting")
  /\ MayAnswer(p, entry)
  /\ told' = IF entry.mutation = 0 THEN told ELSE told \cup {entry.mutation}
  /\ Goto(p, c, Idle)
  /\ UNCHANGED <<fileVars, status, memory, writerVars, mutex, next>>

AnswerError(p, c) ==
  /\ AtStep(p, c, "waiting")
  /\ failed[p]
  /\ ~MayAnswer(p, request[p][c])
  /\ Goto(p, c, Idle)
  /\ UNCHANGED <<fileVars, status, memory, writerVars, mutex, historyVars>>

-----------------------------------------------------------------------------
(* The background writer (external) *)

\* Encodes the device under its mutex; Batched lets mutations pile up first.
Snapshot(p) ==
  /\ status[p] \in {"open", "closing"}
  /\ ~failed[p]
  /\ ~writing[p].busy
  /\ recorded[p] > saved[p]
  /\ mutex[p] = None
  /\ writing' = [writing EXCEPT ![p] =
       [busy |-> TRUE, image |-> Image(memory[p]), upto |-> recorded[p]]]
  /\ UNCHANGED <<fileVars, status, memory, recorded, saved, failed, clientVars,
                 historyVars>>

\* replace_file_atomically
Written(p) ==
  /\ writing[p].busy
  /\ disk' = File(writing[p].image)
  /\ saved' = [saved EXCEPT ![p] = writing[p].upto]
  /\ writing' = [writing EXCEPT ![p] = NotWriting]
  /\ UNCHANGED <<mode, owner, status, memory, recorded, failed, clientVars, historyVars>>

\* The replacement fails, before or after the new file got its name.
WriteFails(p) ==
  /\ writing[p].busy
  /\ disk' \in {disk, File(writing[p].image)}
  /\ failed' = [failed EXCEPT ![p] = TRUE]
  /\ writing' = [writing EXCEPT ![p] = NotWriting]
  /\ UNCHANGED <<mode, owner, status, memory, recorded, saved, clientVars, historyVars>>

-----------------------------------------------------------------------------
(* Closing *)

\* The frontend has stopped its threads before it lets go of the device.
Shutdown(p) ==
  /\ status[p] = "open"
  /\ request[p] = Quiet
  /\ status' = [status EXCEPT ![p] = "closing"]
  /\ UNCHANGED <<fileVars, memory, writerVars, clientVars, historyVars>>

\* Mutant: the lock goes while the last write is still under way.
WriterIdleOrBusy(p) == failed[p] \/ recorded[p] = saved[p] \/ writing[p].busy

\* StatePersistence::shutdown: everything recorded is written, or the writer
\* failed.
WriterDone(p) ==
  /\ ~writing[p].busy
  /\ failed[p] \/ recorded[p] = saved[p]

\* The lock is dropped last; only an unfailed writer makes it a success.
Close(p) ==
  /\ status[p] = "closing"
  /\ WriterDone(p)
  /\ owner' = None
  /\ status' = [status EXCEPT ![p] = IF failed[p] THEN "down" ELSE "stopped"]
  /\ UNCHANGED <<mode, disk, memory, writerVars, clientVars, historyVars>>

\* The process dies, or fails to load the file.
Crash(p) ==
  /\ status[p] \in {"opening", "open", "closing"}
  /\ owner' = None
  /\ status' = [status EXCEPT ![p] = "down"]
  /\ memory' = [memory EXCEPT ![p] = Restored(FactoryImage)]
  /\ recorded' = [recorded EXCEPT ![p] = 0]
  /\ saved' = [saved EXCEPT ![p] = 0]
  /\ writing' = [writing EXCEPT ![p] = NotWriting]
  /\ failed' = [failed EXCEPT ![p] = FALSE]
  /\ mutex' = [mutex EXCEPT ![p] = None]
  /\ request' = [request EXCEPT ![p] = Quiet]
  /\ UNCHANGED <<mode, disk, historyVars>>

-----------------------------------------------------------------------------

Execute(p, c) ==
  \/ ExecuteRead(p, c) \/ ExecuteMutation(p, c)
  \/ ExhaustEpoch(p, c) \/ ExecuteUnrecorded(p, c)

Client(p, c) ==
  \/ Begin(p, c)
  \/ Execute(p, c)
  \/ Release(p, c)
  \/ Answer(p, c) \/ AnswerError(p, c)

Writer(p) == Snapshot(p) \/ Written(p) \/ WriteFails(p)

Next ==
  \E p \in Processes :
    \/ Open(p) \/ Load(p) \/ Shutdown(p) \/ Close(p) \/ Crash(p)
    \/ Writer(p)
    \/ \E c \in Clients : Client(p, c)

\* Threads run, a write ends one way or the other, and whoever waits for the
\* mutex gets it eventually.
Fairness ==
  \A p \in Processes :
    /\ SF_vars(Snapshot(p))
    /\ WF_vars(Written(p) \/ WriteFails(p))
    /\ WF_vars(Close(p))
    /\ \A c \in Clients :
         /\ SF_vars(Execute(p, c))
         /\ WF_vars(Release(p, c))
         /\ WF_vars(Answer(p, c) \/ AnswerError(p, c))

Spec == Init /\ [][Next]_vars

FairSpec == Spec /\ Fairness

=============================================================================

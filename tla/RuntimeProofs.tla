--------------------------- MODULE RuntimeProofs ---------------------------
(***************************************************************************)
(* Proofs about PersistentRuntime.tla, for any number of processes and     *)
(* threads, any epoch range and any number of transactions: the properties *)
(* EpochsOrderImages, StoppedMeansSaved and DiskMovesForward, and that the *)
(* runtime implements DurableStore.tla.                                    *)
(***************************************************************************)
EXTENDS RuntimeProperties, TLAPS

-----------------------------------------------------------------------------
(* The inductive invariant *)

\* The life in which a process holds the lock.
Owns(p) == status[p] \in {"opening", "open", "closing"}

\* One owner, and nobody else has a write under way or a request to answer.
OwnerInv ==
  /\ \A p \in Processes : owner = p <=> Owns(p)
  /\ \A p \in Processes : ~Serving(p) => ~writing[p].busy
  /\ \A p \in Processes : status[p] # "open" => request[p] = Quiet
  /\ ~disk.exists => disk.applied = {}

\* Transactions are numbered as they execute, none is recorded twice.
CountInv ==
  /\ \A m \in disk.applied \cup told : m < next
  /\ \A p \in Processes :
       /\ \A m \in memory[p].applied : m < next
       /\ recorded[p] < next
       /\ \A c \in Clients : request[p][c].mutation < next

\* The epochs count what is recorded and not yet saved, so that an image not
\* yet written is later than the file it will replace.
EpochInv ==
  \A p \in Processes : Serving(p) =>
    /\ disk.exists
    /\ saved[p] <= recorded[p]
    /\ disk.epoch <= memory[p].epoch
    /\ ~failed[p] => memory[p].epoch + saved[p] = disk.epoch + recorded[p]
    /\ writing[p].busy =>
         /\ ~failed[p]
         /\ saved[p] < writing[p].upto /\ writing[p].upto <= recorded[p]
         /\ memory[p].epoch + writing[p].upto = writing[p].image.epoch + recorded[p]

\* File, image and memory hold more and more of the same transactions, and
\* the image a prefix of memory's.
ContentInv ==
  \A p \in Processes : Serving(p) =>
    /\ disk.applied \subseteq memory[p].applied
    /\ memory[p].epoch = disk.epoch /\ ~memory[p].change =>
         memory[p].applied = disk.applied
    /\ writing[p].busy =>
         LET image == writing[p].image IN
         /\ disk.applied \subseteq image.applied
         /\ image.applied \subseteq memory[p].applied
         /\ memory[p].epoch = image.epoch /\ ~memory[p].change =>
              memory[p].applied = image.applied
         /\ \A kept \in image.applied, later \in memory[p].applied \ image.applied :
              kept < later

\* A ticket at or below a mark of the writer stands for a transaction that
\* the mark covers.
TicketInv ==
  /\ \A p \in Processes, c \in Clients :
       LET entry == request[p][c] IN
       entry.mutation # 0 =>
         /\ entry.mutation \in memory[p].applied
         /\ entry.ticket <= recorded[p]
         /\ entry.ticket <= saved[p] => entry.mutation \in disk.applied
         /\ writing[p].busy /\ entry.ticket <= writing[p].upto =>
              entry.mutation \in writing[p].image.applied
  /\ mode = "Immediate" => told \subseteq disk.applied

\* No client was told of transaction m, and none will be.
Untold(m) ==
  /\ m \notin told
  /\ \A p \in Processes, c \in Clients : request[p][c].mutation # m

\* What the writer does not owe, because the epoch was exhausted, nobody has
\* been promised.
ToldInv ==
  \A p \in Processes :
    /\ Serving(p) /\ ~failed[p] /\ saved[p] = recorded[p] =>
         \A m \in memory[p].applied \ disk.applied : Untold(m)
    /\ Serving(p) /\ writing[p].busy /\ writing[p].upto = recorded[p] =>
         \A m \in memory[p].applied \ writing[p].image.applied : Untold(m)
    /\ status[p] = "stopped" =>
         \A m \in memory[p].applied \ disk.applied : Untold(m)

Inv ==
  /\ RuntimeTypeOK /\ OwnerInv /\ CountInv /\ EpochInv /\ ContentInv
  /\ TicketInv /\ ToldInv

-----------------------------------------------------------------------------
(* Facts about one state *)

Entries ==
  [ pc : {"idle", "checked", "executed", "refused", "waiting"},
    mutation : 0..MaxMutations, ticket : 0..MaxMutations ]

Devices == [epoch : Epochs, applied : SUBSET Mutations, change : BOOLEAN]

Writes == [busy : BOOLEAN, image : Images, upto : 0..MaxMutations]

\* The numbers of a well-typed state are natural.
LEMMA Typed ==
  ASSUME RuntimeTypeOK, NEW p \in Processes
  PROVE  /\ memory[p] \in Devices /\ writing[p] \in Writes
         /\ memory[p].epoch \in Nat /\ memory[p].applied \subseteq Nat
         /\ disk.epoch \in Nat /\ disk.applied \subseteq Nat
         /\ recorded[p] \in Nat /\ saved[p] \in Nat
         /\ writing[p].upto \in Nat /\ writing[p].image.epoch \in Nat
         /\ writing[p].image.applied \subseteq Nat
         /\ next \in Nat /\ MaxEpoch \in Nat /\ MaxMutations \in Nat
         /\ \A c \in Clients : /\ request[p][c] \in Entries
                               /\ request[p][c].mutation \in Nat
                               /\ request[p][c].ticket \in Nat
BY RuntimeAssumption DEF RuntimeTypeOK, Devices, Writes, Entries, Images, Epochs,
   Mutations

\* The entry of an idle thread is one, and stands for no transaction.
LEMMA IdleTyped == /\ Idle \in Entries /\ Idle.mutation = 0
                   /\ Idle.ticket = 0
                   /\ \A c \in Clients : Quiet[c] = Idle
                   /\ Quiet \in [Clients -> Entries]
BY RuntimeAssumption DEF Idle, Quiet, Entries

\* While a process owns the file every other one is out of service.
LEMMA Alone ==
  ASSUME Inv, NEW p \in Processes, Owns(p), NEW q \in Processes, q # p
  PROVE  /\ ~Owns(q) /\ ~Serving(q) /\ ~writing[q].busy
         /\ request[q] = Quiet
         /\ \A c \in Clients : request[q][c].mutation = 0
<1>1. ~Owns(q)
  BY DEF Inv, OwnerInv
<1>2. ~Serving(q) /\ status[q] # "open"
  BY <1>1 DEF Owns, Serving
<1> QED  BY <1>1, <1>2, IdleTyped DEF Inv, OwnerInv

\* What process p's memory holds is what may be lost with it.
LEMMA UnsavedIsMemory ==
  ASSUME Inv, NEW p \in Processes, Serving(p)
  PROVE  Unsaved = memory[p].applied \ disk.applied
<1>1. \A q \in Processes : Serving(q) => q = p
  BY Alone DEF Serving, Owns
<1>2. memory[p].applied \subseteq Mutations
  BY DEF Inv, RuntimeTypeOK
<1> QED  BY <1>1, <1>2 DEF Unsaved

LEMMA UnsavedIsEmpty ==
  ASSUME \A p \in Processes : ~Serving(p)
  PROVE  Unsaved = {}
BY DEF Unsaved

-----------------------------------------------------------------------------
(* Initially *)

LEMMA InitInv == Init => Inv
<1> SUFFICES ASSUME Init PROVE Inv
  OBVIOUS
<1> USE RuntimeAssumption
<1>1. RuntimeTypeOK
  <2>1. disk \in [exists : BOOLEAN, epoch : Epochs, applied : SUBSET Mutations]
    <3>1. CASE disk = [exists |-> FALSE, epoch |-> 0, applied |-> {}]
      BY <3>1 DEF Epochs
    <3>2. ASSUME NEW e \in 1..MaxEpoch, disk = File([epoch |-> e, applied |-> {}])
          PROVE  disk \in [exists : BOOLEAN, epoch : Epochs, applied : SUBSET Mutations]
      BY <3>2 DEF File, Epochs
    <3> QED  BY <3>1, <3>2 DEF Init
  <2>2. memory \in [Processes -> Devices]
    BY DEF Init, Restored, FactoryImage, Devices, Epochs
  <2>3. writing \in [Processes -> Writes]
    BY DEF Init, NotWriting, FactoryImage, Writes, Images, Epochs
  <2>4. request \in [Processes -> [Clients -> Entries]]
    BY IdleTyped DEF Init
  <2> QED  BY <2>1, <2>2, <2>3, <2>4 DEF Init, RuntimeTypeOK, Devices, Writes,
           Entries, Images
<1>2. disk.applied = {}
  BY DEF Init, File
<1>3. \A p \in Processes : /\ memory[p].applied = {} /\ ~writing[p].busy
                           /\ status[p] = "down" /\ request[p] = Quiet
                           /\ recorded[p] = 0
  BY DEF Init, Restored, FactoryImage, NotWriting
<1>4. OwnerInv
  BY <1>2, <1>3 DEF Init, OwnerInv, Owns
<1>5. CountInv
  BY <1>2, <1>3, IdleTyped DEF Init, CountInv
<1>6. EpochInv /\ ContentInv /\ ToldInv
  BY <1>3 DEF EpochInv, ContentInv, ToldInv, Serving
<1>7. TicketInv
  BY <1>3, IdleTyped DEF Init, TicketInv
<1> QED  BY <1>1, <1>4, <1>5, <1>6, <1>7 DEF Inv

-----------------------------------------------------------------------------
(* Steps of a thread *)

\* A thread moves on with the transaction it has, or drops it.
LEMMA ThreadMoves ==
  ASSUME Inv, NEW p \in Processes, NEW c \in Clients, status[p] = "open",
         NEW entry \in Entries, Goto(p, c, entry),
         entry.mutation # 0 => /\ entry.mutation = request[p][c].mutation
                               /\ entry.ticket = request[p][c].ticket,
         mutex' \in [Processes -> Clients \cup {None}],
         UNCHANGED <<fileVars, status, memory, writerVars, historyVars>>
  PROVE  Inv'
<1> USE DEF fileVars, writerVars, historyVars
<1>1. /\ request' \in [Processes -> [Clients -> Entries]]
      /\ \A q \in Processes : q # p => request'[q] = request[q]
      /\ \A q \in Processes, d \in Clients :
           request'[q][d].mutation # 0 =>
             /\ request'[q][d].mutation = request[q][d].mutation
             /\ request'[q][d].ticket = request[q][d].ticket
  <2>1. /\ request \in [Processes -> [Clients -> Entries]]
        /\ request' = [request EXCEPT ![p] = [@ EXCEPT ![c] = entry]]
    BY DEF Inv, RuntimeTypeOK, Goto, Entries
  <2> QED  BY <2>1
<1>2. RuntimeTypeOK'
  BY <1>1 DEF Inv, RuntimeTypeOK, Entries
<1>3. OwnerInv'
  BY <1>1 DEF Inv, OwnerInv, Owns, Serving
<1>4. CountInv'
  <2>1. next \in Nat /\ next > 0
    BY RuntimeAssumption DEF Inv, RuntimeTypeOK
  <2>2. \A q \in Processes, d \in Clients : request'[q][d].mutation < next
    BY <1>1, <2>1 DEF Inv, CountInv
  <2> QED  BY <2>2 DEF Inv, CountInv
<1>5. EpochInv' /\ ContentInv'
  BY DEF Inv, EpochInv, ContentInv, Serving
<1>6. TicketInv'
  BY <1>1 DEF Inv, TicketInv
<1>7. ToldInv'
  <2>1. \A m \in Mutations : Untold(m) => Untold(m)'
    BY <1>1, RuntimeAssumption DEF Untold, Mutations
  <2>2. \A q \in Processes : memory[q].applied \subseteq Mutations
    BY DEF Inv, RuntimeTypeOK
  <2> QED  BY <2>1, <2>2 DEF Inv, ToldInv, Serving
<1> QED  BY <1>2, <1>3, <1>4, <1>5, <1>6, <1>7 DEF Inv

\* A client hears of its own transaction; in Immediate mode its ticket says
\* that the file has it.
LEMMA AnswerKeeps ==
  ASSUME Inv, NEW p \in Processes, NEW c \in Clients, Answer(p, c)
  PROVE  Inv'
<1> USE DEF fileVars, writerVars
<1> DEFINE entry == request[p][c]
<1>1. /\ status[p] = "open" /\ Goto(p, c, Idle) /\ MayAnswer(p, entry)
      /\ told' = IF entry.mutation = 0 THEN told ELSE told \cup {entry.mutation}
      /\ UNCHANGED <<fileVars, status, memory, writerVars, mutex, next>>
  BY DEF Answer, AtStep
<1>2. /\ request' \in [Processes -> [Clients -> Entries]]
      /\ \A q \in Processes : q # p => request'[q] = request[q]
      /\ request'[p][c] = Idle
      /\ \A q \in Processes, d \in Clients : request'[q][d].mutation # 0 =>
            request'[q][d] = request[q][d]
  <2>1. /\ request \in [Processes -> [Clients -> Entries]]
        /\ request' = [request EXCEPT ![p] = [@ EXCEPT ![c] = Idle]]
    BY <1>1 DEF Inv, RuntimeTypeOK, Goto, Entries
  <2> QED  BY <2>1, IdleTyped
<1>3. /\ entry.mutation \in 0..MaxMutations /\ entry.mutation < next
      /\ entry.mutation # 0 => entry.mutation \in Mutations
  BY Typed, RuntimeAssumption DEF Inv, CountInv, Entries, Mutations
<1>4. RuntimeTypeOK'
  BY <1>1, <1>2, <1>3 DEF Inv, RuntimeTypeOK, Entries
<1>5. OwnerInv'
  BY <1>1, <1>2 DEF Inv, OwnerInv, Owns, Serving
<1>6. CountInv'
  <2>1. \A q \in Processes, d \in Clients : request'[q][d].mutation < next
    <3>1. next \in Nat /\ next > 0
      BY RuntimeAssumption DEF Inv, RuntimeTypeOK
    <3>2. \A q \in Processes, d \in Clients :
            request'[q][d].mutation = 0 \/ request'[q][d].mutation < next
      BY <1>2 DEF Inv, CountInv
    <3> QED  BY <3>1, <3>2
  <2>2. \A m \in disk.applied \cup told' : m < next
    BY <1>1, <1>3 DEF Inv, CountInv
  <2> QED  BY <1>1, <2>1, <2>2 DEF Inv, CountInv
<1>7. EpochInv' /\ ContentInv'
  BY <1>1 DEF Inv, EpochInv, ContentInv, Serving
<1>8. TicketInv'
  <2>1. mode = "Immediate" /\ entry.mutation # 0 => entry.mutation \in disk.applied
    <3>1. saved[p] \in Nat /\ entry.ticket \in Nat
      BY Typed DEF Inv
    <3> QED  BY <1>1, <3>1 DEF Inv, TicketInv, MayAnswer
  <2> QED  BY <1>1, <1>2, <2>1 DEF Inv, TicketInv
<1>9. ToldInv'
  <2>1. \A m \in Mutations : Untold(m) => Untold(m)'
    BY <1>1, <1>2, RuntimeAssumption DEF Untold, Mutations
  <2>2. \A q \in Processes : memory[q].applied \subseteq Mutations
    BY DEF Inv, RuntimeTypeOK
  <2> QED  BY <1>1, <2>1, <2>2 DEF Inv, ToldInv, Serving
<1> QED  BY <1>4, <1>5, <1>6, <1>7, <1>8, <1>9 DEF Inv

\* What all three ways of executing a change have in common: the next
\* transaction joins the memory of the process, whose thread goes on with it
\* or without any.
Joins(p, c, epoch, entry) ==
  /\ status[p] = "open"
  /\ next <= MaxMutations /\ next' = next + 1
  /\ memory' \in [Processes -> Devices]
  /\ memory'[p].applied = memory[p].applied \cup {next}
  /\ memory'[p].epoch = epoch
  /\ \A q \in Processes : q # p => memory'[q] = memory[q]
  /\ Goto(p, c, entry)
  /\ mutex' \in [Processes -> Clients \cup {None}]
  /\ UNCHANGED <<fileVars, status, saved, writing, failed, told>>

\* The invariants that such a step keeps for the same reason in each way.
LEMMA JoinsKeeps ==
  ASSUME Inv, NEW p \in Processes, NEW c \in Clients, NEW epoch \in Epochs,
         NEW entry \in Entries, Joins(p, c, epoch, entry),
         entry.mutation \in {0, next}
  PROVE  /\ request' \in [Processes -> [Clients -> Entries]]
         /\ \A q \in Processes, d \in Clients :
              request'[q][d].mutation # 0 =>
                \/ request'[q][d] = request[q][d]
                \/ q = p /\ request'[q][d] = entry /\ entry.mutation = next
         /\ \A q \in Processes : q # p => request'[q] = request[q]
         /\ OwnerInv'
         /\ (recorded' \in [Processes -> 0..MaxMutations] => RuntimeTypeOK')
         /\ ((\A q \in Processes : recorded'[q] < next') => CountInv')
         /\ \A q \in Processes : \A m \in memory[q].applied :
              Untold(m) => Untold(m)'
         /\ entry.mutation = 0 => \A m \in {next} : Untold(m)'
         /\ \A q \in Processes : next \notin memory[q].applied
         /\ next \notin disk.applied
<1> USE DEF fileVars
<1>1. /\ request' \in [Processes -> [Clients -> Entries]]
      /\ \A q \in Processes : q # p => request'[q] = request[q]
      /\ \A q \in Processes, d \in Clients :
           \/ request'[q][d] = request[q][d]
           \/ q = p /\ request'[q][d] = entry
  <2>1. /\ request \in [Processes -> [Clients -> Entries]]
        /\ request' = [request EXCEPT ![p] = [@ EXCEPT ![c] = entry]]
    BY DEF Inv, RuntimeTypeOK, Joins, Goto, Entries
  <2> QED  BY <2>1
<1>2. /\ next \in Nat /\ next > 0 /\ next \in Mutations
      /\ next' \in 1..MaxMutations + 1
  BY RuntimeAssumption DEF Inv, RuntimeTypeOK, Joins, Mutations
<1>3. \A q \in Processes, d \in Clients :
        request'[q][d].mutation # 0 =>
          \/ request'[q][d] = request[q][d]
          \/ q = p /\ request'[q][d] = entry /\ entry.mutation = next
  BY <1>1
<1>4. OwnerInv'
  BY <1>1 DEF Inv, OwnerInv, Owns, Serving, Joins
<1>5. recorded' \in [Processes -> 0..MaxMutations] => RuntimeTypeOK'
  BY <1>1, <1>2 DEF Inv, RuntimeTypeOK, Entries, Devices, Joins
<1>6. (\A q \in Processes : recorded'[q] < next') => CountInv'
  <2>1. \A q \in Processes : \A m \in memory'[q].applied : m < next'
    <3>1. SUFFICES ASSUME NEW q \in Processes, NEW m \in memory'[q].applied
                   PROVE  m < next'
      OBVIOUS
    <3>2. m = next \/ (m \in Nat /\ m < next)
      BY Typed DEF Joins, Inv, CountInv
    <3> QED  BY <1>2, <3>2 DEF Joins
  <2>2. \A m \in disk'.applied \cup told' : m < next'
    <3>1. \A m \in disk.applied \cup told : m \in Nat /\ m < next
      BY RuntimeAssumption DEF Inv, CountInv, RuntimeTypeOK, Mutations
    <3> QED  BY <1>2, <3>1 DEF Joins
  <2>3. \A q \in Processes, d \in Clients : request'[q][d].mutation < next'
    <3>1. \A q \in Processes, d \in Clients :
            request[q][d].mutation \in Nat /\ request[q][d].mutation < next
      BY Typed DEF Inv, CountInv
    <3> QED  BY <1>1, <1>2, <3>1 DEF Joins
  <2> QED  BY <2>1, <2>2, <2>3 DEF CountInv
<1>7. \A q \in Processes : next \notin memory[q].applied
  BY <1>2 DEF Inv, CountInv
<1>8. next \notin disk.applied /\ next \notin told
  BY <1>2 DEF Inv, CountInv
<1>9. \A q \in Processes : \A m \in memory[q].applied : Untold(m) => Untold(m)'
  <2>1. \A q \in Processes : \A m \in memory[q].applied : m # 0 /\ m # next
    BY <1>7, RuntimeAssumption DEF Inv, RuntimeTypeOK, Mutations
  <2> QED  BY <1>1, <2>1 DEF Untold, Joins
<1>10. entry.mutation = 0 => \A m \in {next} : Untold(m)'
  <2>1. \A q \in Processes, d \in Clients : request[q][d].mutation # next
    BY <1>2, Typed DEF Inv, CountInv
  <2> QED  BY <1>1, <1>2, <1>8, <2>1 DEF Untold, Joins
<1> QED  BY <1>1, <1>3, <1>4, <1>5, <1>6, <1>7, <1>8, <1>9, <1>10

\* A recorded change: memory's epoch and the writer's debt grow together, and
\* the new ticket is above every mark.
LEMMA ExecuteMutationKeeps ==
  ASSUME Inv, NEW p \in Processes, NEW c \in Clients, ExecuteMutation(p, c)
  PROVE  Inv'
<1> USE DEF fileVars
<1> DEFINE entry == [pc |-> "executed", mutation |-> next, ticket |-> recorded[p] + 1]
           epoch == memory[p].epoch + 1
<1>1. /\ recorded' = [recorded EXCEPT ![p] = @ + 1]
      /\ ~failed[p] /\ status[p] = "open"
  BY DEF ExecuteMutation, RecordsMutation, AtStep
<1>2. /\ recorded[p] \in Nat /\ recorded[p] < next /\ next <= MaxMutations
      /\ next \in Nat /\ next > 0 /\ MaxMutations \in Nat
  BY Typed DEF ExecuteMutation, Inv, CountInv, RuntimeTypeOK
<1>3. /\ recorded' \in [Processes -> 0..MaxMutations]
      /\ recorded'[p] = recorded[p] + 1
      /\ \A q \in Processes : q # p => recorded'[q] = recorded[q]
  BY <1>1, <1>2 DEF Inv, RuntimeTypeOK
<1>4. entry \in Entries /\ epoch \in Epochs /\ entry.mutation = next
  BY <1>2, Typed DEF Entries, Epochs, ExecuteMutation, EpochHasRoom, Inv
<1>5. Joins(p, c, epoch, entry) /\ memory'[p].change = memory[p].change
  <2>1. /\ memory' = [memory EXCEPT ![p].epoch = epoch, ![p].applied = @ \cup {next}]
        /\ memory \in [Processes -> Devices] /\ memory[p] \in Devices
        /\ next \in Mutations
    BY RuntimeAssumption DEF ExecuteMutation, NextEpoch, Inv, RuntimeTypeOK, Devices, Mutations
  <2>2. /\ memory'[p] = [epoch |-> epoch, applied |-> memory[p].applied \cup {next},
                         change |-> memory[p].change]
        /\ \A q \in Processes : q # p => memory'[q] = memory[q]
        /\ memory' = [q \in Processes |-> memory'[q]]
    BY <2>1 DEF Devices
  <2>3. mutex' \in [Processes -> Clients \cup {None}]
    BY DEF ExecuteMutation, TakesMutex, Inv, RuntimeTypeOK
  <2>4. memory' \in [Processes -> Devices]
    <3>1. memory'[p] \in Devices
      BY <1>4, <2>1, <2>2 DEF Devices
    <3> QED  BY <2>1, <2>2, <3>1
  <2>5. /\ status[p] = "open" /\ next <= MaxMutations /\ next' = next + 1
        /\ Goto(p, c, entry)
        /\ UNCHANGED <<fileVars, status, saved, writing, failed, told>>
    BY DEF ExecuteMutation, AtStep
  <2> QED  BY <2>1, <2>2, <2>3, <2>4, <2>5 DEF Joins
<1> HIDE DEF entry, epoch
<1>6. RuntimeTypeOK' /\ OwnerInv'
  BY <1>3, <1>4, <1>5, JoinsKeeps
<1>7. CountInv'
  <2>1. \A q \in Processes : recorded'[q] < next'
    BY <1>2, <1>3, <1>5, Typed DEF Joins, Inv, CountInv
  <2> QED  BY <1>4, <1>5, <2>1, JoinsKeeps
<1>8. /\ memory'[p].applied = memory[p].applied \cup {next}
      /\ memory'[p].epoch = memory[p].epoch + 1
      /\ Serving(p) /\ \A q \in Processes : Serving(q)' => q = p
      /\ UNCHANGED <<disk, saved, writing, failed, mode, told, status>>
  BY <1>1, <1>5, Alone DEF Joins, Serving, Owns, epoch
<1>9. EpochInv'
  <2>1. /\ memory[p].epoch \in Nat /\ disk.epoch \in Nat /\ saved[p] \in Nat
        /\ writing[p].upto \in Nat /\ writing[p].image.epoch \in Nat
    BY Typed DEF Inv
  <2> QED  BY <1>1, <1>2, <1>3, <1>8, <2>1 DEF Inv, EpochInv
<1>10. ContentInv'
  <2>1. /\ memory[p].epoch \in Nat /\ disk.epoch \in Nat
        /\ writing[p].upto \in Nat /\ writing[p].image.epoch \in Nat
        /\ saved[p] \in Nat
    BY Typed DEF Inv
  <2>2. disk.epoch < memory'[p].epoch
    BY <1>8, <2>1 DEF Inv, EpochInv
  <2>3. writing[p].busy =>
          /\ writing[p].image.epoch < memory'[p].epoch
          /\ \A m \in writing[p].image.applied : m < next
    BY <1>2, <1>8, <2>1 DEF Inv, EpochInv, ContentInv, CountInv
  <2> QED  BY <1>8, <2>1, <2>2, <2>3 DEF Inv, ContentInv
<1>11. TicketInv'
  <2>1. \A q \in Processes, d \in Clients : request'[q][d].mutation # 0 =>
          \/ request'[q][d] = request[q][d]
          \/ q = p /\ request'[q][d] = entry
    BY <1>4, <1>5, JoinsKeeps
  <2>2. \A q \in Processes : /\ recorded[q] \in Nat /\ saved[q] \in Nat
                             /\ writing[q].upto \in Nat
                             /\ \A d \in Clients : request[q][d].ticket \in Nat
    BY Typed DEF Inv
  <2>3. /\ saved[p] <= recorded[p]
        /\ writing[p].busy => writing[p].upto <= recorded[p]
    BY <1>8 DEF Inv, EpochInv
  <2>4. entry.mutation = next /\ entry.ticket = recorded[p] + 1
    BY DEF entry
  <2>5. \A q \in Processes : memory[q].applied \subseteq memory'[q].applied
    BY <1>5 DEF Joins
  <2>6. \A q \in Processes, d \in Clients :
          request[q][d].ticket <= recorded[q] =>
          request[q][d].ticket <= recorded'[q]
    BY <1>3, <2>2
  <2> QED  BY <1>3, <1>8, <2>1, <2>2, <2>3, <2>4, <2>5, <2>6 DEF Inv, TicketInv
<1>12. ToldInv'
  <2>1. \A q \in Processes : \A m \in memory[q].applied :
          Untold(m) => Untold(m)'
    BY <1>4, <1>5, JoinsKeeps
  <2>2. /\ saved[p] # recorded'[p]
        /\ writing[p].busy => writing[p].upto # recorded'[p]
    BY <1>2, <1>3, <1>8, Typed DEF Inv, EpochInv
  <2>3. \A q \in Processes : q # p => memory'[q] = memory[q]
    BY <1>5 DEF Joins
  <2> QED  BY <1>1, <1>8, <2>1, <2>2, <2>3 DEF Inv, ToldInv
<1> QED  BY <1>6, <1>7, <1>9, <1>10, <1>11, <1>12 DEF Inv

\* A change the writer does not hear of, because it failed or because the
\* epoch is exhausted, stays out of the writer's accounts and nobody is told.
LEMMA UnrecordedKeeps ==
  ASSUME Inv, NEW p \in Processes, NEW c \in Clients, NEW epoch \in Epochs,
         NEW entry \in Entries, entry.mutation = 0,
         Joins(p, c, epoch, entry), recorded' = recorded,
         \/ failed[p] /\ epoch = memory[p].epoch + 1
         \/ memory'[p].change /\ epoch = memory[p].epoch
  PROVE  Inv'
<1>1. /\ memory'[p].applied = memory[p].applied \cup {next}
      /\ memory'[p].epoch = epoch /\ next' = next + 1
      /\ \A q \in Processes : q # p => memory'[q] = memory[q]
      /\ UNCHANGED <<disk, owner, mode, saved, writing, failed, told, status>>
  BY DEF Joins, fileVars
<1>2. Serving(p) /\ \A q \in Processes : Serving(q)' => q = p
  BY <1>1, Alone DEF Joins, Serving, Owns
<1>3. RuntimeTypeOK' /\ OwnerInv'
  <2>1. recorded' \in [Processes -> 0..MaxMutations]
    BY DEF Inv, RuntimeTypeOK
  <2> QED  BY <2>1, JoinsKeeps
<1>4. CountInv'
  <2>1. \A q \in Processes : recorded'[q] < next'
    BY <1>1, Typed DEF Inv, CountInv
  <2> QED  BY <2>1, JoinsKeeps
<1>5. /\ memory[p].epoch \in Nat /\ disk.epoch \in Nat /\ saved[p] \in Nat
      /\ recorded[p] \in Nat /\ next \in Nat
      /\ writing[p].upto \in Nat /\ writing[p].image.epoch \in Nat
      /\ epoch \in Nat
  BY Typed, RuntimeAssumption DEF Inv, Epochs
<1>6. /\ memory[p].epoch <= epoch
      /\ ~failed[p] => epoch = memory[p].epoch
      /\ memory'[p].change \/ memory[p].epoch < epoch
  BY <1>5
<1>7. EpochInv'
  BY <1>1, <1>2, <1>5, <1>6 DEF Inv, EpochInv
<1>8. ContentInv'
  <2>1. \A m \in memory[p].applied : m < next
    BY DEF Inv, CountInv
  <2>2. writing[p].busy => ~failed[p]
    BY <1>2 DEF Inv, EpochInv
  <2>3. memory'[p].change \/ disk.epoch < memory'[p].epoch
    BY <1>1, <1>2, <1>5, <1>6 DEF Inv, EpochInv
  <2>4. writing[p].busy => memory'[p].change
    BY <1>5, <1>6, <2>2
  <2>5. writing[p].busy =>
          \A kept \in writing[p].image.applied,
             later \in memory'[p].applied \ writing[p].image.applied : kept < later
    BY <1>1, <1>2, <2>1 DEF Inv, ContentInv
  <2>6. disk.applied \subseteq memory'[p].applied
    BY <1>1, <1>2 DEF Inv, ContentInv
  <2>7. writing[p].busy =>
          /\ disk.applied \subseteq writing[p].image.applied
          /\ writing[p].image.applied \subseteq memory'[p].applied
    BY <1>1, <1>2 DEF Inv, ContentInv
  <2>8. ~(memory'[p].epoch = disk.epoch /\ ~memory'[p].change)
    BY <1>1, <1>5, <2>3
  <2> QED  BY <1>1, <1>2, <2>4, <2>5, <2>6, <2>7, <2>8 DEF ContentInv
<1>9. TicketInv'
  <2>1. \A q \in Processes, d \in Clients : request'[q][d].mutation # 0 =>
          request'[q][d] = request[q][d]
    BY <1>5, JoinsKeeps
  <2>2. \A q \in Processes : memory[q].applied \subseteq memory'[q].applied
    BY <1>1
  <2> QED  BY <1>1, <2>1, <2>2 DEF Inv, TicketInv
<1>10. ToldInv'
  <2>1. \A q \in Processes : \A m \in memory[q].applied :
          Untold(m) => Untold(m)'
    BY JoinsKeeps
  <2>2. \A m \in {next} : Untold(m)'
    BY JoinsKeeps
  <2> QED  BY <1>1, <1>2, <2>1, <2>2 DEF Inv, ToldInv
<1> QED  BY <1>3, <1>4, <1>7, <1>8, <1>9, <1>10 DEF Inv

LEMMA ExecuteUnrecordedKeeps ==
  ASSUME Inv, NEW p \in Processes, NEW c \in Clients, ExecuteUnrecorded(p, c)
  PROVE  Inv'
<1> USE DEF fileVars, writerVars
<1> DEFINE entry == [Idle EXCEPT !.pc = "refused"]
           epoch == memory[p].epoch + 1
<1>1. entry \in Entries /\ entry.mutation = 0 /\ epoch \in Epochs
  BY Typed, RuntimeAssumption DEF Idle, Entries, Epochs, ExecuteUnrecorded,
     EpochHasRoom, Inv
<1>2. Joins(p, c, epoch, entry)
  <2>1. /\ memory' = [memory EXCEPT ![p].epoch = epoch, ![p].applied = @ \cup {next}]
        /\ memory \in [Processes -> Devices] /\ memory[p] \in Devices
        /\ next \in Mutations
    BY RuntimeAssumption DEF ExecuteUnrecorded, NextEpoch, Inv, RuntimeTypeOK, Devices, Mutations
  <2>2. /\ memory'[p] = [epoch |-> epoch, applied |-> memory[p].applied \cup {next},
                         change |-> memory[p].change]
        /\ \A q \in Processes : q # p => memory'[q] = memory[q]
        /\ memory' = [q \in Processes |-> memory'[q]]
    BY <2>1 DEF Devices
  <2>3. mutex' \in [Processes -> Clients \cup {None}]
    BY DEF ExecuteUnrecorded, TakesMutex, Inv, RuntimeTypeOK
  <2>4. memory' \in [Processes -> Devices]
    <3>1. memory'[p] \in Devices
      BY <1>1, <2>1, <2>2 DEF Devices
    <3> QED  BY <2>1, <2>2, <3>1
  <2>5. /\ status[p] = "open" /\ next <= MaxMutations /\ next' = next + 1
        /\ Goto(p, c, entry)
        /\ UNCHANGED <<fileVars, status, saved, writing, failed, told>>
    BY DEF ExecuteUnrecorded, AtStep
  <2> QED  BY <2>1, <2>2, <2>3, <2>4, <2>5 DEF Joins
<1>3. failed[p] /\ recorded' = recorded
  BY DEF ExecuteUnrecorded
<1> QED  BY <1>1, <1>2, <1>3, UnrecordedKeeps

LEMMA ExhaustEpochKeeps ==
  ASSUME Inv, NEW p \in Processes, NEW c \in Clients, ExhaustEpoch(p, c)
  PROVE  Inv'
<1> USE DEF fileVars, writerVars
<1> DEFINE entry == [Idle EXCEPT !.pc = "refused"]
           epoch == memory[p].epoch
<1>1. /\ entry \in Entries /\ entry.mutation = 0 /\ epoch \in Epochs
      /\ mutex' \in [Processes -> Clients \cup {None}]
      /\ recorded' = recorded
  <2>1. entry \in Entries /\ entry.mutation = 0
    BY RuntimeAssumption DEF Idle, Entries
  <2>2. epoch \in Epochs
    BY Typed DEF Devices, Inv
  <2>3. mutex' \in [Processes -> Clients \cup {None}] /\ recorded' = recorded
    BY DEF ExhaustEpoch, TakesMutex, Inv, RuntimeTypeOK
  <2> QED  BY <2>1, <2>2, <2>3
<1>2. CASE /\ next <= MaxMutations
           /\ memory' = [memory EXCEPT ![p].applied = @ \cup {next}, ![p].change = TRUE]
           /\ next' = next + 1
  <2>1. /\ memory \in [Processes -> Devices] /\ memory[p] \in Devices
        /\ next \in Mutations
    BY <1>2, RuntimeAssumption DEF Inv, RuntimeTypeOK, Devices, Mutations
  <2>2. /\ memory'[p] = [epoch |-> epoch, applied |-> memory[p].applied \cup {next},
                         change |-> TRUE]
        /\ \A q \in Processes : q # p => memory'[q] = memory[q]
        /\ memory' = [q \in Processes |-> memory'[q]]
    BY <1>2, <2>1 DEF Devices
  <2>3. memory' \in [Processes -> Devices]
    <3>1. memory'[p] \in Devices
      BY <1>1, <2>1, <2>2 DEF Devices
    <3> QED  BY <2>1, <2>2, <3>1
  <2>4. Joins(p, c, epoch, entry) /\ memory'[p].change
    BY <1>1, <1>2, <2>1, <2>2, <2>3 DEF Joins, ExhaustEpoch, AtStep
  <2> QED  BY <1>1, <2>4, UnrecordedKeeps
<1>3. CASE UNCHANGED <<memory, next>>
  BY <1>1, <1>3, ThreadMoves DEF ExhaustEpoch, AtStep, historyVars
<1> QED  BY <1>2, <1>3 DEF ExhaustEpoch

\* Every step of a thread.
LEMMA ClientKeeps ==
  ASSUME Inv, NEW p \in Processes, NEW c \in Clients, Client(p, c)
  PROVE  Inv'
<1>1. /\ request[p][c] \in Entries
      /\ mutex \in [Processes -> Clients \cup {None}]
  BY Typed DEF Inv, RuntimeTypeOK
<1>2. CASE Begin(p, c)
  <2>1. [Idle EXCEPT !.pc = "checked"] \in Entries
    BY RuntimeAssumption DEF Idle, Entries
  <2>2. [Idle EXCEPT !.pc = "checked"].mutation = 0
    BY DEF Idle
  <2> QED  BY <1>1, <1>2, <2>1, <2>2, ThreadMoves DEF Begin, AtStep
<1>3. CASE ExecuteRead(p, c)
  <2>1. [Idle EXCEPT !.pc = "executed"] \in Entries
    BY RuntimeAssumption DEF Idle, Entries
  <2>2. [Idle EXCEPT !.pc = "executed"].mutation = 0
    BY DEF Idle
  <2>3. mutex' \in [Processes -> Clients \cup {None}]
    BY <1>1, <1>3 DEF ExecuteRead, TakesMutex
  <2> QED  BY <1>3, <2>1, <2>2, <2>3, ThreadMoves DEF ExecuteRead, AtStep
<1>4. CASE Release(p, c)
  <2>1. mutex' \in [Processes -> Clients \cup {None}]
    BY <1>1, <1>4 DEF Release, ReleasesMutex
  <2>2. CASE /\ AtStep(p, c, "executed")
             /\ Goto(p, c, [request[p][c] EXCEPT !.pc = "waiting"])
    <3>1. [request[p][c] EXCEPT !.pc = "waiting"] \in Entries
      BY <1>1 DEF Entries
    <3>2. /\ [request[p][c] EXCEPT !.pc = "waiting"].mutation = request[p][c].mutation
          /\ [request[p][c] EXCEPT !.pc = "waiting"].ticket = request[p][c].ticket
      BY <1>1 DEF Entries
    <3> QED  BY <1>4, <2>1, <2>2, <3>1, <3>2, ThreadMoves DEF Release, AtStep
  <2>3. CASE AtStep(p, c, "refused") /\ Goto(p, c, Idle)
    BY <1>4, <2>1, <2>3, IdleTyped, ThreadMoves DEF Release, AtStep
  <2> QED  BY <1>4, <2>2, <2>3 DEF Release
<1>5. CASE AnswerError(p, c)
  BY <1>1, <1>5, IdleTyped, ThreadMoves DEF AnswerError, AtStep
<1> QED  BY <1>2, <1>3, <1>4, <1>5, AnswerKeeps, ExecuteMutationKeeps,
         ExhaustEpochKeeps, ExecuteUnrecordedKeeps DEF Client, Execute

-----------------------------------------------------------------------------
(* Steps of the writer *)

\* A snapshot is memory itself, and everything recorded is in it.
LEMMA SnapshotKeeps ==
  ASSUME Inv, NEW p \in Processes, Snapshot(p)
  PROVE  Inv'
<1> USE DEF fileVars, clientVars, historyVars
<1> DEFINE write == [busy |-> TRUE, image |-> Image(memory[p]), upto |-> recorded[p]]
<1>1. /\ Serving(p) /\ ~failed[p] /\ recorded[p] > saved[p]
      /\ UNCHANGED <<fileVars, status, memory, recorded, saved, failed,
                     clientVars, historyVars>>
  BY DEF Snapshot, Serving
<1>2. write \in Writes
  BY Typed DEF Image, Writes, Images, Devices, Inv, RuntimeTypeOK
<1>3. /\ writing' \in [Processes -> Writes] /\ writing'[p] = write
      /\ \A q \in Processes : q # p => writing'[q] = writing[q]
  BY <1>2 DEF Snapshot, Inv, RuntimeTypeOK, Writes
<1>4. /\ write.busy /\ write.upto = recorded[p]
      /\ write.image.epoch = memory[p].epoch
      /\ write.image.applied = memory[p].applied
  BY DEF Image
<1> HIDE DEF write
<1>5. \A q \in Processes : Serving(q) => q = p
  BY <1>1, Alone DEF Serving, Owns
<1>6. RuntimeTypeOK'
  BY <1>1, <1>3 DEF Inv, RuntimeTypeOK, Writes
<1>7. OwnerInv'
  BY <1>1, <1>3 DEF Inv, OwnerInv, Owns, Serving
<1>8. CountInv'
  BY <1>1 DEF Inv, CountInv
<1>9. EpochInv'
  <2>1. /\ recorded[p] \in Nat /\ saved[p] \in Nat /\ memory[p].epoch \in Nat
    BY Typed DEF Inv
  <2> QED  BY <1>1, <1>3, <1>4, <1>5, <2>1 DEF Inv, EpochInv, Serving
<1>10. ContentInv'
  BY <1>1, <1>3, <1>4, <1>5 DEF Inv, ContentInv, Serving
<1>11. TicketInv'
  BY <1>1, <1>3, <1>4 DEF Inv, TicketInv
<1>12. ToldInv'
  BY <1>1, <1>3, <1>4, <1>5 DEF Inv, ToldInv, Serving, Untold
<1> QED  BY <1>6, <1>7, <1>8, <1>9, <1>10, <1>11, <1>12 DEF Inv

\* The image takes the file's place, and the writer says so or fails.
Replaces(p) ==
  /\ writing[p].busy
  /\ disk' = File(writing[p].image)
  /\ writing' = [writing EXCEPT ![p] = NotWriting]
  /\ \/ saved' = [saved EXCEPT ![p] = writing[p].upto] /\ failed' = failed
     \/ saved' = saved /\ failed' = [failed EXCEPT ![p] = TRUE]
  /\ UNCHANGED <<mode, owner, status, memory, recorded, clientVars, historyVars>>

LEMMA NotWritingTyped == NotWriting \in Writes /\ ~NotWriting.busy
BY RuntimeAssumption DEF NotWriting, Writes, Images, FactoryImage, Epochs, Mutations

LEMMA ReplacesKeeps ==
  ASSUME Inv, NEW p \in Processes, Replaces(p)
  PROVE  /\ Inv'
         /\ Serving(p) /\ disk'.exists /\ disk'.epoch > disk.epoch
         /\ disk'.applied = writing[p].image.applied
<1> USE DEF clientVars, historyVars
<1> DEFINE image == writing[p].image
<1>1. /\ writing[p].busy /\ Serving(p)
      /\ UNCHANGED <<mode, owner, status, memory, recorded, mutex, request,
                     next, told>>
  BY DEF Replaces, Inv, OwnerInv
<1>2. /\ disk' = [exists |-> TRUE, epoch |-> image.epoch, applied |-> image.applied]
      /\ disk' \in [exists : BOOLEAN, epoch : Epochs, applied : SUBSET Mutations]
  BY Typed DEF Replaces, File, Inv, Writes, Images
<1>3. /\ writing' \in [Processes -> Writes] /\ ~writing'[p].busy
      /\ \A q \in Processes : q # p => writing'[q] = writing[q]
  BY NotWritingTyped DEF Replaces, Inv, RuntimeTypeOK, Writes
<1>4. \A q \in Processes : Serving(q) => q = p
  BY <1>1, Alone DEF Serving, Owns
<1>5. /\ recorded[p] \in Nat /\ saved[p] \in Nat /\ memory[p].epoch \in Nat
      /\ disk.epoch \in Nat /\ writing[p].upto \in Nat /\ image.epoch \in Nat
  BY Typed DEF Inv
<1>6. /\ ~failed[p] /\ saved[p] < writing[p].upto /\ writing[p].upto <= recorded[p]
      /\ memory[p].epoch + writing[p].upto = image.epoch + recorded[p]
      /\ memory[p].epoch + saved[p] = disk.epoch + recorded[p]
  BY <1>1 DEF Inv, EpochInv
<1>7. disk.epoch < image.epoch /\ image.epoch <= memory[p].epoch
  BY <1>5, <1>6
<1>8. /\ saved' \in [Processes -> 0..MaxMutations]
      /\ failed' \in [Processes -> BOOLEAN]
      /\ \A q \in Processes : q # p => saved'[q] = saved[q] /\ failed'[q] = failed[q]
  BY Typed DEF Replaces, Inv, RuntimeTypeOK, Writes
<1>9. \/ saved'[p] = writing[p].upto /\ ~failed'[p]
      \/ saved'[p] = saved[p] /\ failed'[p]
  BY <1>6 DEF Replaces, Inv, RuntimeTypeOK
<1>10. /\ disk.applied \subseteq image.applied
       /\ image.applied \subseteq memory[p].applied
       /\ memory[p].epoch = image.epoch /\ ~memory[p].change =>
            memory[p].applied = image.applied
  BY <1>1 DEF Inv, ContentInv
<1> HIDE DEF image
<1>11. RuntimeTypeOK'
  BY <1>1, <1>2, <1>3, <1>8 DEF Inv, RuntimeTypeOK, Writes
<1>12. OwnerInv'
  BY <1>1, <1>2, <1>3 DEF Inv, OwnerInv, Owns, Serving
<1>13. CountInv'
  BY <1>1, <1>2, <1>10 DEF Inv, CountInv
<1>14. EpochInv'
  BY <1>1, <1>2, <1>3, <1>4, <1>5, <1>6, <1>7, <1>9 DEF Inv, EpochInv, Serving
<1>15. ContentInv'
  BY <1>1, <1>2, <1>3, <1>4, <1>10 DEF ContentInv, Serving
<1>16. TicketInv'
  <2>1. \A q \in Processes, c \in Clients : request[q][c].mutation # 0 => q = p
    BY <1>1, Alone DEF Serving, Owns
  <2>2. \A c \in Clients : request[p][c].ticket \in Nat
    BY Typed DEF Inv
  <2>3. \A c \in Clients : request[p][c].mutation # 0 =>
          /\ request[p][c].mutation \in memory[p].applied
          /\ request[p][c].ticket <= recorded[p]
          /\ request[p][c].ticket <= saved[p] => request[p][c].mutation \in disk.applied
          /\ request[p][c].ticket <= writing[p].upto =>
               request[p][c].mutation \in image.applied
    BY <1>1 DEF Inv, TicketInv, image
  <2>4. mode = "Immediate" => told \subseteq disk'.applied
    BY <1>2, <1>10 DEF Inv, TicketInv
  <2>5. \A c \in Clients :
          request[p][c].mutation # 0 /\ request[p][c].ticket <= saved'[p] =>
            request[p][c].mutation \in disk'.applied
    BY <1>2, <1>9, <1>10, <2>3
  <2> QED  BY <1>1, <1>3, <2>1, <2>3, <2>4, <2>5 DEF TicketInv
<1>17. ToldInv'
  <2>1. \A m : Untold(m)' <=> Untold(m)
    BY <1>1 DEF Untold
  <2>2. \A q \in Processes : status[q] = "stopped" => q # p
    BY <1>1 DEF Serving
  <2>3. \A q \in Processes : status[q] = "stopped" =>
          \A m \in memory[q].applied \ disk'.applied : Untold(m)
    BY <1>2, <1>10 DEF Inv, ToldInv
  <2>4. ~failed'[p] /\ saved'[p] = recorded[p] =>
          \A m \in memory[p].applied \ disk'.applied : Untold(m)
    BY <1>1, <1>2, <1>9 DEF Inv, ToldInv, image
  <2> QED  BY <1>1, <1>3, <1>4, <2>1, <2>3, <2>4 DEF ToldInv, Serving
<1> QED  BY <1>1, <1>2, <1>5, <1>7, <1>11, <1>12, <1>13, <1>14, <1>15, <1>16, <1>17
         DEF Inv, image

\* Every step of the writer; a replacement may fail without effect.
LEMMA WriterKeeps ==
  ASSUME Inv, NEW p \in Processes, Writer(p)
  PROVE  Inv'
<1> USE DEF clientVars, historyVars
<1>1. CASE Written(p)
  BY <1>1, ReplacesKeeps DEF Written, Replaces
<1>2. CASE WriteFails(p) /\ disk' = File(writing[p].image)
  BY <1>2, ReplacesKeeps DEF WriteFails, Replaces
<1>3. CASE WriteFails(p) /\ disk' = disk
  <2>1. /\ writing[p].busy /\ failed' = [failed EXCEPT ![p] = TRUE]
        /\ writing' = [writing EXCEPT ![p] = NotWriting]
        /\ UNCHANGED <<mode, disk, owner, status, memory, recorded, saved, mutex,
                       request, next, told>>
    BY <1>3 DEF WriteFails
  <2>2. /\ failed' \in [Processes -> BOOLEAN] /\ failed'[p]
        /\ writing' \in [Processes -> Writes] /\ ~writing'[p].busy
        /\ \A q \in Processes : q # p =>
             failed'[q] = failed[q] /\ writing'[q] = writing[q]
    BY <2>1, NotWritingTyped DEF Inv, RuntimeTypeOK, Writes
  <2>3. RuntimeTypeOK'
    BY <2>1, <2>2 DEF Inv, RuntimeTypeOK, Writes
  <2>4. OwnerInv' /\ CountInv'
    BY <2>1, <2>2 DEF Inv, OwnerInv, CountInv, Owns, Serving
  <2>5. EpochInv' /\ ContentInv'
    BY <2>1, <2>2 DEF Inv, EpochInv, ContentInv, Serving
  <2>6. TicketInv'
    BY <2>1, <2>2 DEF Inv, TicketInv
  <2>7. ToldInv'
    BY <2>1, <2>2 DEF Inv, ToldInv, Serving, Untold
  <2> QED  BY <2>3, <2>4, <2>5, <2>6, <2>7 DEF Inv
<1> QED  BY <1>1, <1>2, <1>3, SnapshotKeeps DEF Writer, WriteFails

-----------------------------------------------------------------------------
(* The life of a process *)

\* The lock makes the process the only owner.
LEMMA OpenKeeps ==
  ASSUME Inv, NEW p \in Processes, Open(p)
  PROVE  Inv'
<1> USE DEF clientVars, historyVars, writerVars
<1>1. /\ owner = None /\ owner' = p /\ status[p] \in {"down", "stopped"}
      /\ status' = [status EXCEPT ![p] = "opening"]
      /\ UNCHANGED <<mode, disk, memory, recorded, saved, writing, failed,
                     mutex, request, next, told>>
  BY DEF Open, LockFree
<1>2. /\ status'[p] = "opening"
      /\ \A q \in Processes : q # p => status'[q] = status[q]
  BY <1>1 DEF Inv, RuntimeTypeOK
<1>3. \A q \in Processes : ~Owns(q) /\ ~Serving(q)
  BY <1>1, RuntimeAssumption DEF Inv, OwnerInv, Owns, Serving
<1>4. \A q \in Processes : ~Serving(q)'
  BY <1>2, <1>3 DEF Serving
<1>5. RuntimeTypeOK'
  BY <1>1 DEF Inv, RuntimeTypeOK
<1>6. OwnerInv'
  BY <1>1, <1>2, <1>3 DEF Inv, OwnerInv, Owns, Serving
<1>7. CountInv' /\ TicketInv'
  BY <1>1 DEF Inv, CountInv, TicketInv
<1>8. EpochInv' /\ ContentInv'
  BY <1>4 DEF EpochInv, ContentInv
<1>9. ToldInv'
  BY <1>1, <1>2, <1>4 DEF Inv, ToldInv, Untold
<1> QED  BY <1>5, <1>6, <1>7, <1>8, <1>9 DEF Inv

\* Memory starts as a copy of the file, and the writer owes nothing.
LEMMA LoadKeeps ==
  ASSUME Inv, NEW p \in Processes, Load(p)
  PROVE  /\ Inv' /\ Owns(p) /\ disk'.applied = disk.applied
         /\ disk' # disk => ~disk.exists
<1> USE DEF clientVars, historyVars
<1>1. /\ status[p] = "opening" /\ Owns(p)
      /\ UNCHANGED <<mode, owner, writing, mutex, request, next, told>>
  BY DEF Load, Owns
<1>2. /\ status' \in [Processes -> {"down", "opening", "open", "closing", "stopped"}]
      /\ status'[p] = "open"
      /\ recorded' \in [Processes -> 0..MaxMutations] /\ recorded'[p] = 0
      /\ saved' \in [Processes -> 0..MaxMutations] /\ saved'[p] = 0
      /\ failed' \in [Processes -> BOOLEAN] /\ ~failed'[p]
      /\ \A q \in Processes : q # p =>
           /\ status'[q] = status[q] /\ recorded'[q] = recorded[q]
           /\ saved'[q] = saved[q] /\ failed'[q] = failed[q]
  BY RuntimeAssumption DEF Load, Inv, RuntimeTypeOK
<1>3. /\ disk' \in [exists : BOOLEAN, epoch : Epochs, applied : SUBSET Mutations]
      /\ disk'.exists /\ disk'.applied = disk.applied
      /\ disk' # disk => ~disk.exists
  BY RuntimeAssumption DEF Load, File, FactoryImage, Inv, RuntimeTypeOK, OwnerInv,
     Epochs
<1>4. /\ memory' \in [Processes -> Devices]
      /\ memory'[p] = [epoch |-> disk'.epoch, applied |-> disk'.applied, change |-> FALSE]
      /\ \A q \in Processes : q # p => memory'[q] = memory[q]
  <2>1. Restored(disk') \in Devices
    BY <1>3 DEF Restored, Devices
  <2>2. memory \in [Processes -> Devices]
    BY DEF Inv, RuntimeTypeOK, Devices
  <2>3. memory' = [memory EXCEPT ![p] = Restored(disk')]
    BY DEF Load
  <2> QED  BY <2>1, <2>2, <2>3 DEF Restored
<1>5. \A q \in Processes : Serving(q)' => q = p
  BY <1>1, <1>2, Alone DEF Serving
<1>6. /\ ~writing[p].busy /\ request[p] = Quiet
      /\ \A c \in Clients : request[p][c].mutation = 0
  BY <1>1, IdleTyped DEF Inv, OwnerInv, Serving
<1>7. RuntimeTypeOK'
  BY <1>1, <1>2, <1>3, <1>4 DEF Inv, RuntimeTypeOK, Devices
<1>8. OwnerInv'
  BY <1>1, <1>2, <1>3, <1>6 DEF Inv, OwnerInv, Owns, Serving
<1>9. CountInv'
  <2>1. next > 0
    BY RuntimeAssumption DEF Inv, RuntimeTypeOK
  <2> QED  BY <1>1, <1>2, <1>3, <1>4, <2>1 DEF Inv, CountInv
<1>10. EpochInv'
  <2>1. disk'.epoch \in Nat
    BY <1>3, RuntimeAssumption DEF Epochs
  <2> QED  BY <1>1, <1>2, <1>3, <1>4, <1>5, <1>6, <2>1 DEF EpochInv
<1>11. ContentInv'
  BY <1>1, <1>3, <1>4, <1>5, <1>6 DEF ContentInv
<1>12. TicketInv'
  <2>1. \A q \in Processes, c \in Clients : request'[q][c].mutation = 0
    BY <1>1, <1>6, Alone
  <2> QED  BY <1>1, <1>3, <2>1 DEF Inv, TicketInv
<1>13. ToldInv'
  BY <1>1, <1>2, <1>3, <1>4, <1>5, <1>6 DEF Inv, ToldInv, Untold, Serving
<1> QED  BY <1>1, <1>3, <1>7, <1>8, <1>9, <1>10, <1>11, <1>12, <1>13 DEF Inv

LEMMA ShutdownKeeps ==
  ASSUME Inv, NEW p \in Processes, Shutdown(p)
  PROVE  Inv' /\ \A q \in Processes : Serving(q)' <=> Serving(q)
<1> USE DEF fileVars, clientVars, historyVars, writerVars
<1>1. /\ status[p] = "open" /\ request[p] = Quiet
      /\ UNCHANGED <<mode, disk, owner, memory, recorded, saved, writing, failed,
                     mutex, request, next, told>>
  BY DEF Shutdown
<1>2. /\ status' \in [Processes -> {"down", "opening", "open", "closing", "stopped"}]
      /\ status'[p] = "closing"
      /\ \A q \in Processes : q # p => status'[q] = status[q]
  BY DEF Shutdown, Inv, RuntimeTypeOK
<1>3. \A q \in Processes : /\ Serving(q)' <=> Serving(q)
                           /\ Owns(q)' <=> Owns(q)
  BY <1>1, <1>2 DEF Serving, Owns
<1>4. RuntimeTypeOK'
  BY <1>1, <1>2 DEF Inv, RuntimeTypeOK
<1>5. OwnerInv'
  BY <1>1, <1>2, <1>3 DEF Inv, OwnerInv
<1>6. CountInv' /\ TicketInv'
  BY <1>1 DEF Inv, CountInv, TicketInv
<1>7. EpochInv' /\ ContentInv'
  BY <1>1, <1>3 DEF Inv, EpochInv, ContentInv
<1>8. ToldInv'
  BY <1>1, <1>2, <1>3 DEF Inv, ToldInv, Untold
<1> QED  BY <1>3, <1>4, <1>5, <1>6, <1>7, <1>8 DEF Inv

\* Where the writer owes nothing, what only memory has was promised to nobody.
LEMMA CloseKeeps ==
  ASSUME Inv, NEW p \in Processes, Close(p)
  PROVE  Inv' /\ Serving(p) /\ \A q \in Processes : ~Serving(q)'
<1> USE DEF clientVars, historyVars, writerVars
<1>1. /\ status[p] = "closing" /\ Owns(p) /\ Serving(p) /\ owner' = None
      /\ ~writing[p].busy /\ (failed[p] \/ recorded[p] = saved[p])
      /\ UNCHANGED <<mode, disk, memory, recorded, saved, writing, failed, mutex,
                     request, next, told>>
  BY DEF Close, WriterDone, Owns, Serving
<1>2. /\ status' \in [Processes -> {"down", "opening", "open", "closing", "stopped"}]
      /\ status'[p] = IF failed[p] THEN "down" ELSE "stopped"
      /\ \A q \in Processes : q # p => status'[q] = status[q]
  BY DEF Close, Inv, RuntimeTypeOK
<1>3. \A q \in Processes : ~Owns(q)' /\ ~Serving(q)'
  BY <1>1, <1>2, Alone DEF Owns, Serving
<1>4. RuntimeTypeOK'
  BY <1>1, <1>2 DEF Inv, RuntimeTypeOK
<1>5. OwnerInv'
  <2>1. \A q \in Processes : ~writing[q].busy /\ request[q] = Quiet
    BY <1>1, Alone DEF Inv, OwnerInv
  <2>2. \A q \in Processes : owner' # q
    BY <1>1, RuntimeAssumption
  <2> QED  BY <1>1, <1>3, <2>1, <2>2 DEF Inv, OwnerInv
<1>6. CountInv' /\ TicketInv'
  BY <1>1 DEF Inv, CountInv, TicketInv
<1>7. EpochInv' /\ ContentInv'
  BY <1>3 DEF EpochInv, ContentInv
<1>8. ToldInv'
  <2>1. status'[p] = "stopped" =>
          \A m \in memory[p].applied \ disk.applied : Untold(m)
    BY <1>1, <1>2 DEF Inv, ToldInv
  <2>2. \A m : Untold(m)' <=> Untold(m)
    BY <1>1 DEF Untold
  <2> QED  BY <1>1, <1>2, <1>3, <2>1, <2>2 DEF Inv, ToldInv
<1> QED  BY <1>1, <1>3, <1>4, <1>5, <1>6, <1>7, <1>8 DEF Inv

LEMMA CrashKeeps ==
  ASSUME Inv, NEW p \in Processes, Crash(p)
  PROVE  Inv' /\ \A q \in Processes : ~Serving(q)'
<1> USE DEF historyVars
<1>1. /\ Owns(p) /\ owner' = None /\ UNCHANGED <<mode, disk, next, told>>
  BY DEF Crash, Owns
<1>2. /\ status' \in [Processes -> {"down", "opening", "open", "closing", "stopped"}]
      /\ status'[p] = "down"
      /\ recorded' \in [Processes -> 0..MaxMutations] /\ recorded'[p] = 0
      /\ saved' \in [Processes -> 0..MaxMutations] /\ saved'[p] = 0
      /\ failed' \in [Processes -> BOOLEAN]
      /\ mutex' \in [Processes -> Clients \cup {None}]
      /\ \A q \in Processes : q # p =>
           /\ status'[q] = status[q] /\ recorded'[q] = recorded[q]
           /\ saved'[q] = saved[q]
  BY RuntimeAssumption DEF Crash, Inv, RuntimeTypeOK
<1>3. /\ memory' \in [Processes -> Devices] /\ memory'[p].applied = {}
      /\ \A q \in Processes : q # p => memory'[q] = memory[q]
  <2>1. Restored(FactoryImage) \in Devices /\ Restored(FactoryImage).applied = {}
    BY RuntimeAssumption DEF Restored, FactoryImage, Devices, Epochs
  <2>2. memory \in [Processes -> Devices]
    BY DEF Inv, RuntimeTypeOK, Devices
  <2> QED  BY <2>1, <2>2 DEF Crash
<1>4. /\ writing' \in [Processes -> Writes] /\ ~writing'[p].busy
      /\ \A q \in Processes : q # p => writing'[q] = writing[q]
  BY NotWritingTyped DEF Crash, Inv, RuntimeTypeOK, Writes
<1>5. /\ request' \in [Processes -> [Clients -> Entries]] /\ request'[p] = Quiet
      /\ \A q \in Processes : q # p => request'[q] = request[q]
  BY IdleTyped DEF Crash, Inv, RuntimeTypeOK, Entries
<1>6. \A q \in Processes :
        /\ ~Owns(q)' /\ ~Serving(q)' /\ ~writing'[q].busy /\ request'[q] = Quiet
        /\ \A c \in Clients : request'[q][c].mutation = 0
  BY <1>1, <1>2, <1>4, <1>5, IdleTyped, Alone DEF Owns, Serving
<1>7. RuntimeTypeOK'
  BY <1>1, <1>2, <1>3, <1>4, <1>5 DEF Inv, RuntimeTypeOK, Devices, Writes, Entries
<1>8. OwnerInv'
  <2>1. \A q \in Processes : owner' # q
    BY <1>1, RuntimeAssumption
  <2> QED  BY <1>1, <1>6, <2>1 DEF Inv, OwnerInv
<1>9. CountInv'
  <2>1. next > 0
    BY RuntimeAssumption DEF Inv, RuntimeTypeOK
  <2> QED  BY <1>1, <1>2, <1>3, <1>6, <2>1 DEF Inv, CountInv
<1>10. EpochInv' /\ ContentInv'
  BY <1>6 DEF EpochInv, ContentInv
<1>11. TicketInv'
  BY <1>1, <1>6 DEF Inv, TicketInv
<1>12. ToldInv'
  <2>1. \A m \in Mutations : Untold(m) => Untold(m)'
    BY <1>1, <1>6, RuntimeAssumption DEF Untold, Mutations
  <2>2. \A q \in Processes : memory[q].applied \subseteq Mutations
    BY DEF Inv, RuntimeTypeOK
  <2> QED  BY <1>1, <1>2, <1>3, <1>6, <2>1, <2>2 DEF Inv, ToldInv
<1> QED  BY <1>6, <1>7, <1>8, <1>9, <1>10, <1>11, <1>12 DEF Inv

-----------------------------------------------------------------------------
(* The invariant, and the properties of the runs *)

LEMMA StutterKeeps == Inv /\ UNCHANGED vars => Inv'
BY DEF vars, Inv, RuntimeTypeOK, OwnerInv, CountInv, EpochInv, ContentInv,
   TicketInv, ToldInv, Owns, Serving, Untold

LEMMA NextKeeps == Inv /\ [Next]_vars => Inv'
<1> SUFFICES ASSUME Inv, [Next]_vars PROVE Inv'
  OBVIOUS
<1>1. CASE UNCHANGED vars
  BY <1>1, StutterKeeps
<1>2. ASSUME NEW p \in Processes, Open(p) PROVE Inv'
  BY <1>2, OpenKeeps
<1>3. ASSUME NEW p \in Processes, Load(p) PROVE Inv'
  BY <1>3, LoadKeeps
<1>4. ASSUME NEW p \in Processes, Shutdown(p) PROVE Inv'
  BY <1>4, ShutdownKeeps
<1>5. ASSUME NEW p \in Processes, Close(p) PROVE Inv'
  BY <1>5, CloseKeeps
<1>6. ASSUME NEW p \in Processes, Crash(p) PROVE Inv'
  BY <1>6, CrashKeeps
<1>7. ASSUME NEW p \in Processes, Writer(p) PROVE Inv'
  BY <1>7, WriterKeeps
<1>8. ASSUME NEW p \in Processes, NEW c \in Clients, Client(p, c) PROVE Inv'
  BY <1>8, ClientKeeps
<1> QED  BY <1>1, <1>2, <1>3, <1>4, <1>5, <1>6, <1>7, <1>8 DEF Next

\* The inductive invariant holds throughout.
THEOREM Invariance == Spec => []Inv
BY InitInv, NextKeeps, PTL DEF Spec

\* The epoch orders images: a device in service is never behind its file, and
\* is the file where the epochs agree and still have room, for every number of
\* processes, threads, epochs and transactions (persistent_runtime.rs,
\* device.rs take_persistent_change).
THEOREM EpochsOrder == Spec => []EpochsOrderImages
<1>1. Inv => EpochsOrderImages
  <2> SUFFICES ASSUME Inv PROVE EpochsOrderImages
    OBVIOUS
  <2>1. RuntimeTypeOK
    BY DEF Inv
  <2>2. \A p \in Processes : Serving(p) => disk.exists /\ disk.epoch <= memory[p].epoch
    BY DEF Inv, EpochInv
  <2>3. \A p \in Processes : Serving(p) => memory[p].epoch >= disk.epoch
    BY <2>2, Typed DEF Inv
  <2>4. \A p \in Processes : Serving(p) =>
          (memory[p].epoch = disk.epoch /\ ~memory[p].change =>
             memory[p].applied = disk.applied)
    BY DEF Inv, ContentInv
  <2> QED  BY <2>1, <2>2, <2>3, <2>4 DEF EpochsOrderImages
<1> QED  BY <1>1, Invariance, PTL

\* A successful shutdown leaves everything that was reported in the file
\* (persistent_runtime.rs shutdown).
THEOREM StopsSaved == Spec => []StoppedMeansSaved
<1>1. Inv => StoppedMeansSaved
  BY DEF Inv, ToldInv, StoppedMeansSaved, Untold
<1> QED  BY <1>1, Invariance, PTL

\* The only steps that touch the file create it or replace it by an image that
\* is later and holds more.
LEMMA FileSteps ==
  ASSUME Inv, [Next]_vars, disk' # disk
  PROVE  \/ ~disk.exists
         \/ disk'.epoch > disk.epoch /\ disk.applied \subseteq disk'.applied
<1> USE DEF fileVars, clientVars, historyVars
<1>1. ~UNCHANGED vars
  BY DEF vars
<1>2. PICK p \in Processes : Load(p) \/ Written(p) \/ WriteFails(p)
  <2>1. \A p \in Processes :
          Open(p) \/ Shutdown(p) \/ Close(p) \/ Crash(p) \/ Snapshot(p) => disk' = disk
    BY DEF Open, Shutdown, Close, Crash, Snapshot
  <2>2. \A p \in Processes, c \in Clients : Client(p, c) => disk' = disk
    BY DEF Client, Begin, Execute, ExecuteRead, ExecuteMutation, ExhaustEpoch,
       ExecuteUnrecorded, Release, Answer, AnswerError
  <2> QED  BY <1>1, <2>1, <2>2 DEF Next, Writer
<1>3. CASE Load(p)
  BY <1>3, LoadKeeps
<1>4. CASE Written(p) \/ WriteFails(p)
  <2>1. Replaces(p)
    BY <1>4 DEF Written, WriteFails, Replaces
  <2>2. disk'.epoch > disk.epoch /\ disk'.applied = writing[p].image.applied
    BY <2>1, ReplacesKeeps
  <2>3. disk.applied \subseteq writing[p].image.applied
    BY <2>1, ReplacesKeeps DEF Replaces, Inv, ContentInv
  <2> QED  BY <2>2, <2>3
<1> QED  BY <1>2, <1>3, <1>4

\* The state file never goes back, whichever process writes it
\* (persistent_runtime.rs open, shutdown).
THEOREM DiskForward == Spec => DiskMovesForward
<1>1. Inv /\ [Next]_vars =>
        [ disk' # disk =>
            \/ ~disk.exists
            \/ /\ disk'.epoch > disk.epoch
               /\ disk.applied \subseteq disk'.applied ]_vars
  BY FileSteps
<1> QED  BY <1>1, Invariance, PTL DEF Spec, DiskMovesForward

-----------------------------------------------------------------------------
(* The runtime implements DurableStore *)

\* The variables of DurableStore under the refinement mapping.
PromiseVars == <<next, Unsaved, disk.applied, Promised>>

\* Where memory, the file and who serves stay, so does what may be lost.
LEMMA UnsavedStays ==
  ASSUME UNCHANGED <<memory, disk>>,
         \A p \in Processes : Serving(p)' <=> Serving(p)
  PROVE  Unsaved' = Unsaved
BY DEF Unsaved

LEMMA OthersStutter ==
  ASSUME UNCHANGED <<memory, disk, status, next, mode, told>>
  PROVE  UNCHANGED PromiseVars
<1>1. Unsaved' = Unsaved
  BY UnsavedStays DEF Serving
<1> QED  BY <1>1 DEF PromiseVars, Promised

\* UnsavedIsMemory of the state after the step.
LEMMA UnsavedIsMemoryNext ==
  ASSUME Inv', NEW p \in Processes, Serving(p)'
  PROVE  Unsaved' = memory'[p].applied \ disk'.applied
<1>1. \A q \in Processes : Serving(q)' => q = p
  BY DEF Inv, OwnerInv, Serving, Owns
<1>2. memory'[p].applied \subseteq Mutations
  BY DEF Inv, RuntimeTypeOK
<1> QED  BY <1>1, <1>2 DEF Unsaved

\* An executed change joins what may be lost.
LEMMA ChangeExecutes ==
  ASSUME Inv, Inv', NEW p \in Processes, status[p] = "open", next' = next + 1,
         memory'[p].applied = memory[p].applied \cup {next},
         UNCHANGED <<disk, mode, told, status>>
  PROVE  Promise!Execute
<1>1. Serving(p) /\ Serving(p)'
  BY DEF Serving
<1>2. /\ Unsaved = memory[p].applied \ disk.applied
      /\ Unsaved' = memory'[p].applied \ disk'.applied
  BY <1>1, UnsavedIsMemory, UnsavedIsMemoryNext
<1>3. next \notin disk.applied
  BY RuntimeAssumption DEF Inv, CountInv, RuntimeTypeOK
<1> QED  BY <1>2, <1>3 DEF Promise!Execute, Promised

\* An answer in Immediate mode tells of a durable transaction.
LEMMA AnswerImplements ==
  ASSUME Inv, NEW p \in Processes, NEW c \in Clients, Answer(p, c)
  PROVE  Promise!Next \/ UNCHANGED PromiseVars
<1> USE DEF fileVars, writerVars
<1> DEFINE m == request[p][c].mutation
<1>1. /\ MayAnswer(p, request[p][c])
      /\ told' = IF m = 0 THEN told ELSE told \cup {m}
      /\ UNCHANGED <<memory, disk, status, next, mode>>
  BY DEF Answer
<1>2. Unsaved' = Unsaved
  BY <1>1, UnsavedStays DEF Serving
<1>3. CASE m = 0 \/ mode # "Immediate"
  BY <1>1, <1>2, <1>3 DEF PromiseVars, Promised
<1>4. CASE m # 0 /\ mode = "Immediate"
  <2>1. m \in disk.applied
    BY <1>1, <1>4, Typed DEF MayAnswer, Inv, TicketInv
  <2>2. Promised' = Promised \cup {m}
    BY <1>1, <1>4 DEF Promised
  <2>3. Promise!Tell
    BY <1>1, <1>2, <2>1, <2>2 DEF Promise!Tell
  <2> QED  BY <2>3 DEF Promise!Next
<1> QED  BY <1>3, <1>4

LEMMA ClientImplements ==
  ASSUME Inv, Inv', NEW p \in Processes, NEW c \in Clients, Client(p, c)
  PROVE  Promise!Next \/ UNCHANGED PromiseVars
<1> USE DEF fileVars, historyVars, writerVars
<1>1. CASE Begin(p, c) \/ ExecuteRead(p, c) \/ Release(p, c) \/ AnswerError(p, c)
  BY <1>1, OthersStutter DEF Begin, ExecuteRead, Release, AnswerError
<1>2. CASE ExecuteMutation(p, c) \/ ExecuteUnrecorded(p, c)
  <2>1. /\ status[p] = "open" /\ next' = next + 1
        /\ memory' = [memory EXCEPT ![p].epoch = NextEpoch(@), ![p].applied = @ \cup {next}]
        /\ UNCHANGED <<disk, mode, told, status>>
    BY <1>2 DEF ExecuteMutation, ExecuteUnrecorded, AtStep
  <2>2. memory'[p].applied = memory[p].applied \cup {next}
    BY <2>1 DEF Inv, RuntimeTypeOK
  <2> QED  BY <2>1, <2>2, ChangeExecutes DEF Promise!Next
<1>3. CASE ExhaustEpoch(p, c)
  <2>1. CASE UNCHANGED <<memory, next>>
    BY <1>3, <2>1, OthersStutter DEF ExhaustEpoch
  <2>2. CASE /\ next' = next + 1
             /\ memory' = [memory EXCEPT ![p].applied = @ \cup {next}, ![p].change = TRUE]
    <3>1. memory'[p].applied = memory[p].applied \cup {next}
      BY <2>2 DEF Inv, RuntimeTypeOK
    <3>2. status[p] = "open" /\ UNCHANGED <<disk, mode, told, status>>
      BY <1>3 DEF ExhaustEpoch, AtStep
    <3> QED  BY <2>2, <3>1, <3>2, ChangeExecutes DEF Promise!Next
  <2> QED  BY <1>3, <2>1, <2>2 DEF ExhaustEpoch
<1>4. CASE Answer(p, c)
  BY <1>4, AnswerImplements
<1> QED  BY <1>1, <1>2, <1>3, <1>4 DEF Client, Execute

\* A replaced file persists a prefix of what may be lost.
LEMMA WriterImplements ==
  ASSUME Inv, Inv', NEW p \in Processes, Writer(p)
  PROVE  Promise!Next \/ UNCHANGED PromiseVars
<1> USE DEF fileVars, clientVars, historyVars
<1>1. CASE Snapshot(p) \/ (WriteFails(p) /\ disk' = disk)
  BY <1>1, OthersStutter DEF Snapshot, WriteFails
<1>2. CASE Written(p) \/ (WriteFails(p) /\ disk' = File(writing[p].image))
  <2>1. Replaces(p)
    BY <1>2 DEF Written, WriteFails, Replaces
  <2> DEFINE kept == writing[p].image.applied \ disk.applied
  <2>2. /\ Serving(p) /\ Serving(p)' /\ disk'.applied = writing[p].image.applied
        /\ UNCHANGED <<memory, status, next, mode, told>>
    BY <2>1, ReplacesKeeps DEF Replaces, Serving
  <2>3. /\ Unsaved = memory[p].applied \ disk.applied
        /\ Unsaved' = memory[p].applied \ disk'.applied
    BY <2>2, UnsavedIsMemory, UnsavedIsMemoryNext
  <2>4. /\ disk.applied \subseteq writing[p].image.applied
        /\ writing[p].image.applied \subseteq memory[p].applied
        /\ \A k \in writing[p].image.applied,
              later \in memory[p].applied \ writing[p].image.applied : k < later
    BY <2>1, <2>2 DEF Replaces, Inv, ContentInv
  <2>5. /\ kept \in SUBSET Unsaved
        /\ \A k \in kept, later \in Unsaved \ kept : k < later
        /\ disk'.applied = disk.applied \cup kept
        /\ Unsaved' = Unsaved \ kept
    BY <2>2, <2>3, <2>4
  <2>6. next' = next /\ Promised' = Promised
    BY <2>2 DEF Promised
  <2> HIDE DEF kept
  <2>7. Promise!Persist
    BY <2>5, <2>6 DEF Promise!Persist
  <2> QED  BY <2>7 DEF Promise!Next
<1> QED  BY <1>1, <1>2 DEF Writer, WriteFails

\* Opening, loading and shutting down leave the abstract state alone; with
\* the owner goes what only its memory had.
LEMMA LifeImplements ==
  ASSUME Inv, Inv', NEW p \in Processes,
         Open(p) \/ Load(p) \/ Shutdown(p) \/ Close(p) \/ Crash(p)
  PROVE  Promise!Next \/ UNCHANGED PromiseVars
<1> USE DEF fileVars, clientVars, historyVars, writerVars
<1>1. CASE Open(p)
  <2>1. \A q \in Processes : ~Serving(q) /\ ~Serving(q)'
    <3>1. owner = None /\ status' = [status EXCEPT ![p] = "opening"]
      BY <1>1 DEF Open, LockFree
    <3>2. \A q \in Processes : ~Serving(q)
      BY <3>1, RuntimeAssumption DEF Inv, OwnerInv, Owns, Serving
    <3> QED  BY <3>1, <3>2 DEF Serving, Inv, RuntimeTypeOK
  <2>2. UNCHANGED <<memory, disk, next, mode, told>>
    BY <1>1 DEF Open
  <2>3. Unsaved' = Unsaved
    BY <2>1, <2>2, UnsavedStays
  <2> QED  BY <2>2, <2>3 DEF PromiseVars, Promised
<1>2. CASE Load(p)
  <2>1. /\ Owns(p) /\ status[p] = "opening" /\ disk'.applied = disk.applied
        /\ UNCHANGED <<next, mode, told>>
    BY <1>2, LoadKeeps DEF Load
  <2>2. Unsaved = {}
    BY <2>1, Alone, UnsavedIsEmpty DEF Serving
  <2>3. Serving(p)' /\ memory'[p].applied = disk'.applied
    BY <1>2 DEF Load, Serving, Restored, Inv, RuntimeTypeOK
  <2>4. Unsaved' = {}
    BY <2>3, UnsavedIsMemoryNext
  <2> QED  BY <2>1, <2>2, <2>4 DEF PromiseVars, Promised
<1>3. CASE Shutdown(p)
  <2>1. UNCHANGED <<memory, disk, next, mode, told>>
    BY <1>3 DEF Shutdown
  <2>2. Unsaved' = Unsaved
    BY <1>3, <2>1, ShutdownKeeps, UnsavedStays
  <2> QED  BY <2>1, <2>2 DEF PromiseVars, Promised
<1>4. CASE Close(p) \/ Crash(p)
  <2>1. \A q \in Processes : ~Serving(q)'
    BY <1>4, CloseKeeps, CrashKeeps
  <2>2. Unsaved' = {}
    BY <2>1 DEF Unsaved
  <2>3. UNCHANGED <<disk, next, mode, told>>
    BY <1>4 DEF Close, Crash
  <2> QED  BY <2>2, <2>3 DEF Promise!Next, Promise!PowerCycle, Promised
<1> QED  BY <1>1, <1>2, <1>3, <1>4

\* Whatever clients, writer, failures, crashes and restarts do, the runtime
\* behaves like DurableStore: a transaction is reported in Immediate mode only
\* once a crash cannot take it back, and none becomes durable ahead of an
\* earlier one (persistent_runtime.rs execute_observing).
THEOREM RuntimeKeepsPromise == Spec => KeepsPromise
<1>1. Init => Promise!Init
  <2> SUFFICES ASSUME Init PROVE Promise!Init
    OBVIOUS
  <2>1. disk.applied = {} /\ next = 1 /\ told = {}
    BY DEF Init, File
  <2>2. Unsaved = {}
    BY UnsavedIsEmpty DEF Init, Serving
  <2> QED  BY <2>1, <2>2 DEF Promise!Init, Promised
<1>2. Inv /\ Inv' /\ [Next]_vars => [Promise!Next]_(Promise!vars)
  <2> SUFFICES ASSUME Inv, Inv', [Next]_vars
               PROVE  Promise!Next \/ UNCHANGED PromiseVars
    BY DEF Promise!vars, PromiseVars
  <2>1. CASE UNCHANGED vars
    BY <2>1, OthersStutter DEF vars
  <2> QED  BY <2>1, ClientImplements, WriterImplements, LifeImplements DEF Next
<1> QED  BY <1>1, <1>2, Invariance, PTL DEF Spec, KeepsPromise, Promise!Spec

=============================================================================

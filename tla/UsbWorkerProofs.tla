--------------------------- MODULE UsbWorkerProofs ---------------------------
(***************************************************************************)
(* Theorems about UsbWorker.tla, for every number of button presses, bus   *)
(* activations and requests.                                               *)
(*                                                                         *)
(* Three invariants, each inductive on its own or with the ones before:    *)
(* the budget (a request of the worker or an activation costs an event),   *)
(* the threads (who runs while the main thread is where), and the dialogue *)
(* (what may be on its way from the supervisor while the main thread is    *)
(* where).                                                                 *)
(***************************************************************************)
EXTENDS UsbWorker, FiniteSetTheorems, TLAPS

-----------------------------------------------------------------------------
(* The inductive invariant *)

Records ==
  [ kind : {"UsbEndpoints", "Enable", "Disable", "Quiesce", "Closed"},
    request : Nat ]

\* Where the threads can be.
ControlInv ==
  /\ main \in {"startup", "awaiting", "serving", "joining", "ejected",
               "exiting", "exited"}
  /\ outcome \in {"None", "Quiesce", "Eject", "Exit", "Error"}
  /\ reader \in {"none", "parked", "polling", "reading", "executing",
                 "sending", "ended", "failed"}
  /\ writer \in {"none", "idle", "writing", "ended", "failed"}
  /\ queue \in 0..1
  /\ dirty \in BOOLEAN /\ healthy \in BOOLEAN

\* What is on its way from the supervisor, and what was published to it.
ChannelInv ==
  /\ inbox \in Seq(Records)
  /\ request \in Nat \ {0}
  /\ published.request \in Nat

Count(b) == IF b THEN 1 ELSE 0

\* Positions of activations that wait in the inbox.
EnablesIn(records) == {i \in DOMAIN records : records[i].kind = "Enable"}

\* A change of the level, and what becomes of it, is worth one request.
RequestInv ==
  /\ events \in 0..MaxEvents
  /\ request \in Nat \ {0}
  /\ level \in BOOLEAN /\ pressed \in BOOLEAN
  /\ notifying \in BOOLEAN /\ notices \in BOOLEAN
  /\ request - 1 + Count(notices) + Count(notifying) + Count(level # pressed)
       <= events

ActivationInv ==
  /\ events \in 0..MaxEvents
  /\ lifecycle \in [activation : Nat, stopped : BOOLEAN]
  /\ lifecycle.activation + Cardinality(EnablesIn(inbox)) <= events
  /\ activation \in 0..MaxEvents

\* The threads of a generation that was never announced stay where they are.
Asleep ==
  /\ Stranded
  /\ queue = 0 /\ activation = 0
  /\ lifecycle = [activation |-> 0, stopped |-> FALSE]

ThreadInv ==
  /\ main \in {"startup", "awaiting", "ejected"} => Quiet /\ ~dirty
  /\ main \in {"exiting", "exited"} => Quiet \/ Asleep

\* The records before the end of the channel.
Sent == IF supervisor = "gone" THEN Len(inbox) - 1 ELSE Len(inbox)

\* The main thread still follows the channel.
Listening ==
  \/ main \in {"startup", "ejected", "awaiting", "serving"}
  \/ main = "joining" /\ outcome \in {"Quiesce", "Eject"}

\* What can be on its way while a generation is served.
Served(i) ==
  \/ inbox[i].kind \in {"Enable", "Disable"}
  \/ /\ supervisor # "serving" /\ i = Sent
     /\ inbox[i].kind = "Quiesce" /\ Expected(inbox[i])

DialogueInv ==
  /\ Listening /\ supervisor = "gone" =>
       Len(inbox) > 0 /\ inbox[Len(inbox)].kind = "Closed"
  /\ main \in {"startup", "ejected"} =>
       supervisor \in {"idle", "gone"} /\ Sent = 0 /\ ~published.personality
  /\ main = "awaiting" =>
       /\ supervisor \in {"idle", "given", "gone"}
       /\ published.personality /\ published.request = request
       /\ Sent = 0 \/ (Sent = 1 /\ supervisor # "idle")
       /\ Sent = 1 => inbox[1] = [kind |-> "UsbEndpoints", request |-> request]
  /\ main = "serving" =>
       /\ supervisor \in {"serving", "quiescing", "gone"}
       /\ pending <=> ~published.personality
       /\ pending => published.request = request
       /\ \A i \in 1..Sent : Served(i)
  /\ main = "joining" /\ outcome \in {"Quiesce", "Eject"} =>
       /\ supervisor \in {"quiescing", "gone"}
       /\ Sent = 0
       /\ outcome = "Eject" => ~published.personality

-----------------------------------------------------------------------------
(* Control *)

\* Each thread moves between its own places.
LEMMA ControlStep ==
  ASSUME ControlInv, [Next]_vars
  PROVE  ControlInv'
<1> USE DEF ControlInv, mainVars, threadVars, buttonVars, deviceVars, busVars
<1>1. CASE Main
  <2> USE DEF Receives, Leave, Eject, TakeReconnectState, Publish
  <2>1. CASE Startup \/ StartGeneration
    BY <2>1 DEF Startup, StartGeneration
  <2>2. CASE ServeEnable \/ ServeDisable \/ ServeQuiesce \/ ServeExit
             \/ ServeStopped
    BY <2>2 DEF ServeEnable, ServeDisable, ServeQuiesce, ServeExit, ServeStopped
  <2>3. CASE ServeButton
    BY <2>3 DEF ServeButton
  <2>4. CASE Finish \/ Reinsert \/ GiveUp \/ Exit
    BY <2>4 DEF Finish, Reinsert, GiveUp, Exit
  <2> QED  BY <1>1, <2>1, <2>2, <2>3, <2>4 DEF Main
<1>2. CASE Reader
  <2> USE DEF ReaderMoves
  <2>1. CASE Wake \/ StartRead \/ ReadUnavailable \/ ReadNothing \/ ReadFails
             \/ ReadTransfer
    BY <2>1 DEF Wake, StartRead, ReadUnavailable, ReadNothing, ReadFails,
                ReadTransfer
  <2>2. CASE \E opens, changes \in BOOLEAN : Execute(opens, changes)
    BY <2>2 DEF Execute
  <2>3. CASE SendResponse
    BY <2>3 DEF SendResponse
  <2> QED  BY <1>2, <2>1, <2>2, <2>3 DEF Reader
<1>3. CASE Writer
  BY <1>3 DEF Writer, WriterMoves, ReceiveResponse, WriteTransfer,
              WriteUnavailable, WriteFails
<1>4. CASE Button
  BY <1>4 DEF Button, DrainReconnectEvents, Notify
<1>5. CASE Environment
  BY <1>5 DEF Environment, Flip, Supervise, GiveEndpoints, Enable, Disable,
              Unconfigure, Quiesce, Disconnect, Signal, PersistenceFails,
              Persist
<1>6. CASE UNCHANGED vars
  BY <1>6 DEF vars
<1> QED  BY <1>1, <1>2, <1>3, <1>4, <1>5, <1>6 DEF Next

-----------------------------------------------------------------------------
(* Budgets *)

\* Only a notification taken makes a request, and only a change of the level
\* a notification.
LEMMA RequestStep ==
  ASSUME RequestInv, [Next]_vars
  PROVE  RequestInv'
<1> DEFINE Waiting == Count(notices) + Count(notifying) + Count(level # pressed)
           Types == /\ level \in BOOLEAN /\ pressed \in BOOLEAN
                    /\ notifying \in BOOLEAN /\ notices \in BOOLEAN
<1> USE DEF mainVars, threadVars, buttonVars, deviceVars, busVars
<1>0. MaxEvents \in Nat
  BY WorkerAssumption DEF WorkerAssumption
<1>1. /\ Types
      /\ events \in 0..MaxEvents /\ request \in Nat \ {0}
      /\ \A b : Count(b) \in Nat
      /\ Count(TRUE) = 1 /\ Count(FALSE) = 0
      /\ Waiting \in Nat /\ Waiting' \in Nat
      /\ request - 1 + Waiting <= events
  BY DEF RequestInv, Count
\* It is enough that a step pays for what it adds.
<1> SUFFICES /\ Types'
             /\ \/ events' = events
                \/ events < MaxEvents /\ events' = events + 1
             /\ request' \in Nat \ {0}
             /\ request' + Waiting' <= request + Waiting + (events' - events)
  BY <1>0, <1>1 DEF RequestInv
<1>2. CASE UNCHANGED <<request, level, pressed, notifying, notices>>
           /\ (events' = events \/ (events < MaxEvents /\ events' = events + 1))
  <2>1. Types' /\ Waiting' = Waiting
    BY <1>1, <1>2
  <2> HIDE DEF Waiting, Types
  <2> QED  BY <1>1, <1>2, <2>1
<1>3. CASE Main
  <2>1. CASE ServeButton \/ Reinsert
    <3>1. /\ UNCHANGED <<events, level, pressed, notifying>>
          /\ notices = TRUE /\ notices' = FALSE
          /\ request' = request \/ request' = request + 1
      BY <1>1, <2>1 DEF ServeButton, Reinsert, TakeReconnectState, Eject, Leave
    <3>2. Types' /\ Waiting = Waiting' + 1
      <4>1. Types' /\ Count(notices) = 1 /\ Count(notices') = 0
        BY <1>1, <3>1
      <4>2. /\ Count(notifying)' = Count(notifying)
            /\ Count(level # pressed)' = Count(level # pressed)
        BY <3>1 DEF Count
      <4> QED  BY <1>1, <4>1, <4>2
    <3> HIDE DEF Waiting, Types
    <3> QED  BY <1>1, <3>1, <3>2
  <2> QED  BY <1>2, <1>3, <2>1 DEF Main, Startup, StartGeneration, Receives,
      ServeEnable, ServeDisable, ServeQuiesce, ServeExit, ServeStopped, Leave,
      Finish, GiveUp, Exit
<1>4. CASE Reader
  BY <1>2, <1>4 DEF Reader, ReaderMoves, Wake, StartRead, ReadUnavailable,
     ReadNothing, ReadFails, ReadTransfer, Execute, SendResponse
<1>5. CASE Writer
  BY <1>2, <1>5 DEF Writer, WriterMoves, ReceiveResponse, WriteTransfer,
     WriteUnavailable, WriteFails
<1>6. CASE DrainReconnectEvents
  <2>1. /\ UNCHANGED <<events, request, level, notices>>
        /\ pressed' = level /\ notifying = FALSE
        /\ notifying' = (pressed # level)
    BY <1>1, <1>6 DEF DrainReconnectEvents, Notifies
  <2>2. Types'
    BY <1>1, <2>1
  <2>3. /\ Count(notices') = Count(notices)
        /\ Count(notifying) = 0
        /\ Count(level # pressed)' = 0
        /\ Count(notifying') = Count(level # pressed)
    <3>1. (level # pressed)' = FALSE /\ notifying' = (level # pressed)
      BY <2>1
    <3> QED  BY <1>1, <2>1, <3>1 DEF Count
  <2>4. Waiting' = Waiting
    BY <1>1, <2>3
  <2> HIDE DEF Waiting, Types
  <2> QED  BY <1>1, <2>1, <2>2, <2>4
<1>7. CASE Notify
  <2>1. /\ UNCHANGED <<events, request, level, pressed>>
        /\ notifying = TRUE /\ notifying' = FALSE /\ notices' = TRUE
    BY <1>1, <1>7 DEF Notify
  <2>2. Types'
    BY <1>1, <2>1
  <2>3. /\ Count(notices') = 1 /\ Count(notifying') = 0 /\ Count(notifying) = 1
        /\ Count(level # pressed)' = Count(level # pressed)
    BY <2>1 DEF Count
  <2>4. Waiting' <= Waiting
    BY <1>1, <2>3
  <2>5. request' + Waiting' <= request + Waiting + (events' - events)
    <3>1. \A r, e, w1, w2 \in Nat : w2 <= w1 => r + w2 <= r + w1 + (e - e)
      OBVIOUS
    <3>2. request \in Nat /\ events \in Nat
      BY <1>1
    <3>3. request' = request /\ events' = events
      BY <2>1
    <3> QED  BY <1>1, <2>4, <3>1, <3>2, <3>3
  <2> QED  BY <1>1, <2>1, <2>2, <2>5
<1>8. CASE Flip
  <2>1. /\ UNCHANGED <<request, notices, notifying, pressed>>
        /\ level' = ~level
        /\ events < MaxEvents /\ events' = events + 1
    BY <1>8 DEF Flip
  <2>2. Types'
    BY <1>1, <2>1
  <2>3. /\ Count(notices)' = Count(notices) /\ Count(notifying)' = Count(notifying)
        /\ Count(level # pressed)' <= 1 /\ Count(level # pressed) \in Nat
        /\ Count(notices) \in Nat /\ Count(notifying) \in Nat
        /\ Count(level # pressed)' \in Nat
    BY <2>1 DEF Count
  <2>4. Waiting' <= Waiting + 1
    BY <1>1, <2>3
  <2>5. request' + Waiting' <= request + Waiting + (events' - events)
    <3>1. \A r, e, w1, w2 \in Nat : w2 <= w1 + 1 => r + w2 <= r + w1 + (e + 1 - e)
      OBVIOUS
    <3>2. request \in Nat /\ events \in Nat
      BY <1>1
    <3>3. request' = request /\ events' = events + 1
      BY <2>1
    <3> QED  BY <1>1, <2>4, <3>1, <3>2, <3>3
  <2> QED  BY <1>1, <2>1, <2>2, <2>5
<1>9. CASE Environment /\ ~Flip
  BY <1>2, <1>9 DEF Environment, Supervise, GiveEndpoints, Enable, Disable,
     Unconfigure, Quiesce, Disconnect, Signal, PersistenceFails, Persist
<1>10. CASE UNCHANGED vars
  BY <1>2, <1>10 DEF vars
<1> QED  BY <1>3, <1>4, <1>5, <1>6, <1>7, <1>8, <1>9, <1>10 DEF Next, Button

\* Records are well-formed and the published request is a number.
LEMMA ChannelStep ==
  ASSUME ChannelInv, [Next]_vars
  PROVE  ChannelInv'
<1> USE DEF ChannelInv, mainVars, threadVars, buttonVars, deviceVars, busVars
<1>1. \A s \in Seq(Records) : s # << >> => Tail(s) \in Seq(Records)
  OBVIOUS
<1>2. CASE Main
  <2>1. CASE Startup \/ StartGeneration
    BY <1>1, <2>1 DEF Startup, StartGeneration, Publish
  <2>2. CASE ServeEnable \/ ServeDisable \/ ServeQuiesce \/ ServeExit
             \/ ServeStopped
    BY <1>1, <2>2 DEF ServeEnable, ServeDisable, ServeQuiesce, ServeExit,
       ServeStopped, Receives, Leave
  <2>3. CASE ServeButton
    BY <2>3 DEF ServeButton, Eject, Leave, Publish
  <2>4. CASE Reinsert
    <3>1. \/ UNCHANGED <<request, published, inbox>>
          \/ /\ published' = [personality |-> TRUE, request |-> request + 1]
             /\ request' = request + 1 /\ inbox' = inbox
      BY <2>4 DEF Reinsert, Publish
    <3> QED  BY <3>1
  <2>5. CASE Finish \/ GiveUp \/ Exit
    BY <2>5 DEF Finish, GiveUp, Exit
  <2> QED  BY <1>2, <2>1, <2>2, <2>3, <2>4, <2>5 DEF Main
<1>3. CASE Reader
  BY <1>3 DEF Reader, ReaderMoves, Wake, StartRead, ReadUnavailable,
     ReadNothing, ReadFails, ReadTransfer, Execute, SendResponse
<1>4. CASE Writer
  BY <1>4 DEF Writer, WriterMoves, ReceiveResponse, WriteTransfer,
     WriteUnavailable, WriteFails
<1>5. CASE Button
  BY <1>5 DEF Button, DrainReconnectEvents, Notify
<1>6. CASE Environment
  <2>1. ASSUME NEW record \in Records, inbox' = Append(inbox, record),
               UNCHANGED <<request, published>>
        PROVE  ChannelInv'
    BY <2>1
  <2>2. CASE GiveEndpoints \/ Unconfigure
    <3>1. /\ [kind |-> "UsbEndpoints", request |-> published.request] \in Records
          /\ [kind |-> "Quiesce", request |-> published.request] \in Records
      BY DEF Records
    <3> QED  BY <2>1, <2>2, <3>1 DEF GiveEndpoints, Unconfigure, Supervise
  <2>3. CASE Enable \/ Disable \/ Quiesce \/ Disconnect
    <3>1. \A kind \in {"Enable", "Disable", "Quiesce", "Closed"} :
            Record(kind) \in Records
      BY DEF Record, Records
    <3> QED  BY <2>1, <2>3, <3>1 DEF Enable, Disable, Quiesce, Disconnect,
                                     Supervise
  <2> QED  BY <1>6, <2>2, <2>3 DEF Environment, Flip, Signal,
      PersistenceFails, Persist
<1>7. CASE UNCHANGED vars
  BY <1>7 DEF vars
<1> QED  BY <1>2, <1>3, <1>4, <1>5, <1>6, <1>7 DEF Next

\* Taking the first record takes no activation twice.
LEMMA TailEnables ==
  ASSUME NEW records \in Seq(Records), records # << >>
  PROVE  /\ IsFiniteSet(EnablesIn(records))
         /\ Cardinality(EnablesIn(records)) \in Nat
         /\ Cardinality(EnablesIn(Tail(records))) \in Nat
         /\ Cardinality(EnablesIn(Tail(records)))
              + Count(Head(records).kind = "Enable")
              <= Cardinality(EnablesIn(records))
<1> DEFINE all == EnablesIn(records)
           rest == EnablesIn(Tail(records))
           shift == [i \in rest |-> i + 1]
<1>1. /\ Len(records) \in Nat /\ DOMAIN records = 1..Len(records)
      /\ DOMAIN Tail(records) = 1 .. Len(records) - 1
      /\ \A i \in 1 .. Len(records) - 1 : Tail(records)[i] = records[i + 1]
      /\ Head(records) = records[1] /\ 1 \in 1..Len(records)
  OBVIOUS
<1>2. IsFiniteSet(all) /\ Cardinality(all) \in Nat
  <2>1. IsFiniteSet(1..Len(records))
    BY <1>1, FS_Interval
  <2>2. all \in SUBSET (1..Len(records))
    BY <1>1 DEF EnablesIn
  <2> HIDE DEF all
  <2> QED  BY <2>1, <2>2, FS_Subset, FS_CardinalityType
<1>3. /\ IsFiniteSet(all \ {1}) /\ Cardinality(all \ {1}) \in Nat
      /\ Cardinality(all \ {1}) + Count(Head(records).kind = "Enable")
           = Cardinality(all)
  <2>1. 1 \in all <=> Head(records).kind = "Enable"
    BY <1>1 DEF EnablesIn
  <2> HIDE DEF all
  <2>2. /\ IsFiniteSet(all \ {1})
        /\ Cardinality(all \ {1})
             = IF 1 \in all THEN Cardinality(all) - 1 ELSE Cardinality(all)
    BY <1>2, FS_RemoveElement
  <2>3. Cardinality(all \ {1}) \in Nat
    BY <2>2, FS_CardinalityType
  <2> QED  BY <1>2, <2>1, <2>2, <2>3 DEF Count
<1>4. shift \in Injection(rest, all \ {1})
  BY <1>1 DEF Injection, IsInjective, EnablesIn
<1> HIDE DEF all, rest, shift
<1>5. /\ Cardinality(rest) <= Cardinality(all \ {1})
      /\ Cardinality(rest) \in Nat
  BY <1>3, <1>4, FS_Injection, FS_CardinalityType
<1>6. Count(Head(records).kind = "Enable") \in Nat
  BY DEF Count
<1>7. Cardinality(rest) + Count(Head(records).kind = "Enable")
        <= Cardinality(all)
  BY <1>2, <1>3, <1>5, <1>6
<1> QED  BY <1>2, <1>5, <1>7 DEF all, rest

\* A record that is sent adds at most the activation it is.
LEMMA AppendEnables ==
  ASSUME NEW records \in Seq(Records), NEW record \in Records
  PROVE  /\ Cardinality(EnablesIn(records)) \in Nat
         /\ Cardinality(EnablesIn(Append(records, record)))
              = Cardinality(EnablesIn(records)) + Count(record.kind = "Enable")
<1>1. /\ Len(records) \in Nat /\ DOMAIN records = 1..Len(records)
      /\ DOMAIN Append(records, record) = 1 .. Len(records) + 1
      /\ \A i \in 1..Len(records) : Append(records, record)[i] = records[i]
      /\ Append(records, record)[Len(records) + 1] = record
  OBVIOUS
<1>2. IsFiniteSet(EnablesIn(records)) /\ Cardinality(EnablesIn(records)) \in Nat
  <2>1. IsFiniteSet(1..Len(records))
    BY <1>1, FS_Interval
  <2>2. EnablesIn(records) \in SUBSET (1..Len(records))
    BY <1>1 DEF EnablesIn
  <2> QED  BY <2>1, <2>2, FS_Subset, FS_CardinalityType
<1>3. Len(records) + 1 \notin EnablesIn(records)
  BY <1>1 DEF EnablesIn
<1>4. CASE record.kind = "Enable"
  <2>1. EnablesIn(Append(records, record))
          = EnablesIn(records) \cup {Len(records) + 1}
    BY <1>1, <1>4 DEF EnablesIn
  <2> QED  BY <1>2, <1>3, <1>4, <2>1, FS_AddElement DEF Count
<1>5. CASE record.kind # "Enable"
  <2>1. EnablesIn(Append(records, record)) = EnablesIn(records)
    BY <1>1, <1>5 DEF EnablesIn
  <2> QED  BY <1>2, <1>5, <2>1 DEF Count
<1> QED  BY <1>4, <1>5, <1>2

\* An activation was an event, whether it waits or is being served.
LEMMA ActivationStep ==
  ASSUME ChannelInv, ActivationInv, [Next]_vars
  PROVE  ActivationInv'
<1> USE DEF mainVars, threadVars, buttonVars, deviceVars, busVars
<1>0. MaxEvents \in Nat
  BY WorkerAssumption DEF WorkerAssumption
<1> DEFINE waiting == Cardinality(EnablesIn(inbox))
<1>1. /\ events \in 0..MaxEvents /\ activation \in 0..MaxEvents
      /\ lifecycle \in [activation : Nat, stopped : BOOLEAN]
      /\ lifecycle.activation \in Nat
      /\ lifecycle.activation + waiting <= events
      /\ inbox \in Seq(Records)
  BY DEF ActivationInv, ChannelInv
<1>2. waiting \in Nat
  <2>1. Record("Enable") \in Records
    BY DEF Record, Records
  <2> QED  BY <1>1, <2>1, AppendEnables
\* The events do not go back, and an activation that is served was waiting.
<1>3. CASE /\ UNCHANGED inbox
           /\ lifecycle' = lifecycle
                \/ lifecycle' = [lifecycle EXCEPT !.stopped = TRUE]
           /\ activation' \in {activation, lifecycle.activation}
           /\ events' = events \/ (events < MaxEvents /\ events' = events + 1)
  <2>1. waiting' = waiting
    BY <1>3
  <2>2. /\ lifecycle' \in [activation : Nat, stopped : BOOLEAN]
        /\ lifecycle'.activation = lifecycle.activation
    BY <1>1, <1>3
  <2> HIDE DEF waiting
  <2>3. /\ events' \in 0..MaxEvents /\ activation' \in 0..MaxEvents
        /\ lifecycle'.activation + waiting' <= events'
    BY <1>0, <1>1, <1>2, <1>3, <2>1, <2>2
  <2> QED  BY <2>2, <2>3 DEF ActivationInv, waiting
<1>4. CASE /\ inbox # << >> /\ inbox' = Tail(inbox) /\ events' = events
           /\ \/ /\ lifecycle'
                      = [lifecycle EXCEPT !.activation = lifecycle.activation + 1]
                 /\ Head(inbox).kind = "Enable"
              \/ lifecycle' = lifecycle
              \/ lifecycle' = [lifecycle EXCEPT !.stopped = TRUE]
              \/ lifecycle' = [activation |-> 0, stopped |-> FALSE]
           /\ activation' \in {activation, 0}
  <2> DEFINE opens == Count(Head(inbox).kind = "Enable")
  <2>1. waiting' \in Nat /\ waiting' + opens <= waiting
    BY <1>1, <1>4, TailEnables
  <2>2. opens \in Nat /\ (Head(inbox).kind = "Enable" => opens = 1)
    BY DEF Count
  <2>3. /\ lifecycle' \in [activation : Nat, stopped : BOOLEAN]
        /\ \/ lifecycle'.activation = lifecycle.activation + 1 /\ opens = 1
           \/ lifecycle'.activation = lifecycle.activation
           \/ lifecycle'.activation = 0
    <3> HIDE DEF opens
    <3>1. CASE /\ lifecycle'
                    = [lifecycle EXCEPT !.activation = lifecycle.activation + 1]
               /\ Head(inbox).kind = "Enable"
      BY <1>1, <2>2, <3>1
    <3>2. CASE lifecycle' = [lifecycle EXCEPT !.stopped = TRUE]
      BY <1>1, <3>2
    <3>3. CASE lifecycle' = lifecycle
      BY <1>1, <3>3
    <3>4. CASE lifecycle' = [activation |-> 0, stopped |-> FALSE]
      BY <3>4
    <3> QED  BY <1>4, <3>1, <3>2, <3>3, <3>4
  <2> HIDE DEF waiting, opens
  <2>4. /\ lifecycle'.activation + waiting' <= events'
        /\ activation' \in 0..MaxEvents
    BY <1>0, <1>1, <1>2, <1>4, <2>1, <2>2, <2>3
  <2> QED  BY <1>1, <1>4, <2>3, <2>4 DEF ActivationInv, waiting
<1>5. ASSUME NEW record \in Records, inbox' = Append(inbox, record),
             UNCHANGED <<lifecycle, activation>>,
             \/ record.kind # "Enable" /\ events' = events
             \/ events < MaxEvents /\ events' = events + 1
      PROVE  ActivationInv'
  <2> DEFINE opens == Count(record.kind = "Enable")
  <2>1. waiting' = waiting + opens
    BY <1>1, <1>5, AppendEnables
  <2>2. opens = 0 \/ (opens = 1 /\ record.kind = "Enable")
    BY DEF Count
  <2> HIDE DEF waiting, opens
  <2>3. /\ lifecycle'.activation + waiting' <= events'
        /\ events' \in 0..MaxEvents
    BY <1>0, <1>1, <1>2, <1>5, <2>1, <2>2
  <2> QED  BY <1>1, <1>5, <2>3 DEF ActivationInv, waiting
<1>6. CASE Main
  <2>1. CASE StartGeneration
    BY <1>4, <2>1 DEF StartGeneration
  <2>2. CASE ServeEnable
    BY <1>4, <2>2 DEF ServeEnable, Receives
  <2>4. CASE ServeDisable
    BY <1>4, <2>4 DEF ServeDisable, Receives
  <2>5. CASE ServeQuiesce \/ ServeExit
    BY <1>4, <2>5 DEF ServeQuiesce, ServeExit, Receives, Leave
  <2>3. CASE Startup \/ ServeStopped \/ ServeButton \/ Finish \/ Reinsert
             \/ GiveUp \/ Exit
    BY <1>3, <2>3 DEF Startup, ServeStopped, ServeButton, Eject, Leave,
       Finish, Reinsert, GiveUp, Exit, Publish
  <2> QED  BY <1>6, <2>1, <2>2, <2>3, <2>4, <2>5 DEF Main
<1>7. CASE Reader
  BY <1>3, <1>7 DEF Reader, ReaderMoves, Wake, StartRead, ReadUnavailable,
     ReadNothing, ReadFails, ReadTransfer, Execute, SendResponse
<1>8. CASE Writer
  BY <1>3, <1>8 DEF Writer, WriterMoves, ReceiveResponse, WriteTransfer,
     WriteUnavailable, WriteFails
<1>9. CASE Button
  BY <1>3, <1>9 DEF Button, DrainReconnectEvents, Notify
<1>10. CASE Environment
  <2>1. CASE GiveEndpoints \/ Unconfigure
    <3>1. /\ [kind |-> "UsbEndpoints", request |-> published.request] \in Records
          /\ [kind |-> "Quiesce", request |-> published.request] \in Records
      BY DEF Records, ChannelInv
    <3> QED  BY <1>5, <2>1, <3>1 DEF GiveEndpoints, Unconfigure, Supervise
  <2>2. CASE Enable \/ Disable \/ Quiesce \/ Disconnect
    <3>1. \A kind \in {"Enable", "Disable", "Quiesce", "Closed"} :
            Record(kind) \in Records /\ Record(kind).kind = kind
      BY DEF Record, Records
    <3> QED  BY <1>5, <2>2, <3>1 DEF Enable, Disable, Quiesce, Disconnect,
                                     Supervise
  <2>3. CASE Flip \/ Signal \/ PersistenceFails \/ Persist
    BY <1>3, <2>3 DEF Flip, Signal, PersistenceFails, Persist
  <2> QED  BY <1>10, <2>1, <2>2, <2>3 DEF Environment
<1>11. CASE UNCHANGED vars
  BY <1>3, <1>11 DEF vars
<1> QED  BY <1>6, <1>7, <1>8, <1>9, <1>10, <1>11 DEF Next

-----------------------------------------------------------------------------
(* Threads *)

\* Endpoint threads run only in a generation: they are joined before the main
\* thread goes on, and the state is flushed after that.
LEMMA ThreadStep ==
  ASSUME ControlInv, ThreadInv, [Next]_vars
  PROVE  ThreadInv'
<1> USE DEF mainVars, threadVars, buttonVars, deviceVars, busVars
<1> USE DEF ThreadInv, Quiet, Asleep, Stranded, SendFails, ControlInv
<1>1. CASE Main
  <2>1. CASE Startup
    BY <2>1 DEF Startup, Publish
  <2>2. CASE StartGeneration
    BY <2>2 DEF StartGeneration
  <2>3. CASE ServeEnable \/ ServeDisable \/ ServeQuiesce \/ ServeExit
             \/ ServeStopped \/ ServeButton
    BY <2>3 DEF ServeEnable, ServeDisable, ServeQuiesce, ServeExit,
       ServeStopped, ServeButton, Eject, Receives, Leave
  <2>4. CASE Finish
    BY <2>4 DEF Finish, Joined, Ended
  <2>5. CASE Reinsert
    BY <2>5 DEF Reinsert, Publish
  <2>6. CASE GiveUp
    BY <2>6 DEF GiveUp
  <2>7. CASE Exit
    BY <2>7 DEF Exit
  <2> QED  BY <1>1, <2>1, <2>2, <2>3, <2>4, <2>5, <2>6, <2>7 DEF Main
<1>2. CASE Reader
  <2> USE DEF ReaderMoves
  <2>1. CASE Wake
    BY <2>1 DEF Wake
  <2>2. CASE StartRead \/ ReadUnavailable \/ ReadNothing \/ ReadFails
             \/ ReadTransfer
    BY <2>2 DEF StartRead, ReadUnavailable, ReadNothing, ReadFails,
       ReadTransfer
  <2>3. CASE \E opens, changes \in BOOLEAN : Execute(opens, changes)
    BY <2>3 DEF Execute
  <2>4. CASE SendResponse
    BY <2>4 DEF SendResponse
  <2> QED  BY <1>2, <2>1, <2>2, <2>3, <2>4 DEF Reader
<1>3. CASE Writer
  BY <1>3 DEF Writer, WriterMoves, ReceiveResponse, WriteTransfer,
     WriteUnavailable, WriteFails, Ended
<1>4. CASE Button
  BY <1>4 DEF Button, DrainReconnectEvents, Notify
<1>5. CASE Environment
  <2>1. CASE GiveEndpoints \/ Enable \/ Disable \/ Unconfigure \/ Quiesce
             \/ Disconnect
    BY <2>1 DEF Supervise, GiveEndpoints, Enable, Disable, Unconfigure,
       Quiesce, Disconnect
  <2>2. CASE Flip \/ Signal \/ PersistenceFails \/ Persist
    BY <2>2 DEF Flip, Signal, PersistenceFails, Persist
  <2> QED  BY <1>5, <2>1, <2>2 DEF Environment
<1>6. CASE UNCHANGED vars
  BY <1>6 DEF vars
<1> QED  BY <1>1, <1>2, <1>3, <1>4, <1>5, <1>6 DEF Next

-----------------------------------------------------------------------------
(* The dialogue with the supervisor *)

\* The worker takes one record or publishes, and goes where it expects the
\* records that may follow.
LEMMA MainKeepsDialogue ==
  ASSUME ControlInv, ChannelInv, DialogueInv, Main
  PROVE  DialogueInv'
<1> USE DEF mainVars, threadVars, buttonVars, deviceVars, busVars
<1>0. /\ inbox \in Seq(Records) /\ Len(inbox) \in Nat
      /\ request \in Nat \ {0}
      /\ inbox # << >> => Len(inbox) > 0 /\ Head(inbox) = inbox[1]
      /\ Len(inbox) = 0 => inbox = << >>
      /\ Len(<< >>) = 0
  BY DEF ChannelInv
<1>1. inbox # << >> /\ inbox' = Tail(inbox) =>
        /\ Len(inbox') = Len(inbox) - 1
        /\ \A i \in 1 .. Len(inbox) - 1 : inbox'[i] = inbox[i + 1]
  BY <1>0
<1> USE DEF DialogueInv
<1>2. CASE Startup
  <2>1. CASE SendFails
    BY <1>2, <2>1 DEF Startup, Listening
  <2>2. CASE ~SendFails
    <3>1. /\ main = "startup"
          /\ main' = IF pressed THEN "ejected" ELSE "awaiting"
          /\ published' = [personality |-> ~pressed, request |-> request]
          /\ UNCHANGED <<request, inbox, supervisor>>
      BY <1>2, <2>2 DEF Startup, Publish
    <3>2. supervisor = "idle" /\ Len(inbox) = 0
      BY <2>2, <3>1 DEF SendFails, Sent
    <3>3. CASE pressed
      <4>1. ~published'.personality /\ main' = "ejected"
        BY <3>1, <3>3
      <4> QED  BY <3>1, <3>2, <4>1 DEF Sent
    <3>4. CASE ~pressed
      <4>1. /\ published'.personality /\ published'.request = request
            /\ main' = "awaiting"
        BY <3>1, <3>4
      <4> QED  BY <3>1, <3>2, <4>1 DEF Sent
    <3> QED  BY <3>3, <3>4
  <2> QED  BY <2>1, <2>2
<1>3. CASE StartGeneration
  <2>1. CASE SendFails
    BY <1>3, <2>1 DEF StartGeneration, Listening
  <2>2. CASE ~SendFails
    <3>1. /\ main = "awaiting" /\ inbox # << >> /\ inbox' = Tail(inbox)
          /\ main' = "serving" /\ pending' = FALSE
          /\ supervisor' = "serving" /\ UNCHANGED <<published, request>>
      BY <1>3, <2>2 DEF StartGeneration
    <3>2. Len(inbox) = 1 /\ published.personality
      BY <1>0, <2>2, <3>1 DEF SendFails, Sent
    <3>3. Sent' = 0
      BY <1>1, <3>1, <3>2 DEF Sent
    <3> QED  BY <3>1, <3>2, <3>3
  <2> QED  BY <2>1, <2>2
<1>4. ASSUME main = "serving", inbox # << >>, inbox' = Tail(inbox),
             Head(inbox).kind \in {"Enable", "Disable"},
             UNCHANGED <<mainVars, published, supervisor>>
      PROVE  DialogueInv'
  <2>1. Len(inbox) > 0 /\ (supervisor = "gone" => Len(inbox) > 1)
    BY <1>0, <1>4 DEF Listening
  <2>2. Sent' = Sent - 1 /\ Sent \in Nat /\ Sent <= Len(inbox)
    BY <1>0, <1>1, <1>4, <2>1 DEF Sent
  <2>3. \A i \in 1..Sent' : Served(i)'
    <3> SUFFICES ASSUME NEW i \in 1..Sent'
                 PROVE  Served(i)'
      OBVIOUS
    <3>1. Served(i + 1) /\ inbox'[i] = inbox[i + 1] /\ (i + 1 = Sent => i = Sent')
      BY <1>1, <1>4, <2>2
    <3> QED  BY <1>4, <3>1 DEF Served, Expected
  <2>4. supervisor' = "gone" =>
          Len(inbox') > 0 /\ inbox'[Len(inbox')].kind = "Closed"
    BY <1>0, <1>1, <1>4, <2>1 DEF Listening
  <2> QED  BY <1>4, <2>3, <2>4
<1>5. CASE ServeEnable \/ ServeDisable
  BY <1>4, <1>5 DEF ServeEnable, ServeDisable, Receives
<1>6. CASE ServeQuiesce
  <2>1. /\ main = "serving" /\ inbox # << >> /\ inbox[1].kind = "Quiesce"
        /\ inbox' = Tail(inbox) /\ Expected(inbox[1])
        /\ main' = "joining"
        /\ outcome' = IF inbox[1].request = 0 THEN "Quiesce" ELSE "Eject"
        /\ UNCHANGED <<published, supervisor>>
    BY <1>0, <1>6 DEF ServeQuiesce, Receives, Leave
  <2>2. 1 \in 1..Sent
    BY <1>0, <2>1 DEF Sent, Listening
  <2>3. Served(1) /\ Sent = 1 /\ supervisor \in {"quiescing", "gone"}
    BY <2>1, <2>2 DEF Served
  <2>4. Sent' = 0
    BY <1>0, <1>1, <2>1, <2>3 DEF Sent
  <2>5. supervisor' = "gone" =>
          Len(inbox') > 0 /\ inbox'[Len(inbox')].kind = "Closed"
    BY <1>0, <1>1, <2>1, <2>3 DEF Listening, Sent
  <2>6. outcome' = "Eject" => ~published'.personality
    BY <2>1 DEF Expected
  <2> QED  BY <2>1, <2>3, <2>4, <2>5, <2>6
<1>7. CASE ServeExit \/ ServeStopped
  BY <1>7 DEF ServeExit, ServeStopped, Receives, Leave, Listening
<1>8. CASE ServeButton
  <2>1. CASE Eject /\ ~SendFails
    <3>1. /\ main = "serving" /\ main' = main /\ ~pending
          /\ request' = request + 1 /\ pending' = TRUE
          /\ published' = [personality |-> FALSE, request |-> request + 1]
          /\ UNCHANGED <<inbox, supervisor>> /\ supervisor # "gone"
      BY <1>8, <2>1 DEF ServeButton, Eject, Publish, SendFails
    <3>2. \A i \in 1..Sent : Served(i)'
      BY <3>1 DEF Served, Expected, Sent
    <3>3. Sent' = Sent
      BY <3>1 DEF Sent
    <3> QED  BY <3>1, <3>2, <3>3
  <2>2. CASE Leave("Error")
    BY <1>8, <2>2 DEF ServeButton, Leave, Listening
  <2>3. CASE UNCHANGED <<mainVars, busVars>>
    BY <2>3 DEF Listening, Sent, Served, Expected
  <2> QED  BY <1>8, <2>1, <2>2, <2>3 DEF ServeButton
<1>9. CASE Finish
  <2>1. CASE main' = "ejected"
    <3>1. /\ main = "joining" /\ outcome = "Eject" /\ supervisor # "gone"
          /\ supervisor' = "idle" /\ UNCHANGED <<published, inbox>>
      BY <1>9, <2>1 DEF Finish, SendFails
    <3>2. ~published.personality /\ Len(inbox) = 0
      BY <3>1 DEF Sent
    <3> QED  BY <2>1, <3>1, <3>2 DEF Sent
  <2>2. CASE main' = "exiting"
    BY <2>2 DEF Listening
  <2> QED  BY <1>9, <2>1, <2>2 DEF Finish
<1>10. CASE Reinsert
  <2>1. CASE pressed
    <3>1. UNCHANGED <<mainVars, busVars>>
      BY <1>10, <2>1 DEF Reinsert
    <3> QED  BY <3>1 DEF Listening, Sent, Served, Expected
  <2>2. CASE ~pressed
    <3>1. /\ main = "ejected" /\ inbox = << >> /\ main' = "awaiting"
          /\ request' = request + 1
          /\ published' = [personality |-> TRUE, request |-> request + 1]
          /\ UNCHANGED <<inbox, supervisor>>
      BY <1>10, <2>2 DEF Reinsert, Publish
    <3>2. supervisor = "idle"
      BY <1>0, <3>1 DEF Listening
    <3> QED  BY <1>0, <3>1, <3>2 DEF Sent
  <2> QED  BY <2>1, <2>2
<1>11. CASE GiveUp \/ Exit
  BY <1>11 DEF GiveUp, Exit, Listening
<1> QED  BY Main, <1>2, <1>3, <1>5, <1>6, <1>7, <1>8, <1>9, <1>10, <1>11
         DEF Main

\* The supervisor sends what the worker, wherever it is by then, expects.
LEMMA SupervisorKeepsDialogue ==
  ASSUME ControlInv, ChannelInv, DialogueInv,
         NEW record \in Records, NEW state, NEW on,
         Supervise(state, on, record),
         \/ /\ supervisor = "idle" /\ published.personality /\ state = "given"
            /\ record = [kind |-> "UsbEndpoints", request |-> published.request]
         \/ /\ supervisor = "serving" /\ state = "serving"
            /\ record.kind \in {"Enable", "Disable"}
         \/ /\ supervisor = "serving" /\ state = "quiescing"
            /\ record.kind = "Quiesce"
            /\ \/ record.request = 0
               \/ ~published.personality /\ record.request = published.request
         \/ supervisor # "gone" /\ state = "gone" /\ record.kind = "Closed"
  PROVE  DialogueInv'
<1> USE DEF mainVars, threadVars, buttonVars, deviceVars, busVars
<1>1. /\ inbox' = Append(inbox, record) /\ supervisor' = state
      /\ UNCHANGED <<main, outcome, request, pending, published>>
  BY DEF Supervise
<1>2. /\ Len(inbox) \in Nat /\ Len(inbox') = Len(inbox) + 1
      /\ \A i \in 1..Len(inbox) : inbox'[i] = inbox[i]
      /\ inbox'[Len(inbox) + 1] = record
  BY <1>1 DEF ChannelInv
<1>3. /\ Sent = Len(inbox) /\ supervisor # "gone"
      /\ Sent' = IF state = "gone" THEN Len(inbox) ELSE Len(inbox) + 1
  BY <1>1, <1>2 DEF Sent
<1>4. supervisor' = "gone" => Len(inbox') > 0 /\ inbox'[Len(inbox')].kind = "Closed"
  BY <1>1, <1>2
<1>5. CASE main \in {"startup", "ejected"}
  BY <1>1, <1>2, <1>3, <1>4, <1>5 DEF DialogueInv
<1>6. CASE main = "awaiting"
  BY <1>1, <1>2, <1>3, <1>4, <1>6 DEF DialogueInv
<1>7. CASE main = "serving"
  <2>1. \A i \in 1..Len(inbox) : Served(i) /\ inbox'[i] = inbox[i]
    BY <1>2, <1>3, <1>7 DEF DialogueInv
  <2>2. \A i \in 1..Sent' : Served(i)'
    <3> SUFFICES ASSUME NEW i \in 1..Sent'
                 PROVE  Served(i)'
      OBVIOUS
    <3>1. CASE i = Len(inbox) + 1
      <4>1. state # "gone" /\ inbox'[i] = record /\ i = Sent'
        BY <1>2, <1>3, <3>1
      <4>2. CASE record.kind \in {"Enable", "Disable"}
        BY <4>1, <4>2 DEF Served
      <4>3. CASE record.kind = "Quiesce" /\ state = "quiescing"
        BY <1>1, <1>7, <4>1, <4>3 DEF Served, Expected, DialogueInv
      <4> QED  BY <1>7, <4>1, <4>2, <4>3 DEF DialogueInv
    <3>2. CASE i \in 1..Len(inbox)
      <4>1. Served(i) /\ inbox'[i] = inbox[i]
        BY <2>1, <3>2
      <4>2. CASE inbox[i].kind \in {"Enable", "Disable"}
        BY <4>1, <4>2 DEF Served
      <4>3. CASE inbox[i].kind \notin {"Enable", "Disable"}
        <5>1. /\ supervisor # "serving" /\ i = Sent
              /\ inbox[i].kind = "Quiesce" /\ Expected(inbox[i])
          BY <4>1, <4>3 DEF Served
        <5>2. state = "gone" /\ Sent' = Sent
          BY <1>3, <1>7, <5>1 DEF DialogueInv
        <5> QED  BY <1>1, <4>1, <5>1, <5>2 DEF Served, Expected
      <4> QED  BY <4>2, <4>3
    <3> QED  BY <1>2, <1>3, <3>1, <3>2
  <2>3. supervisor' \in {"serving", "quiescing", "gone"}
    BY <1>1, <1>7 DEF DialogueInv
  <2> QED  BY <1>1, <1>4, <1>7, <2>2, <2>3 DEF DialogueInv
<1>8. CASE main = "joining"
  BY <1>1, <1>2, <1>3, <1>4, <1>8 DEF DialogueInv
<1>9. CASE main \in {"exiting", "exited"}
  BY <1>1, <1>9 DEF DialogueInv, Listening
<1> QED  BY <1>5, <1>6, <1>7, <1>8, <1>9 DEF ControlInv

LEMMA DialogueStep ==
  ASSUME ControlInv, ChannelInv, DialogueInv, [Next]_vars
  PROVE  DialogueInv'
<1> USE DEF mainVars, threadVars, buttonVars, deviceVars, busVars
<1>1. CASE UNCHANGED <<main, outcome, request, pending, published, inbox,
                       supervisor>>
  BY <1>1 DEF DialogueInv, Listening, Sent, Served, Expected
<1>2. CASE Main
  BY <1>2, MainKeepsDialogue
<1>3. CASE Reader
  BY <1>1, <1>3 DEF Reader, ReaderMoves, Wake, StartRead, ReadUnavailable,
     ReadNothing, ReadFails, ReadTransfer, Execute, SendResponse
<1>4. CASE Writer
  BY <1>1, <1>4 DEF Writer, WriterMoves, ReceiveResponse, WriteTransfer,
     WriteUnavailable, WriteFails
<1>5. CASE Button
  BY <1>1, <1>5 DEF Button, DrainReconnectEvents, Notify
<1>6. CASE Flip \/ Signal \/ PersistenceFails \/ Persist
  BY <1>1, <1>6 DEF Flip, Signal, PersistenceFails, Persist
<1>7. \A kind \in {"Enable", "Disable", "Quiesce", "Closed"} :
        /\ Record(kind) \in Records
        /\ Record(kind).kind = kind /\ Record(kind).request = 0
  BY DEF Record, Records
<1>8. CASE GiveEndpoints
  <2> DEFINE record == [kind |-> "UsbEndpoints", request |-> published.request]
  <2>1. record \in Records
    BY DEF Records, ChannelInv
  <2>2. /\ Supervise("given", FALSE, record)
        /\ supervisor = "idle" /\ published.personality
    BY <1>8 DEF GiveEndpoints
  <2> HIDE DEF record
  <2> QED  BY <2>1, <2>2, SupervisorKeepsDialogue DEF record
<1>9. CASE Unconfigure
  <2> DEFINE record == [kind |-> "Quiesce", request |-> published.request]
  <2>1. /\ record \in Records /\ record.kind = "Quiesce"
        /\ record.request = published.request
    BY DEF Records, ChannelInv
  <2>2. /\ Supervise("quiescing", FALSE, record)
        /\ supervisor = "serving" /\ ~published.personality
    BY <1>9 DEF Unconfigure
  <2> HIDE DEF record
  <2> QED  BY <2>1, <2>2, SupervisorKeepsDialogue
<1>10. CASE Enable
  BY <1>7, <1>10, SupervisorKeepsDialogue DEF Enable
<1>11. CASE Disable
  BY <1>7, <1>11, SupervisorKeepsDialogue DEF Disable
<1>12. CASE Quiesce
  BY <1>7, <1>12, SupervisorKeepsDialogue DEF Quiesce
<1>13. CASE Disconnect
  BY <1>7, <1>13, SupervisorKeepsDialogue DEF Disconnect
<1>14. CASE UNCHANGED vars
  BY <1>1, <1>14 DEF vars
<1> QED  BY <1>2, <1>3, <1>4, <1>5, <1>6, <1>8, <1>9, <1>10, <1>11, <1>12,
            <1>13, <1>14 DEF Next, Environment

-----------------------------------------------------------------------------
(* The theorems *)

Inv ==
  /\ ControlInv /\ ChannelInv /\ RequestInv /\ ActivationInv /\ ThreadInv
  /\ DialogueInv

LEMMA InvHolds == Spec => []Inv
<1>1. Init => Inv
  <2> SUFFICES ASSUME Init
               PROVE  Inv
    OBVIOUS
  <2>0. MaxEvents \in Nat
    BY WorkerAssumption DEF WorkerAssumption
  <2>1. ControlInv
    <3>1. /\ main = "startup" /\ outcome = "None"
          /\ reader = "none" /\ writer = "none" /\ queue = 0
          /\ dirty = FALSE /\ healthy = TRUE
      BY DEF Init
    <3>2. dirty \in BOOLEAN /\ healthy \in BOOLEAN
      BY <3>1
    <3>3. queue \in 0..1
      BY <3>1
    <3> QED  BY <3>1, <3>2, <3>3, Zenon DEF ControlInv
  <2>5. ChannelInv
    BY DEF Init, ChannelInv
  <2>6. ThreadInv
    BY DEF Init, ThreadInv, Quiet
  <2>2. RequestInv
    <3>1. ~(level # pressed) /\ ~notices /\ ~notifying
      BY DEF Init
    <3>2. /\ Count(level # pressed) = 0 /\ Count(notices) = 0
          /\ Count(notifying) = 0
      BY <3>1 DEF Count
    <3>3. /\ level \in BOOLEAN /\ pressed \in BOOLEAN
          /\ notifying \in BOOLEAN /\ notices \in BOOLEAN
          /\ request = 1 /\ events = 0
      BY DEF Init
    <3> QED  BY <2>0, <3>2, <3>3 DEF RequestInv
  <2>3. ActivationInv
    <3>1. /\ inbox = << >> /\ events = 0 /\ activation = 0
          /\ lifecycle = [activation |-> 0, stopped |-> FALSE]
      BY DEF Init
    <3>2. EnablesIn(<< >>) = {}
      BY DEF EnablesIn
    <3>3. Cardinality(EnablesIn(inbox)) = 0
      BY <3>1, <3>2, FS_EmptySet
    <3> QED  BY <2>0, <3>1, <3>3 DEF ActivationInv
  <2>4. DialogueInv
    BY DEF Init, DialogueInv, Sent
  <2> QED  BY <2>1, <2>2, <2>3, <2>4, <2>5, <2>6 DEF Inv
<1>2. Inv /\ [Next]_vars => Inv'
  BY ControlStep, ChannelStep, RequestStep, ActivationStep, ThreadStep,
     DialogueStep DEF Inv
<1> QED  BY <1>1, <1>2, PTL DEF Spec

\* Outside a generation no endpoint thread runs, unless the process is going
\* and left two behind that never served; a device that is not on the bus has
\* nothing left to store; and neither requests nor activations outrun the
\* events that cause them (run_worker, EndpointRuntime::shutdown).
THEOREM WorkerQuiesces == Spec => []QuiescedIsQuiet
<1>1. Inv => QuiescedIsQuiet
  <2> SUFFICES ASSUME Inv
               PROVE  QuiescedIsQuiet
    OBVIOUS
  <2>0. MaxEvents \in Nat
    BY WorkerAssumption DEF WorkerAssumption
  <2>1. request \in 1 .. MaxEvents + 1
    <3>1. /\ request \in Nat \ {0} /\ events \in 0..MaxEvents
          /\ request - 1 + Count(notices) + Count(notifying)
               + Count(level # pressed) <= events
      BY DEF Inv, RequestInv
    <3>2. /\ Count(notices) \in Nat /\ Count(notifying) \in Nat
          /\ Count(level # pressed) \in Nat
      BY DEF Count
    <3> QED  BY <2>0, <3>1, <3>2
  <2>2. lifecycle.activation \in 0..MaxEvents /\ activation \in 0..MaxEvents
    <3>1. Record("Enable") \in Records /\ inbox \in Seq(Records)
      BY DEF Record, Records, Inv, ChannelInv
    <3>2. Cardinality(EnablesIn(inbox)) \in Nat
      BY <3>1, AppendEnables
    <3>3. /\ lifecycle.activation \in Nat /\ events \in 0..MaxEvents
          /\ lifecycle.activation + Cardinality(EnablesIn(inbox)) <= events
          /\ activation \in 0..MaxEvents
      BY DEF Inv, ActivationInv
    <3> QED  BY <2>0, <3>2, <3>3
  <2>3. TypeOK
    BY <2>1, <2>2 DEF TypeOK, Inv, ControlInv
  <2> QED  BY <2>3 DEF QuiescedIsQuiet, Inv, ThreadInv, Asleep, ControlInv
<1> QED  BY <1>1, InvHolds, PTL

\* The worker meets no record that it would reject, in whatever order presses,
\* publications, bus events and requests to quiesce cross (serve_control,
\* wait_for_reinsert).
THEOREM NoUnexpectedRecord == Spec => []RecordsAreExpected
<1>1. Inv => RecordsAreExpected
  <2> SUFFICES ASSUME Inv, inbox # << >>
               PROVE  LET record == Head(inbox) IN
                      /\ main = "awaiting" =>
                           \/ record.kind = "Closed"
                           \/ record = [kind |-> "UsbEndpoints",
                                        request |-> request]
                      /\ main = "ejected" => record.kind = "Closed"
                      /\ main = "serving" =>
                           /\ record.kind # "UsbEndpoints"
                           /\ record.kind = "Quiesce" => Expected(record)
    BY DEF RecordsAreExpected
  <2>1. Head(inbox) = inbox[1] /\ Len(inbox) \in Nat /\ Len(inbox) > 0
    BY DEF Inv, ChannelInv
  <2>2. DialogueInv
    BY DEF Inv
  <2>3. main = "serving" => inbox[1].kind = "Closed" \/ Served(1)
    BY <2>1, <2>2 DEF DialogueInv, Sent, Listening
  <2> QED  BY <2>1, <2>2, <2>3 DEF DialogueInv, Sent, Listening, Served
<1> QED  BY <1>1, InvHolds, PTL

=============================================================================

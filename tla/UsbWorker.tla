------------------------------ MODULE UsbWorker ------------------------------
(***************************************************************************)
(* The USB worker (src/functionfs.rs and src/buttons.rs): the main thread  *)
(* that follows the supervisor, the two endpoint threads of a generation,  *)
(* the button thread, and the stop flag they share with signal handlers    *)
(* and the persistence writer.                                             *)
(*                                                                         *)
(* The supervisor, the USB bus and the lifecycle object are external and   *)
(* do what the worker relies on: the supervisor gives endpoints for a      *)
(* personality, disables them before it asks to quiesce, and answers an    *)
(* empty personality with a quiesce request.  A disabled endpoint cancels  *)
(* the transfer that waits on it.  Transfers carry nothing here but        *)
(* whether they open a session and whether they change durable state.      *)
(***************************************************************************)
EXTENDS Naturals, Sequences

CONSTANT
  MaxEvents  \* bound: flips of the button, enablings of the bus and requests
             \* of the host, taken together

ASSUME WorkerAssumption == MaxEvents \in Nat

VARIABLES
  \* main thread
  main,        \* where run_worker is
  outcome,     \* ControlOutcome, or "Error"
  request,     \* configure_request
  pending,     \* unconfiguration_pending
  stop,        \* STOP_REQUESTED
  \* endpoint threads
  lifecycle,   \* [activation, stopped]
  reader,      \* yubihsm-usb
  activation,  \* the activation it serves
  queue,       \* responses in the channel of capacity 1
  writer,      \* yubihsm-in
  \* button
  level,       \* KEY3 is held
  edges,       \* edge events wait in the kernel
  pressed,     \* reconnect_pressed
  notifying,   \* the button thread is about to send its notification
  notices,     \* notifications wait, coalesced
  \* device
  session,     \* a secure session is open
  dirty,       \* durable state is not flushed
  healthy,     \* the writer has not failed
  \* supervisor and bus
  published,   \* the last Configure: [personality (not empty), request]
  inbox,       \* records on their way to the worker
  supervisor,  \* what the supervisor is doing
  enabled,     \* the endpoints are enabled
  cleared,     \* history: the last clearing event came after the last Enable
  events       \* flips, activations and transfers so far

mainVars == <<main, outcome, request, pending>>
threadVars == <<lifecycle, reader, activation, queue, writer>>
buttonVars == <<level, edges, pressed, notifying, notices>>
deviceVars == <<session, dirty, healthy>>
busVars == <<published, inbox, supervisor, enabled, cleared>>
vars == <<mainVars, stop, threadVars, buttonVars, deviceVars, busVars, events>>

\* A closed channel is seen as a record of its own kind.
Record(kind) == [kind |-> kind, request |-> 0]

Init ==
  /\ level \in BOOLEAN /\ pressed = level
  /\ edges = FALSE /\ notifying = FALSE /\ notices = FALSE
  /\ main = "startup" /\ outcome = "None" /\ request = 1 /\ pending = FALSE
  /\ stop = FALSE
  /\ lifecycle = [activation |-> 0, stopped |-> FALSE]
  /\ reader = "none" /\ activation = 0 /\ queue = 0 /\ writer = "none"
  /\ session = FALSE /\ dirty = FALSE /\ healthy = TRUE
  /\ published = [personality |-> FALSE, request |-> 0] /\ inbox = << >>
  /\ supervisor = "idle" /\ enabled = FALSE /\ cleared = FALSE
  /\ events = 0

-----------------------------------------------------------------------------
(* Main thread *)

\* Channel::send to a supervisor that has closed its end is an error.
SendFails == supervisor = "gone"

Publish(personality, id) ==
  /\ published' = [personality |-> personality, request |-> id]
  /\ UNCHANGED <<inbox, supervisor, enabled, cleared>>

\* KEY3 held at startup: nothing is published until it is released.
Startup ==
  /\ main = "startup"
  /\ IF SendFails
       THEN main' = "exiting" /\ UNCHANGED busVars
       ELSE /\ main' = IF pressed THEN "ejected" ELSE "awaiting"
            /\ Publish(~pressed, request)
  /\ UNCHANGED <<outcome, request, pending, stop, threadVars, buttonVars,
                 deviceVars, events>>

\* The endpoints arrive: the stop flag is cleared, whoever set it, and the
\* two threads of the generation start.  If Serving cannot be sent they are
\* left behind, waiting for an activation that will not come.
StartGeneration ==
  /\ main = "awaiting"
  /\ inbox # << >> /\ Head(inbox) = [kind |-> "UsbEndpoints", request |-> request]
  /\ main' = IF SendFails THEN "exiting" ELSE "serving"
  /\ pending' = FALSE /\ stop' = FALSE
  /\ lifecycle' = [activation |-> 0, stopped |-> FALSE]
  /\ reader' = "parked" /\ activation' = 0 /\ queue' = 0 /\ writer' = "idle"
  /\ inbox' = Tail(inbox)
  /\ supervisor' = IF SendFails THEN "gone" ELSE "serving"
  /\ UNCHANGED <<outcome, request, buttonVars, deviceVars, published,
                 enabled, cleared, events>>

\* serve_control, one record of the supervisor per step.
Receives(kind) ==
  /\ main = "serving" /\ ~stop
  /\ inbox # << >> /\ Head(inbox).kind = kind
  /\ inbox' = Tail(inbox)

ServeEnable ==
  /\ Receives("Enable")
  /\ lifecycle' = [lifecycle EXCEPT !.activation = @ + 1]
  /\ cleared' = FALSE
  /\ UNCHANGED <<mainVars, stop, reader, activation, queue, writer, buttonVars,
                 deviceVars, published, supervisor, enabled, events>>

\* Bind, Unbind and Disable clear the sessions.
ServeDisable ==
  /\ Receives("Disable")
  /\ session' = FALSE
  /\ cleared' = TRUE
  /\ UNCHANGED <<mainVars, stop, threadVars, buttonVars, dirty, healthy,
                 published, supervisor, enabled, events>>

\* Mutant: the endpoint threads are not woken.
LeaveParked(result) ==
  /\ main' = "joining" /\ outcome' = result /\ stop' = TRUE
  /\ UNCHANGED <<request, pending, threadVars, deviceVars, events>>

\* Leaving serve_control: stop flag, lifecycle, then the joins.
Leave(result) ==
  /\ main' = "joining" /\ outcome' = result /\ stop' = TRUE
  /\ lifecycle' = [lifecycle EXCEPT !.stopped = TRUE]
  /\ UNCHANGED <<request, pending, reader, activation, queue, writer,
                 deviceVars, events>>

\* A shutdown of the supervisor, or its answer to the empty personality.
Expected(record) ==
  \/ record.request = 0
  \/ pending /\ record.request = request

ServeQuiesce ==
  /\ Receives("Quiesce")
  /\ Expected(Head(inbox))
  /\ Leave(IF Head(inbox).request = 0 THEN "Quiesce" ELSE "Eject")
  /\ UNCHANGED <<buttonVars, published, supervisor, enabled, cleared>>

ServeExit ==
  /\ Receives("Closed")
  /\ Leave("Exit")
  /\ UNCHANGED <<buttonVars, published, supervisor, enabled, cleared>>

ServeStopped ==
  /\ main = "serving" /\ stop
  /\ Leave("Error")
  /\ UNCHANGED <<buttonVars, busVars>>

\* take_reconnect_state: the notifications are drained before the level is
\* read.
TakeReconnectState == notices /\ notices' = FALSE

\* Mutant: the identifier of the request that was published is not kept.
EjectForgetfully ==
  /\ Publish(FALSE, request + 1)
  /\ pending' = TRUE
  /\ UNCHANGED <<main, outcome, request, stop, threadVars, deviceVars, events>>

\* The empty personality is published, and its request remembered.
Eject ==
  /\ Publish(FALSE, request + 1)
  /\ request' = request + 1
  /\ pending' = TRUE
  /\ UNCHANGED <<main, outcome, stop, threadVars, deviceVars, events>>

\* A press while serving; a notification that finds the button released again
\* is consumed, and while an eject is pending none is.
ServeButton ==
  /\ main = "serving" /\ ~stop /\ ~pending
  /\ TakeReconnectState
  /\ \/ /\ ~pressed
        /\ UNCHANGED <<mainVars, stop, threadVars, deviceVars, busVars, events>>
     \/ pressed /\ ~SendFails /\ Eject
     \/ pressed /\ SendFails /\ Leave("Error") /\ UNCHANGED busVars
  /\ UNCHANGED <<level, edges, pressed, notifying>>

Ended(thread) == thread \in {"ended", "failed"}

\* Mutant: only the first thread is joined.
OneJoined == Ended(reader)

Joined == Ended(reader) /\ Ended(writer)

\* shutdown of the endpoint runtime, flush, and the outcome.  Quiesced is
\* sent when everything went well and somebody is there to take it, and the
\* flag is cleared for an eject.
Finish ==
  LET fine == /\ outcome \in {"Quiesce", "Eject"}
              /\ reader = "ended" /\ writer = "ended" /\ healthy
              /\ ~SendFails IN
  /\ main = "joining"
  /\ Joined
  /\ dirty' = (dirty /\ ~healthy)
  /\ main' = IF fine /\ outcome = "Eject" THEN "ejected" ELSE "exiting"
  /\ stop' = (stop /\ main' # "ejected")
  /\ supervisor' = IF fine THEN "idle" ELSE supervisor
  /\ UNCHANGED <<outcome, request, pending, threadVars, buttonVars, session,
                 healthy, published, inbox, enabled, cleared, events>>

\* wait_for_reinsert
Reinsert ==
  /\ main = "ejected" /\ ~stop /\ inbox = << >>
  /\ TakeReconnectState
  /\ IF pressed
       THEN UNCHANGED <<main, request, busVars>>
       ELSE /\ Publish(TRUE, request + 1)
            /\ request' = request + 1
            /\ main' = "awaiting"
  /\ UNCHANGED <<outcome, pending, stop, threadVars, level, edges, pressed,
                 notifying, deviceVars, events>>

\* Stopped while ejected, or the channel is closed while no generation runs.
GiveUp ==
  /\ \/ main = "ejected" /\ stop
     \/ /\ main \in {"ejected", "awaiting"}
        /\ inbox # << >> /\ Head(inbox).kind = "Closed"
  /\ main' = "exiting"
  /\ UNCHANGED <<outcome, request, pending, stop, threadVars, buttonVars,
                 deviceVars, busVars, events>>

\* PersistentDevice::shutdown and the helper threads.
Exit ==
  /\ main = "exiting"
  /\ main' = "exited" /\ stop' = TRUE
  /\ dirty' = (dirty /\ ~healthy)
  /\ UNCHANGED <<outcome, request, pending, threadVars, buttonVars, session,
                 healthy, busVars, events>>

-----------------------------------------------------------------------------
(* Endpoint threads *)

\* A thread that fails asks for the stop of the generation.
ReaderMoves(to) ==
  /\ reader' = to
  /\ stop' = (stop \/ to = "failed")
  /\ UNCHANGED <<mainVars, lifecycle, buttonVars, healthy, busVars>>

\* wait_for_activation_after: a later activation, or the end.
Wake ==
  /\ reader = "parked"
  /\ \/ /\ lifecycle.stopped
        /\ ReaderMoves("ended")
        /\ UNCHANGED activation
     \/ /\ ~lifecycle.stopped /\ lifecycle.activation > activation
        /\ ReaderMoves("polling")
        /\ activation' = lifecycle.activation
  /\ UNCHANGED <<queue, writer, session, dirty, events>>

\* The stop flag is read before each transfer; read blocks while the endpoint
\* is enabled and nothing comes.
StartRead ==
  /\ reader = "polling"
  /\ ReaderMoves(IF stop THEN "ended" ELSE "reading")
  /\ UNCHANGED <<activation, queue, writer, session, dirty, events>>

\* endpoint_is_unavailable: back to waiting for an activation.
ReadUnavailable ==
  /\ reader = "reading" /\ ~enabled
  /\ ReaderMoves("parked")
  /\ UNCHANGED <<activation, queue, writer, session, dirty, events>>

\* An empty transfer, or an interrupted read: the loop goes round.
ReadNothing ==
  /\ reader = "reading" /\ enabled
  /\ ReaderMoves("polling")
  /\ UNCHANGED <<activation, queue, writer, session, dirty, events>>

ReadFails ==
  /\ reader = "reading"
  /\ ReaderMoves("failed")
  /\ UNCHANGED <<activation, queue, writer, session, dirty, events>>

ReadTransfer ==
  /\ reader = "reading" /\ enabled
  /\ events < MaxEvents
  /\ events' = events + 1
  /\ ReaderMoves("executing")
  /\ UNCHANGED <<activation, queue, writer, session, dirty>>

\* execute_observing: the command may open a session and may change durable
\* state; with a failed writer it is an error.
Execute(opens, changes) ==
  /\ reader = "executing"
  /\ ReaderMoves(IF healthy THEN "sending" ELSE "failed")
  /\ session' = (session \/ (healthy /\ opens))
  /\ dirty' = (dirty \/ (healthy /\ changes))
  /\ UNCHANGED <<activation, queue, writer, events>>

\* The channel holds one response; without its receiver sending fails.
SendResponse ==
  /\ reader = "sending"
  /\ IF Ended(writer)
       THEN ReaderMoves("failed") /\ UNCHANGED queue
       ELSE queue = 0 /\ ReaderMoves("polling") /\ queue' = 1
  /\ UNCHANGED <<activation, writer, session, dirty, events>>

WriterMoves(to) ==
  /\ writer' = to
  /\ stop' = (stop \/ to = "failed")
  /\ UNCHANGED <<mainVars, lifecycle, reader, activation, buttonVars,
                 deviceVars, busVars, events>>

\* recv: a response, or the end once the sender is gone and nothing is left.
ReceiveResponse ==
  /\ writer = "idle"
  /\ \/ queue = 1 /\ queue' = 0 /\ WriterMoves("writing")
     \/ queue = 0 /\ Ended(reader) /\ UNCHANGED queue /\ WriterMoves("ended")

\* The host takes the response while the endpoint is enabled.
WriteTransfer ==
  /\ writer = "writing" /\ enabled
  /\ WriterMoves("idle")
  /\ UNCHANGED queue

\* A disabled endpoint drops the response.
WriteUnavailable ==
  /\ writer = "writing" /\ ~enabled
  /\ WriterMoves("idle")
  /\ UNCHANGED queue

\* A short write or another error of the endpoint.
WriteFails ==
  /\ writer = "writing"
  /\ WriterMoves("failed")
  /\ UNCHANGED queue

-----------------------------------------------------------------------------
(* Button thread *)

Flip ==
  /\ events < MaxEvents
  /\ events' = events + 1
  /\ level' = ~level
  /\ edges' = TRUE
  /\ UNCHANGED <<mainVars, stop, threadVars, pressed, notifying, notices,
                 deviceVars, busVars>>

\* Mutant: only a press is worth a notification.
NotifiesPress(current) == pressed # current /\ current

\* Whether the swap found another level than the current one.
Notifies(current) == pressed # current

\* drain_reconnect_events: all edges, then one look at the level, and the
\* swap; the notification is a step of its own.
DrainReconnectEvents ==
  /\ edges /\ ~notifying
  /\ main # "exited"
  /\ edges' = FALSE
  /\ pressed' = level
  /\ notifying' = Notifies(level)
  /\ UNCHANGED <<mainVars, stop, threadVars, level, notices, deviceVars,
                 busVars, events>>

Notify ==
  /\ notifying
  /\ main # "exited"
  /\ notifying' = FALSE
  /\ notices' = TRUE
  /\ UNCHANGED <<mainVars, stop, threadVars, level, edges, pressed, deviceVars,
                 busVars, events>>

-----------------------------------------------------------------------------
(* Supervisor, bus, signals: external *)

Supervise(state, on, record) ==
  /\ supervisor' = state
  /\ enabled' = on
  /\ inbox' = Append(inbox, record)
  /\ UNCHANGED <<mainVars, stop, threadVars, buttonVars, deviceVars,
                 published, cleared>>

GiveEndpoints ==
  /\ supervisor = "idle" /\ published.personality /\ main # "exited"
  /\ Supervise("given", FALSE,
               [kind |-> "UsbEndpoints", request |-> published.request])
  /\ UNCHANGED events

Enable ==
  /\ supervisor = "serving" /\ ~enabled
  /\ events < MaxEvents
  /\ events' = events + 1
  /\ Supervise("serving", TRUE, Record("Enable"))

Disable ==
  /\ supervisor = "serving" /\ enabled
  /\ Supervise("serving", FALSE, Record("Disable"))
  /\ UNCHANGED events

\* The answer to an empty personality.
Unconfigure ==
  /\ supervisor = "serving" /\ ~published.personality
  /\ Supervise("quiescing", FALSE,
               [kind |-> "Quiesce", request |-> published.request])
  /\ UNCHANGED events

\* The supervisor wants the worker to end.
Quiesce ==
  /\ supervisor = "serving"
  /\ Supervise("quiescing", FALSE, Record("Quiesce"))
  /\ UNCHANGED events

Disconnect ==
  /\ supervisor # "gone"
  /\ Supervise("gone", FALSE, Record("Closed"))
  /\ UNCHANGED events

\* SIGTERM or SIGINT
Signal ==
  /\ ~stop
  /\ stop' = TRUE
  /\ UNCHANGED <<mainVars, threadVars, buttonVars, deviceVars, busVars, events>>

\* The persistence writer fails for good and runs its callback.
PersistenceFails ==
  /\ healthy /\ dirty
  /\ healthy' = FALSE /\ stop' = TRUE
  /\ UNCHANGED <<mainVars, threadVars, buttonVars, session, dirty, busVars,
                 events>>

\* The batched writer stores a snapshot in the background.
Persist ==
  /\ dirty /\ healthy
  /\ dirty' = FALSE
  /\ UNCHANGED <<mainVars, stop, threadVars, buttonVars, session, healthy,
                 busVars, events>>

-----------------------------------------------------------------------------

Main ==
  \/ Startup \/ StartGeneration
  \/ ServeEnable \/ ServeDisable \/ ServeQuiesce \/ ServeExit \/ ServeStopped
  \/ ServeButton
  \/ Finish \/ Reinsert \/ GiveUp \/ Exit

Reader ==
  \/ Wake \/ StartRead
  \/ ReadUnavailable \/ ReadNothing \/ ReadFails \/ ReadTransfer
  \/ \E opens, changes \in BOOLEAN : Execute(opens, changes)
  \/ SendResponse

Writer ==
  ReceiveResponse \/ WriteTransfer \/ WriteUnavailable \/ WriteFails

Button == DrainReconnectEvents \/ Notify

Environment ==
  \/ Flip
  \/ GiveEndpoints \/ Enable \/ Disable \/ Unconfigure \/ Quiesce \/ Disconnect
  \/ Signal \/ PersistenceFails \/ Persist

Next == Main \/ Reader \/ Writer \/ Button \/ Environment

Spec == Init /\ [][Next]_vars

\* The threads of the worker are scheduled; transfers and writes end at the
\* latest when the endpoint is disabled, and only then for sure.
WorkerFairness ==
  /\ WF_vars(Main)
  /\ WF_vars(Wake) /\ WF_vars(StartRead) /\ WF_vars(ReadUnavailable)
  /\ WF_vars(\E opens, changes \in BOOLEAN : Execute(opens, changes))
  /\ WF_vars(SendResponse)
  /\ WF_vars(ReceiveResponse) /\ WF_vars(WriteUnavailable)
  /\ WF_vars(Button)

\* The supervisor answers what the worker publishes.
SupervisorFairness == WF_vars(GiveEndpoints) /\ WF_vars(Unconfigure)

FairSpec == Spec /\ WorkerFairness /\ SupervisorFairness

-----------------------------------------------------------------------------
(* Properties *)

\* Types of the worker's own state, and the channel's capacity; part of
\* QuiescedIsQuiet.
TypeOK ==
  /\ main \in {"startup", "awaiting", "serving", "joining", "ejected",
               "exiting", "exited"}
  /\ outcome \in {"None", "Quiesce", "Eject", "Exit", "Error"}
  /\ request \in 1 .. MaxEvents + 1
  /\ reader \in {"none", "parked", "polling", "reading", "executing",
                 "sending", "ended", "failed"}
  /\ writer \in {"none", "idle", "writing", "ended", "failed"}
  /\ queue \in 0..1
  /\ lifecycle.activation \in 0..MaxEvents
  /\ activation \in 0..MaxEvents

Quiet == {reader, writer} \subseteq {"none", "ended", "failed"}

\* The threads of a generation that the supervisor never heard of.
Stranded ==
  /\ reader = "parked" /\ writer = "idle"
  /\ SendFails /\ main \in {"exiting", "exited"}

\* Once the supervisor has been told Quiesced, or the worker is anywhere else
\* outside a generation, no endpoint thread is running, unless the worker goes
\* with two that never served anything, and an ejected device has nothing left
\* to store (run_worker joins both threads and then flushes).
QuiescedIsQuiet ==
  /\ TypeOK
  /\ main \notin {"serving", "joining"} => Quiet \/ Stranded
  /\ main \in {"ejected", "awaiting", "startup"} => ~dirty

\* Whatever crosses on the channel, the worker meets no record that it would
\* reject as unexpected: endpoints only while it awaits them, nothing but a
\* closed channel while ejected, and only quiesce requests it knows.
RecordsAreExpected ==
  inbox # << >> =>
    LET record == Head(inbox) IN
    /\ main = "awaiting" =>
         \/ record.kind = "Closed"
         \/ record = [kind |-> "UsbEndpoints", request |-> request]
    /\ main = "ejected" => record.kind = "Closed"
    /\ main = "serving" =>
         /\ record.kind # "UsbEndpoints"
         /\ record.kind = "Quiesce" => Expected(record)

\* A quiesce request is answered, or the worker goes: the endpoint threads
\* find their way out from wherever they are, also from a full channel, a
\* cancelled transfer or a wait for an activation that will not come.
QuiesceIsAnswered ==
  supervisor = "quiescing" ~> supervisor # "quiescing" \/ main = "exited"

\* The worker is on its way out without having been asked to quiesce: it no
\* longer follows the button, and a transfer that waits on an enabled endpoint
\* may keep it until the bus is disabled.
Stopping == main = "joining" /\ outcome \in {"Error", "Exit"}

\* The presence of the device on the bus converges to the last position of
\* the button, however presses and releases cross with ejecting, quiescing
\* and inserting (buttons.rs keeps a level, not a queue of edges).
PresenceConverges ==
  <>[]( \/ published.personality = ~level
        \/ Stopping \/ main = "exited" \/ supervisor = "gone" )

\* After a disable event has been handled there is no secure session, until
\* the bus is enabled again.
DisableEndsSessions == cleared /\ ~enabled => ~session

=============================================================================

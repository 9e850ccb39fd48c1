------------------------------ MODULE I2cTarget ------------------------------
(***************************************************************************)
(* The I2C frontend (crates/virtual-yubihsm-i2c): one thread that reads a  *)
(* request from the target driver, executes it or recovers the transport,  *)
(* and queues the response, until it is told to stop.                      *)
(*                                                                         *)
(* The driver and the controller are external and do what docs/i2c.md says *)
(* of them.  The driver keeps one pending request, replaced by a newer one,*)
(* publishes a response only if it answers the latest request received, and*)
(* drops what is staged for the controller only when asked to recover.     *)
(* The controller recovers on opening and after every uncertain exchange,  *)
(* and never sends a command twice.                                        *)
(***************************************************************************)
EXTENDS Naturals, Sequences

CONSTANTS
  MaxFrameLength,  \* MAX_FRAME_LENGTH
  ControlLength,   \* PREFIX and a token
  MaxRequests      \* bound: requests the controller sends

ASSUME TargetAssumption ==
  /\ ControlLength \in Nat /\ MaxFrameLength \in Nat
  /\ 0 < ControlLength /\ ControlLength < MaxFrameLength
  /\ MaxRequests \in Nat

VARIABLES
  \* frontend
  pc,         \* where run and serve are
  stop,       \* STOP_REQUESTED
  current,    \* the request that was read
  response,   \* the response to queue: [id, length]
  result,     \* how serve ended
  \* device
  executed,   \* ids of the frames the device has executed, in order
  dirty,      \* durable state is not flushed
  healthy,    \* the persistence writer has not failed
  \* driver
  target,     \* what GET_INFO reports
  pending,    \* the request that waits, or Nothing
  received,   \* receive generation
  taken,      \* receive generation of the last read
  staged,     \* responses for the controller
  \* controller
  controller, \* where its exchange is
  asked,      \* the request it waits for
  answers     \* history: <<request, id of the response>> of its commands

frontendVars == <<pc, stop, current, response, result>>
deviceVars == <<executed, dirty, healthy>>
driverVars == <<target, pending, received, taken, staged>>
controllerVars == <<controller, asked, answers>>
vars == <<frontendVars, deviceVars, driverVars, controllerVars>>

\* A request starts with the control prefix or does not, and has a length.
Nothing == [id |-> 0, prefix |-> FALSE, length |-> 0]
NoResponse == [id |-> 0, length |-> 0]
Lengths == {1, ControlLength, MaxFrameLength}
Requests == [id : 1..MaxRequests, prefix : BOOLEAN, length : Lengths]

\* The fields of bsc_target_info the frontend looks at.
Targets ==
  [ abi : {2, 3}, transfer : {MaxFrameLength - 1, MaxFrameLength},
    ready : BOOLEAN, recovery : BOOLEAN ]

Init ==
  /\ pc = "starting" /\ stop = FALSE /\ result = "Ok"
  /\ current = Nothing /\ response = NoResponse
  /\ executed = << >> /\ dirty = FALSE /\ healthy = TRUE
  /\ target \in Targets
  /\ pending = Nothing /\ received = 0 /\ taken = 0 /\ staged = << >>
  /\ controller = "closed" /\ asked = Nothing /\ answers = {}

-----------------------------------------------------------------------------
(* Frontend *)

\* validate_target_info
ValidTarget ==
  /\ target.abi = 3 /\ target.ready /\ target.recovery
  /\ target.transfer >= MaxFrameLength

\* run up to serve: the target, the state directory and the device open, or
\* the process ends with nothing to shut down.
Start ==
  /\ pc = "starting"
  /\ \/ ValidTarget /\ pc' = "looping" /\ UNCHANGED result
     \/ pc' = "exited" /\ result' = "Error"
  /\ UNCHANGED <<stop, current, response, deviceVars, driverVars,
                 controllerVars>>

Fail == pc' = "leaving" /\ result' = "Error"

\* Mutant: a wait for input that has no timeout.
SeesStopWithInput == stop /\ pending # Nothing

\* The flag is read once in every round; a round that finds no input waits
\* 250 ms at most.
SeesStop == stop

Leave ==
  /\ pc = "looping" /\ SeesStop
  /\ pc' = "leaving"
  /\ UNCHANGED <<stop, current, response, result, deviceVars, driverVars,
                 controllerVars>>

\* An empty read, WouldBlock and Interrupted go round the loop.
Read ==
  /\ pc = "looping" /\ ~stop
  /\ pending # Nothing
  /\ current' = pending /\ pending' = Nothing /\ taken' = received
  /\ pc' = "dispatching"
  /\ UNCHANGED <<stop, response, result, deviceVars, target, received, staged,
                 controllerVars>>

\* Another error of read, or of the poll that waits for input.
ReadFails ==
  /\ pc = "looping" /\ ~stop
  /\ Fail
  /\ UNCHANGED <<stop, current, response, deviceVars, driverVars,
                 controllerVars>>

\* Mutant: a longer frame with the prefix is taken for a control request.
StartsWithPrefix(request) == request.prefix

\* recovery::response: the exact control request and no other.
IsRecovery(request) == request.prefix /\ request.length = ControlLength

\* BSC_TARGET_IOC_RECOVER (driver)
ClearsStaged == staged' = << >>

\* Mutant: the confirmation is not queued.
Unconfirmed == "looping"

Confirming == "queueing"

\* A newer request supersedes the recovery: back to the loop.
Recover ==
  /\ pc = "dispatching" /\ IsRecovery(current)
  /\ \/ /\ pending # Nothing
        /\ pc' = "looping"
        /\ UNCHANGED <<response, result, staged>>
     \/ /\ pending = Nothing
        /\ ClearsStaged
        /\ response' = [id |-> current.id, length |-> current.length]
        /\ pc' = Confirming
        /\ UNCHANGED result
     \/ Fail /\ UNCHANGED <<response, staged>>
  /\ UNCHANGED <<stop, current, deviceVars, target, pending, received, taken,
                 controllerVars>>

\* hsm.execute: a response of any length, or an error of the runtime.
Execute(length, changes) ==
  /\ pc = "dispatching" /\ ~IsRecovery(current)
  /\ IF healthy
       THEN /\ executed' = Append(executed, current.id)
            /\ dirty' = (dirty \/ changes)
            /\ response' = [id |-> current.id, length |-> length]
            /\ pc' = "queueing"
            /\ UNCHANGED result
       ELSE Fail /\ UNCHANGED <<executed, dirty, response>>
  /\ UNCHANGED <<stop, current, healthy, driverVars, controllerVars>>

\* The driver takes the bytes of a superseded response and drops them.
Publishes == taken = received

Fits == response.length <= target.transfer

\* Mutant: after its confirmation a recovery request is executed as well.
FallsThrough ==
  IF IsRecovery(current)
    THEN pc' = "dispatching" /\ current' = [current EXCEPT !.prefix = FALSE]
    ELSE pc' = "looping" /\ UNCHANGED current

Continues == pc' = "looping" /\ UNCHANGED current

\* queue_response; Interrupted is tried again.
QueueResponse ==
  /\ pc = "queueing"
  /\ Fits
  /\ staged' = IF Publishes THEN Append(staged, response.id) ELSE staged
  /\ Continues
  /\ UNCHANGED <<stop, response, result, deviceVars, target, pending,
                 received, taken, controllerVars>>

\* A short write, or an error of the driver.
QueueFails ==
  /\ pc = "queueing"
  /\ Fail
  /\ UNCHANGED <<stop, current, response, deviceVars, driverVars,
                 controllerVars>>

\* serve's result waits until the runtime is shut down.
Exit ==
  /\ pc = "leaving"
  /\ pc' = "exited"
  /\ dirty' = (dirty /\ ~healthy)
  /\ result' = IF healthy THEN result ELSE "Error"
  /\ UNCHANGED <<stop, current, response, executed, healthy, driverVars,
                 controllerVars>>

\* SIGINT or SIGTERM; the handlers are there before the device is opened.
Signal ==
  /\ ~stop /\ pc # "exited"
  /\ stop' = TRUE
  /\ UNCHANGED <<pc, current, response, result, deviceVars, driverVars,
                 controllerVars>>

\* The persistence writer fails for good and runs its callback, or stores a
\* snapshot in the background.
Persist ==
  /\ dirty /\ healthy /\ pc # "exited"
  /\ \/ healthy' = FALSE /\ stop' = TRUE /\ UNCHANGED dirty
     \/ dirty' = FALSE /\ UNCHANGED <<healthy, stop>>
  /\ UNCHANGED <<pc, current, response, result, executed, driverVars,
                 controllerVars>>

-----------------------------------------------------------------------------
(* Controller and bus: external *)

\* A write that reaches the driver replaces what is pending; one that does
\* not leaves an uncertain exchange.
Send(request, state) ==
  /\ asked' = request
  /\ \/ /\ controller' = state
        /\ pending' = request /\ received' = received + 1
     \/ /\ controller' = "closed"
        /\ UNCHANGED <<pending, received>>
  /\ UNCHANGED <<frontendVars, deviceVars, target, taken, staged, answers>>

Token == asked.id + 1

SendRecovery ==
  /\ controller = "closed"
  /\ Token <= MaxRequests
  /\ Send([id |-> Token, prefix |-> TRUE, length |-> ControlLength],
          "recovering")

SendCommand(prefix, length) ==
  /\ controller = "open"
  /\ Token <= MaxRequests
  /\ LET request == [id |-> Token, prefix |-> prefix, length |-> length] IN
     ~(prefix /\ length = ControlLength) /\ Send(request, "waiting")

\* The controller reads what is staged.  It checks the token of a recovery;
\* the transport does not check what a command gets.
ReadResponse ==
  /\ staged # << >>
  /\ staged' = Tail(staged)
  /\ \/ /\ controller = "recovering"
        /\ controller' = IF Head(staged) = asked.id THEN "open" ELSE "closed"
        /\ UNCHANGED answers
     \/ /\ controller = "waiting"
        /\ controller' = "open"
        /\ answers' = answers \cup {<<asked.id, Head(staged)>>}
  /\ UNCHANGED <<frontendVars, deviceVars, target, pending, received, taken,
                 asked>>

\* The controller gives up, before the response or in the middle of it; what
\* it did not read stays staged.
GiveUp ==
  /\ controller \in {"recovering", "waiting"}
  /\ controller' = "closed"
  /\ UNCHANGED <<frontendVars, deviceVars, driverVars, asked, answers>>

-----------------------------------------------------------------------------

Frontend ==
  \/ Start \/ Leave \/ Read \/ Recover
  \/ \E length \in Lengths, changes \in BOOLEAN : Execute(length, changes)
  \/ QueueResponse
  \/ Exit

Failures == ReadFails \/ QueueFails

Controller ==
  \/ SendRecovery
  \/ \E prefix \in BOOLEAN, length \in Lengths : SendCommand(prefix, length)
  \/ ReadResponse \/ GiveUp

Next == Frontend \/ Failures \/ Signal \/ Persist \/ Controller

Spec == Init /\ [][Next]_vars

\* The thread is scheduled and no system call of it blocks for ever; the
\* controller reads what is staged for it.
FairSpec == Spec /\ WF_vars(Frontend) /\ WF_vars(ReadResponse)

-----------------------------------------------------------------------------
(* Properties *)

\* Types of the frontend's and the driver's state, with at most one response
\* staged; part of ExecutedAsSent.
TypeOK ==
  /\ pc \in {"starting", "looping", "dispatching", "queueing", "leaving",
             "exited"}
  /\ stop \in BOOLEAN /\ dirty \in BOOLEAN /\ healthy \in BOOLEAN
  /\ result \in {"Ok", "Error"}
  /\ current \in Requests \cup {Nothing}
  /\ pending \in Requests \cup {Nothing}
  /\ response \in [id : 0..MaxRequests, length : Lengths \cup {0}]
  /\ Len(executed) <= MaxRequests
  /\ received \in 0..MaxRequests /\ taken \in 0..received
  /\ Len(staged) <= 1

\* docs/i2c.md: "A worker response is published only if it belongs to the
\* latest receive generation."  Whatever was given up, lost, superseded or
\* left staged before, a command the controller sends after a recovery gets
\* its own response (linux.rs serve, queue_response).
AnswersMatch == \A answer \in answers : answer[1] = answer[2]

\* A command is executed at most once and in the order it was sent, a recovery
\* request never is ("never executes an HSM command"), and a command that was
\* answered has been executed, even if it looks like a recovery (linux.rs
\* serve, recovery.rs response).  No response of an executed command is too
\* long for the target (validate_target_info).
ExecutedAsSent ==
  /\ TypeOK
  /\ pc = "queueing" => Fits
  /\ \A i, j \in DOMAIN executed : i < j => executed[i] < executed[j]
  /\ pc = "queueing" =>
       (response.id \in {executed[i] : i \in DOMAIN executed})
         = ~(current.prefix /\ current.length = ControlLength)
  /\ \A answer \in answers : \E i \in DOMAIN executed : executed[i] = answer[1]

\* A signal, a failed writer or an error of serve ends the process, also with
\* a silent controller, and it leaves nothing unsaved behind unless the writer
\* has failed, and then it does not end well (linux.rs run, serve,
\* wait_for_descriptor).
StopEnds ==
  stop \/ result = "Error"
    ~> pc = "exited" /\ (dirty => ~healthy /\ result = "Error")

\* A recovery that the controller waits for is confirmed, or found superseded
\* by what is left staged, unless the process ends (linux.rs serve).
RecoveryEnds ==
  controller = "recovering" ~> controller # "recovering" \/ pc = "exited"

=============================================================================

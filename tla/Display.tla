------------------------------- MODULE Display -------------------------------
(***************************************************************************)
(* The status display of the USB worker (src/display.rs): the display      *)
(* thread that follows commands of the worker's main thread and of the     *)
(* endpoint thread, and the panel it shares with the indicator's thread.   *)
(*                                                                         *)
(* The indicator of display-backends is external: enabled, it inverts the  *)
(* LED from a thread of its own through the same lock; disable returns when*)
(* that thread has stopped drawing; a held attention guard selects the fast*)
(* cadence.  Its operations fail once its thread is gone.  Cadences are    *)
(* left out.  The worker's main thread sends what src/functionfs.rs sends, *)
(* in that order; the bus may raise its events in any order.               *)
(***************************************************************************)
EXTENDS Naturals, Sequences

CONSTANTS
  MaxSeconds,  \* longest Blink Device duration (255 in the protocol)
  MaxEvents    \* bound: commands sent to the thread before the shutdown

ASSUME DisplayAssumption == MaxSeconds \in Nat /\ MaxEvents \in Nat

VARIABLES
  \* display_loop
  thread,              \* running, failing, ended or failed
  queue,               \* the channel
  todo,                \* operations left of the command being handled
  personality_present,
  bound,
  suspended,
  identify_until,      \* seconds left, or Never
  identify_guard,      \* the attention guard is held
  \* indicator
  enabled,
  alive,
  \* Hardware
  display,             \* Some
  error_reported,
  panel,               \* what can be seen: off, dark or lit
  \* worker
  worker,
  pending,             \* unconfiguration_pending
  bus,                 \* history: [present, bound, suspended] as sent
  events               \* commands sent so far

loopVars == <<thread, todo, personality_present, bound, suspended,
              identify_until, identify_guard>>
indicatorVars == <<enabled, alive>>
panelVars == <<display, error_reported, panel>>
workerVars == <<worker, pending, bus, events>>
vars == <<loopVars, queue, indicatorVars, panelVars, workerVars>>

Never == MaxSeconds + 1
Command(name) == [name |-> name, seconds |-> 0]

\* Controller::start
Init ==
  /\ thread = "running" /\ queue = << >> /\ todo = << >>
  /\ personality_present = FALSE /\ bound = FALSE /\ suspended = FALSE
  /\ identify_until = Never /\ identify_guard = FALSE
  /\ enabled = FALSE /\ alive = TRUE
  /\ display = FALSE /\ error_reported = FALSE /\ panel = "off"
  /\ worker = "starting" /\ pending = FALSE
  /\ bus = [present |-> FALSE, bound |-> FALSE, suspended |-> FALSE]
  /\ events = 0

-----------------------------------------------------------------------------
(* Hardware, under its lock *)

\* render: the panel is opened when it is not; an error forgets it.
Render(frame) ==
  \/ /\ display' = TRUE
     /\ error_reported' = (display /\ error_reported)
     /\ panel' = frame
  \/ /\ display' = FALSE /\ error_reported' = TRUE
     /\ UNCHANGED panel

\* turn_off: nothing without an open panel.
TurnOff ==
  \/ ~display /\ UNCHANGED panelVars
  \/ /\ display /\ display' = FALSE
     /\ \/ panel' = "off" /\ UNCHANGED error_reported
        \/ error_reported' = TRUE /\ UNCHANGED panel

\* HardwareRenderer::set_indicator, from the indicator's thread.
SetIndicator ==
  /\ enabled /\ alive
  /\ Render(IF panel = "lit" THEN "dark" ELSE "lit")
  /\ UNCHANGED <<loopVars, queue, indicatorVars, workerVars>>

\* The indicator's thread is gone.
IndicatorDies ==
  /\ alive /\ thread = "running"
  /\ alive' = FALSE
  /\ UNCHANGED <<loopVars, queue, enabled, panelVars, workerVars>>

-----------------------------------------------------------------------------
(* display_loop *)

\* Receiving a command sets the flags and ends an identification; the calls
\* to the indicator and the panel follow one by one.
Receive(name) ==
  /\ thread = "running" /\ todo = << >>
  /\ queue # << >> /\ Head(queue).name = name
  /\ queue' = Tail(queue)
  /\ UNCHANGED <<thread, indicatorVars, panelVars, workerVars>>

Flags(present, is_bound, is_suspended) ==
  /\ personality_present' = present
  /\ bound' = is_bound
  /\ suspended' = is_suspended

EndIdentify == identify_until' = Never /\ identify_guard' = FALSE

\* Mutant: the LED is put out before the indicator is stopped.
RenderThenDisable == <<"render", "disable">>

Darken == <<"disable", "render">>

PersonalityPresent ==
  /\ Receive("PersonalityPresent")
  /\ Flags(TRUE, FALSE, FALSE) /\ EndIdentify
  /\ todo' = Darken

\* The panel is turned off even when the indicator cannot be stopped.
PersonalityAbsent ==
  /\ Receive("PersonalityAbsent")
  /\ Flags(FALSE, FALSE, FALSE) /\ EndIdentify
  /\ todo' = <<"try_disable", "off">>

Bind ==
  /\ Receive("Bind")
  /\ Flags(personality_present, TRUE, FALSE) /\ EndIdentify
  /\ todo' = IF personality_present THEN <<"render", "enable">> ELSE << >>

Unbind ==
  /\ Receive("Unbind")
  /\ Flags(personality_present, FALSE, FALSE) /\ EndIdentify
  /\ todo' = IF personality_present THEN Darken ELSE <<"disable">>

Suspend ==
  /\ Receive("Suspend")
  /\ Flags(personality_present, bound, TRUE) /\ EndIdentify
  /\ todo' = IF personality_present THEN Darken ELSE <<"disable">>

Resumes == personality_present /\ bound /\ suspended

Resume ==
  /\ Receive("Resume")
  /\ IF Resumes
       THEN /\ Flags(personality_present, bound, FALSE)
            /\ todo' = <<"render", "enable">>
       ELSE UNCHANGED <<personality_present, bound, suspended, todo>>
  /\ UNCHANGED <<identify_until, identify_guard>>

\* A later request replaces what remains of an earlier one.
Deadline(seconds) == seconds

\* A duration of zero is ignored.
Identifies(seconds) ==
  personality_present /\ bound /\ ~suspended /\ seconds # 0

Identify ==
  /\ Receive("Identify")
  /\ IF Identifies(Head(queue).seconds)
       THEN /\ identify_until' = Deadline(Head(queue).seconds)
            /\ identify_guard' = FALSE
            /\ todo' = <<"attention">>
       ELSE UNCHANGED <<identify_until, identify_guard, todo>>
  /\ UNCHANGED <<personality_present, bound, suspended>>

\* Mutant: the guard is kept when the time is up.
DropsOnCommand == identify_until' = Never /\ UNCHANGED identify_guard

DropsOnTimeout == EndIdentify

\* recv_timeout: a command that waits goes before the deadline.
Timeout ==
  /\ thread = "running" /\ todo = << >>
  /\ queue = << >> /\ identify_until = 0
  /\ DropsOnTimeout
  /\ UNCHANGED <<thread, todo, personality_present, bound, suspended, queue,
                 indicatorVars, panelVars, workerVars>>

\* Time passes while an identification runs.
Elapse ==
  /\ thread = "running" /\ todo = << >> /\ identify_until \in 1..MaxSeconds
  /\ identify_until' = identify_until - 1
  /\ UNCHANGED <<thread, queue, todo, personality_present, bound, suspended,
                 identify_guard, indicatorVars, panelVars, workerVars>>

\* Mutant: the panel is turned off under the indicator's hands.
OffThenShutdown == <<"off", "shutdown", "end">>

ShutdownThenOff == <<"shutdown", "off", "end">>

Shutdown ==
  /\ Receive("Shutdown")
  /\ identify_guard' = FALSE
  /\ todo' = ShutdownThenOff
  /\ UNCHANGED <<personality_present, bound, suspended, identify_until>>

-----------------------------------------------------------------------------
(* One call of a handler *)

Does(operation) ==
  /\ thread \in {"running", "failing"}
  /\ todo # << >> /\ Head(todo) = operation
  /\ UNCHANGED <<queue, personality_present, bound, suspended,
                 identify_until, workerVars>>

Proceed == todo' = Tail(todo) /\ UNCHANGED thread

\* `?` ends the loop; dropping the indicator stops it.
Abort ==
  /\ thread' = "failed" /\ todo' = << >> /\ identify_guard' = FALSE
  /\ enabled' = FALSE

Switch(operation, on) ==
  /\ Does(operation)
  /\ IF alive
       THEN enabled' = on /\ Proceed /\ UNCHANGED identify_guard
       ELSE Abort
  /\ UNCHANGED <<alive, panelVars>>

\* An error is kept until the panel is off.
StopIndicator ==
  /\ \E operation \in {"try_disable", "shutdown"} : Does(operation)
  /\ enabled' = FALSE
  /\ todo' = Tail(todo)
  /\ thread' = IF alive THEN thread ELSE "failing"
  /\ UNCHANGED <<alive, identify_guard, panelVars>>

TakeAttention ==
  /\ Does("attention")
  /\ IF alive
       THEN identify_guard' = TRUE /\ Proceed /\ UNCHANGED enabled
       ELSE Abort
  /\ UNCHANGED <<alive, panelVars>>

RenderDark ==
  /\ Does("render")
  /\ Render("dark")
  /\ Proceed
  /\ UNCHANGED <<identify_guard, indicatorVars>>

PowerOff ==
  /\ Does("off")
  /\ TurnOff
  /\ IF thread = "failing"
       THEN thread' = "failed" /\ todo' = << >>
       ELSE Proceed
  /\ UNCHANGED <<identify_guard, indicatorVars>>

End ==
  /\ Does("end")
  /\ thread' = IF thread = "running" THEN "ended" ELSE thread
  /\ todo' = << >>
  /\ UNCHANGED <<identify_guard, indicatorVars, panelVars>>

-----------------------------------------------------------------------------
(* What the worker sends (src/functionfs.rs) *)

Gone == thread \in {"ended", "failed"}

Say(command) == queue' = Append(queue, command)

\* send_command: the worker ends with an error when the thread is gone.
Sends(from, name, next, flag, told) ==
  /\ worker \in from
  /\ IF Gone
       THEN /\ worker' = IF worker = "serving" THEN "unloading" ELSE "exiting"
            /\ pending' = FALSE
            /\ UNCHANGED <<queue, bus>>
       ELSE /\ worker' = next /\ pending' = flag /\ bus' = told
            /\ Say(Command(name))
  /\ UNCHANGED <<loopVars, indicatorVars, panelVars>>

Counted == events < MaxEvents /\ events' = events + 1

\* publish_personality
Insert ==
  /\ Sends({"starting", "ejected"}, "PersonalityPresent", "serving", FALSE,
           [present |-> TRUE, bound |-> FALSE, suspended |-> FALSE])
  /\ Counted

StartEjected ==
  /\ Sends({"starting"}, "PersonalityAbsent", "ejected", FALSE, bus)
  /\ Counted

Eject ==
  /\ ~pending
  /\ Sends({"serving"}, "PersonalityAbsent", "serving", TRUE,
           [bus EXCEPT !.present = FALSE])
  /\ Counted

\* serve_control, also after an eject until the supervisor quiesces.
BusEvent(event) ==
  /\ Sends({"serving"}, event, "serving", pending,
       CASE event = "Bind"    -> [bus EXCEPT !.bound = TRUE, !.suspended = FALSE]
         [] event = "Unbind"  -> [bus EXCEPT !.bound = FALSE]
         [] event = "Suspend" -> [bus EXCEPT !.suspended = TRUE]
         [] event = "Resume"  -> [bus EXCEPT !.suspended = FALSE])
  /\ Counted

Quiesce ==
  /\ Sends({"serving"}, "Unbind", "unloading", pending,
           [bus EXCEPT !.bound = FALSE])
  /\ Counted

\* The endpoint thread, after a successful Blink Device, until it is joined;
\* errors are ignored.
Blink(seconds) ==
  /\ worker \in {"serving", "unloading"} /\ ~Gone
  /\ Say([name |-> "Identify", seconds |-> seconds])
  /\ Counted
  /\ UNCHANGED <<loopVars, indicatorVars, panelVars, worker, pending, bus>>

\* A signal, an error or a closed channel ends the worker; so does a button
\* that cannot be opened, before the display was told anything.
Stop ==
  /\ worker \in {"starting", "serving", "ejected"}
  /\ worker' = IF worker = "serving" THEN "unloading" ELSE "exiting"
  /\ pending' = FALSE
  /\ UNCHANGED <<loopVars, queue, indicatorVars, panelVars, bus, events>>

\* The endpoint threads are joined.
Unload ==
  /\ worker = "unloading"
  /\ worker' = IF pending THEN "ejected" ELSE "exiting"
  /\ pending' = FALSE
  /\ UNCHANGED <<loopVars, queue, indicatorVars, panelVars, bus, events>>

SaysShutdown == IF Gone THEN UNCHANGED queue ELSE Say(Command("Shutdown"))

\* Controller::shutdown
SendShutdown ==
  /\ worker = "exiting"
  /\ worker' = "joining"
  /\ SaysShutdown
  /\ UNCHANGED <<loopVars, indicatorVars, panelVars, pending, bus, events>>

Join ==
  /\ worker = "joining" /\ Gone
  /\ worker' = "exited"
  /\ UNCHANGED <<loopVars, queue, indicatorVars, panelVars, pending, bus,
                 events>>

-----------------------------------------------------------------------------

DisplayLoop ==
  \/ PersonalityPresent \/ PersonalityAbsent
  \/ Bind \/ Unbind \/ Suspend \/ Resume \/ Identify \/ Shutdown
  \/ Timeout
  \/ Switch("disable", FALSE) \/ Switch("enable", TRUE)
  \/ StopIndicator \/ TakeAttention
  \/ RenderDark \/ PowerOff \/ End

BusEvents == {"Bind", "Unbind", "Suspend", "Resume"}

Worker ==
  \/ Insert \/ StartEjected \/ Eject
  \/ \E event \in BusEvents : BusEvent(event)
  \/ Quiesce
  \/ \E seconds \in 0..MaxSeconds : Blink(seconds)
  \/ Stop \/ Unload \/ SendShutdown \/ Join

Next == DisplayLoop \/ Elapse \/ SetIndicator \/ IndicatorDies \/ Worker

Spec == Init /\ [][Next]_vars

\* The display thread is scheduled, time passes, and a worker that ends goes
\* through with it.
FairSpec ==
  /\ Spec
  /\ WF_vars(DisplayLoop) /\ WF_vars(Elapse)
  /\ WF_vars(Unload) /\ WF_vars(SendShutdown) /\ WF_vars(Join)

-----------------------------------------------------------------------------
(* Properties *)

\* Types of the display thread's state; part of DisplayFollowsBus.
TypeOK ==
  /\ thread \in {"running", "failing", "ended", "failed"}
  /\ identify_until \in 0..Never
  /\ {personality_present, bound, suspended, identify_guard, enabled, alive,
      display, error_reported} \subseteq BOOLEAN
  /\ panel \in {"off", "dark", "lit"}
  /\ worker \in {"starting", "serving", "unloading", "ejected", "exiting",
                 "joining", "exited"}

\* The thread waits for a command and has handled all there were.
Settled == thread = "running" /\ queue = << >> /\ todo = << >>

\* README.md, "Display and blink lifecycle": without a personality the display
\* is off; present but suspended or unbound, the image is visible, the
\* scheduler stopped and the LED off; bound and awake it blinks, fast exactly
\* while a Blink Device deadline runs.  Once the commands are handled this
\* holds of the last state the worker told, in whatever order the bus raised
\* its events and the indicator drew, so nothing blinks fast when the bus comes
\* back; the panel may lag only behind an error that was reported (display.rs
\* display_loop).
DisplayFollowsBus ==
  /\ TypeOK
  /\ Settled =>
       LET active == bus.present /\ bus.bound /\ ~bus.suspended IN
       /\ enabled = active
       /\ identify_guard = (identify_until # Never)
       /\ identify_guard => active
       /\ \/ error_reported
          \/ CASE ~bus.present -> panel = "off"
               [] active       -> panel \in {"dark", "lit"}
               [] OTHER        -> panel = "dark"

\* A Blink Device duration ends, whether it runs out, is replaced or is cut
\* short by the bus (README.md: "durations are neither stacked nor added").
BlinkEnds == identify_guard ~> ~identify_guard

\* A worker that ends is not kept by the display, and leaves it off unless that
\* failed and was reported, with nobody left to draw on it: every command before
\* the shutdown is handled, or the thread has failed (display.rs shutdown).
WorkerEnds ==
  worker = "exiting" ~>
    /\ worker = "exited"
    /\ thread = "failed" \/ panel = "off" \/ error_reported
    /\ ~enabled

=============================================================================

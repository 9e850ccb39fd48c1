---------------------------- MODULE DisplayProofs ----------------------------
(***************************************************************************)
(* The display follows the bus, for any number of commands and any         *)
(* durations.                                                              *)
(*                                                                         *)
(* The inductive invariant has three parts.  Handling the commands that    *)
(* are queued, one by one, would take the thread's flags to what the       *)
(* worker told last (Follows): stated by the states in between, so that a  *)
(* command sent adds one at the end and a command received takes one off   *)
(* the front.  The operations left of a handler are the rest of one of its *)
(* few lists, and say how far indicator and panel are from what the flags  *)
(* ask for (Underway).  And a closed panel is off, or an error told of it. *)
(***************************************************************************)
EXTENDS Display, TLAPS

-----------------------------------------------------------------------------
(* The inductive invariant *)

Names == {"PersonalityPresent", "PersonalityAbsent", "Bind", "Unbind", "Suspend",
          "Resume", "Identify", "Shutdown"}
Commands == [name : Names, seconds : 0..MaxSeconds]
States == [present : BOOLEAN, bound : BOOLEAN, suspended : BOOLEAN]

State(is_present, is_bound, is_suspended) ==
  [present |-> is_present, bound |-> is_bound, suspended |-> is_suspended]

\* The flags of the display thread.
Flagged == State(personality_present, bound, suspended)

IsActive == personality_present /\ bound /\ ~suspended

\* What handling a command makes of the flags.
After(s, name) ==
  CASE name = "PersonalityPresent" -> State(TRUE, FALSE, FALSE)
    [] name = "PersonalityAbsent" -> State(FALSE, FALSE, FALSE)
    [] name = "Bind" -> State(s.present, TRUE, FALSE)
    [] name = "Unbind" -> State(s.present, FALSE, FALSE)
    [] name = "Suspend" -> State(s.present, s.bound, TRUE)
    [] name = "Resume" -> IF s.present /\ s.bound /\ s.suspended
                            THEN State(s.present, s.bound, FALSE) ELSE s
    [] OTHER -> s

\* The flags keep less than the bus: of an absent personality nothing else
\* matters, and of an unbound one not whether it is suspended.
Agrees(s, told) ==
  /\ s.present = told.present
  /\ s.present => s.bound = told.bound
  /\ s.present /\ s.bound => s.suspended = told.suspended

Leads(states) ==
  /\ states \in [0..Len(queue) -> States]
  /\ states[0] = Flagged
  /\ \A i \in 1..Len(queue) : states[i] = After(states[i - 1], queue[i].name)
  /\ Agrees(states[Len(queue)], bus)

Follows == \E states \in [0..Len(queue) -> States] : Leads(states)

Workers == {"starting", "serving", "unloading", "ejected", "exiting", "joining", "exited"}

LoopTypes ==
  /\ thread \in {"running", "failing", "ended", "failed"}
  /\ identify_until \in 0..Never /\ identify_guard \in BOOLEAN
  /\ enabled \in BOOLEAN /\ alive \in BOOLEAN

FlagTypes == personality_present \in BOOLEAN /\ bound \in BOOLEAN /\ suspended \in BOOLEAN

PanelTypes ==
  display \in BOOLEAN /\ error_reported \in BOOLEAN /\ panel \in {"off", "dark", "lit"}

WorkerTypes ==
  /\ worker \in Workers /\ queue \in Seq(Commands) /\ bus \in States
  /\ worker = "starting" => bus.present = FALSE

PanelTold == display \/ panel = "off" \/ error_reported

Lit == error_reported \/ panel \in {"dark", "lit"}
Dark == error_reported \/ panel = "dark"
Off == error_reported \/ panel = "off"

\* The panel shows what the flags ask for.
Shown ==
  /\ ~personality_present => Off
  /\ IsActive => Lit
  /\ personality_present /\ ~IsActive => Dark

NoIdentify == identify_until = Never /\ ~identify_guard

Rest ==
  /\ todo = << >>
  /\ enabled <=> IsActive
  /\ identify_guard <=> identify_until # Never
  /\ identify_guard => IsActive
  /\ Shown

\* How far a running handler is.
Underway ==
  \/ Rest
  \/ todo = <<"disable", "render">> /\ NoIdentify /\ personality_present /\ ~IsActive
  \/ /\ todo = <<"render">> /\ NoIdentify /\ personality_present /\ ~IsActive
     /\ ~enabled
  \/ todo = <<"try_disable", "off">> /\ NoIdentify /\ ~personality_present
  \/ todo = <<"off">> /\ NoIdentify /\ ~personality_present /\ ~enabled
  \/ todo = <<"render", "enable">> /\ NoIdentify /\ IsActive
  \/ todo = <<"enable">> /\ NoIdentify /\ IsActive /\ Lit
  \/ todo = <<"disable">> /\ NoIdentify /\ ~personality_present /\ ~enabled /\ Off
  \/ /\ todo = <<"attention">> /\ identify_until # Never /\ ~identify_guard
     /\ IsActive /\ enabled /\ Lit
  \/ todo \in {<<"shutdown", "off", "end">>, <<"off", "end">>, <<"end">>}

Inv ==
  /\ LoopTypes /\ FlagTypes /\ PanelTypes /\ WorkerTypes
  /\ PanelTold
  /\ thread = "running" => Follows /\ Underway

-----------------------------------------------------------------------------
(* What the queue leads to *)

LEMMA AfterStates ==
  ASSUME NEW s \in States, NEW name
  PROVE  After(s, name) \in States
BY DEF After, State, States

\* A command sent adds a state at the end.
LEMMA FollowsSend ==
  ASSUME queue \in Seq(Commands), Follows, NEW c, queue' = Append(queue, c),
         Flagged' = Flagged,
         \A s \in States : Agrees(s, bus) => Agrees(After(s, c.name), bus')
  PROVE  Follows'
<1> DEFINE n == Len(queue)
<1>1. PICK states \in [0..n -> States] : Leads(states)
  BY DEF Follows
<1>2. n \in Nat /\ Len(queue') = n + 1
  OBVIOUS
<1>3. PICK last : last = After(states[n], c.name)
  OBVIOUS
<1>4. last \in States
  BY <1>2, <1>3, AfterStates
<1>5. PICK longer : longer = [i \in 0..(n + 1) |-> IF i = n + 1 THEN last ELSE states[i]]
  OBVIOUS
<1>6. longer \in [0..Len(queue') -> States]
  BY <1>2, <1>4, <1>5
<1>7. longer[0] = Flagged'
  BY <1>1, <1>2, <1>5 DEF Leads
<1>8. ASSUME NEW i \in 1..Len(queue')
      PROVE  longer[i] = After(longer[i - 1], queue'[i].name)
  <2>1. CASE i = n + 1
    BY <1>2, <1>3, <1>5, <2>1
  <2>2. CASE i \in 1..n
    <3>1. longer[i] = states[i] /\ longer[i - 1] = states[i - 1] /\ queue'[i] = queue[i]
      BY <1>2, <1>5, <2>2
    <3> QED  BY <1>1, <2>2, <3>1 DEF Leads
  <2> QED  BY <1>2, <2>1, <2>2
<1>9. Agrees(longer[Len(queue')], bus')
  <2>1. longer[Len(queue')] = last
    BY <1>2, <1>5
  <2>2. Agrees(states[n], bus) /\ states[n] \in States
    BY <1>1, <1>2 DEF Leads
  <2>3. Agrees(last, bus')
    BY <1>3, <2>2
  <2> QED  BY <2>1, <2>3
<1>10. Leads(longer)'
  BY <1>6, <1>7, <1>8, <1>9 DEF Leads, Agrees
<1> QED  BY <1>6, <1>10 DEF Follows

\* A command received takes one off the front.
LEMMA FollowsReceive ==
  ASSUME queue \in Seq(Commands), Follows, queue # << >>, queue' = Tail(queue),
         Flagged' = After(Flagged, Head(queue).name), bus' = bus
  PROVE  Follows'
<1> DEFINE n == Len(queue)
<1>1. PICK states \in [0..n -> States] : Leads(states)
  BY DEF Follows
<1>2. n \in Nat /\ n > 0 /\ Len(queue') = n - 1 /\ \A i \in 1..(n - 1) : queue'[i] = queue[i + 1]
  OBVIOUS
<1>3. PICK shorter : shorter = [i \in 0..(n - 1) |-> states[i + 1]]
  OBVIOUS
<1>4. shorter \in [0..Len(queue') -> States]
  BY <1>2, <1>3
<1>5. shorter[0] = Flagged'
  <2>1. states[1] = After(states[0], queue[1].name) /\ states[0] = Flagged
    BY <1>1, <1>2 DEF Leads
  <2>2. queue[1] = Head(queue)
    BY <1>2
  <2> QED  BY <1>2, <1>3, <2>1, <2>2
<1>6. ASSUME NEW i \in 1..Len(queue')
      PROVE  shorter[i] = After(shorter[i - 1], queue'[i].name)
  <2>1. /\ shorter[i] = states[i + 1] /\ shorter[i - 1] = states[i]
        /\ queue'[i] = queue[i + 1] /\ i + 1 \in 1..n /\ (i + 1) - 1 = i
    BY <1>2, <1>3
  <2>2. states[i + 1] = After(states[(i + 1) - 1], queue[i + 1].name)
    BY <1>1, <2>1 DEF Leads
  <2> QED  BY <2>1, <2>2
<1>7. Agrees(shorter[Len(queue')], bus')
  <2>1. shorter[Len(queue')] = states[n]
    BY <1>2, <1>3
  <2> QED  BY <1>1, <2>1 DEF Leads
<1>8. Leads(shorter)'
  BY <1>4, <1>5, <1>6, <1>7 DEF Leads, Agrees
<1> QED  BY <1>4, <1>8 DEF Follows

LEMMA FollowsStays ==
  ASSUME Follows, UNCHANGED <<queue, personality_present, bound, suspended, bus>>
  PROVE  Follows'
BY DEF Follows, Leads, Flagged, Agrees

-----------------------------------------------------------------------------
(* The worker *)

\* What the worker knows of the bus after it sent a command.
Told(b, name) ==
  CASE name = "PersonalityPresent" -> [present |-> TRUE, bound |-> FALSE, suspended |-> FALSE]
    [] name = "PersonalityAbsent" -> [b EXCEPT !.present = FALSE]
    [] name = "Bind" -> [b EXCEPT !.bound = TRUE, !.suspended = FALSE]
    [] name = "Unbind" -> [b EXCEPT !.bound = FALSE]
    [] name = "Suspend" -> [b EXCEPT !.suspended = TRUE]
    [] name = "Resume" -> [b EXCEPT !.suspended = FALSE]
    [] OTHER -> b

\* Each command tells the thread what the worker knows of the bus.
LEMMA ToldAgrees ==
  ASSUME NEW b \in States, NEW name \in Names
  PROVE  /\ Told(b, name) \in States
         /\ \A s \in States : Agrees(s, b) => Agrees(After(s, name), Told(b, name))
<1>1. CASE name = "PersonalityPresent"
  <2>1. Told(b, name) = State(TRUE, FALSE, FALSE)
    BY <1>1 DEF Told, State
  <2>2. Told(b, name) \in States
    BY <2>1 DEF State, States
  <2>3. \A s \in States : After(s, name) = State(TRUE, FALSE, FALSE)
    BY <1>1 DEF After
  <2> QED  BY <2>1, <2>2, <2>3 DEF Agrees
<1>2. CASE name = "PersonalityAbsent"
  <2>1. PICK told : told = [b EXCEPT !.present = FALSE]
    OBVIOUS
  <2>2. told \in States /\ told.present = FALSE
    BY <2>1 DEF States
  <2>3. Told(b, name) = told
    BY <1>2, <2>1 DEF Told
  <2>4. \A s \in States : After(s, name).present = FALSE
    BY <1>2 DEF After, State
  <2> QED  BY <2>2, <2>3, <2>4 DEF Agrees
<1>3. CASE name = "Bind"
  <2>1. PICK x : x = [b EXCEPT !.bound = TRUE]
    OBVIOUS
  <2>2. x \in States /\ x.present = b.present /\ x.bound = TRUE
    BY <2>1 DEF States
  <2>3. PICK told : told = [x EXCEPT !.suspended = FALSE]
    OBVIOUS
  <2>4. told \in States /\ told.present = b.present /\ told.bound = TRUE /\ told.suspended = FALSE
    BY <2>2, <2>3 DEF States
  <2>5. Told(b, name) = told
    <3>1. Told(b, name) = [b EXCEPT !.bound = TRUE, !.suspended = FALSE]
      BY <1>3, Zenon DEF Told
    <3> QED  BY <2>1, <2>3, <3>1, Zenon
  <2>6. \A s \in States : /\ After(s, name).present = s.present
                          /\ After(s, name).bound = TRUE
                          /\ After(s, name).suspended = FALSE
    BY <1>3 DEF After, State
  <2> QED  BY <2>4, <2>5, <2>6 DEF Agrees
<1>4. CASE name = "Unbind"
  <2>1. PICK told : told = [b EXCEPT !.bound = FALSE]
    OBVIOUS
  <2>2. told \in States /\ told.present = b.present /\ told.bound = FALSE
    BY <2>1 DEF States
  <2>3. Told(b, name) = told
    BY <1>4, <2>1 DEF Told
  <2>4. \A s \in States : /\ After(s, name).present = s.present
                          /\ After(s, name).bound = FALSE
    BY <1>4 DEF After, State
  <2> QED  BY <2>2, <2>3, <2>4 DEF Agrees
<1>5. CASE name = "Suspend"
  <2>1. PICK told : told = [b EXCEPT !.suspended = TRUE]
    OBVIOUS
  <2>2. told \in States /\ told.present = b.present /\ told.bound = b.bound /\ told.suspended = TRUE
    BY <2>1 DEF States
  <2>3. Told(b, name) = told
    BY <1>5, <2>1 DEF Told
  <2>4. \A s \in States : /\ After(s, name).present = s.present
                          /\ After(s, name).bound = s.bound
                          /\ After(s, name).suspended = TRUE
    BY <1>5 DEF After, State
  <2> QED  BY <2>2, <2>3, <2>4 DEF Agrees
<1>6. CASE name = "Resume"
  <2>1. PICK told : told = [b EXCEPT !.suspended = FALSE]
    OBVIOUS
  <2>2. /\ told \in States /\ told.suspended = FALSE
        /\ told.present = b.present /\ told.bound = b.bound
    BY <2>1 DEF States
  <2>3. Told(b, name) = told
    BY <1>6, <2>1 DEF Told
  <2>4. \A s \in States :
          /\ After(s, name).present = s.present /\ After(s, name).bound = s.bound
          /\ s.present /\ s.bound => After(s, name).suspended = FALSE
    BY <1>6 DEF After, State, States
  <2> QED  BY <2>2, <2>3, <2>4 DEF Agrees
<1>7. CASE name \in {"Identify", "Shutdown"}
  BY <1>7 DEF Told, After
<1> QED  BY <1>1, <1>2, <1>3, <1>4, <1>5, <1>6, <1>7 DEF Names

\* The worker leaves indicator, panel and flags alone.
LEMMA WorkerStep ==
  ASSUME Inv, UNCHANGED <<loopVars, indicatorVars, panelVars>>, worker' \in Workers \ {"starting"},
         queue' \in Seq(Commands), bus' \in States, thread = "running" => Follows'
  PROVE  Inv'
<1>1. LoopTypes' /\ FlagTypes' /\ PanelTypes' /\ WorkerTypes'
  BY DEF Inv, loopVars, indicatorVars, panelVars, LoopTypes, FlagTypes, PanelTypes, WorkerTypes
<1>2. PanelTold'
  BY DEF Inv, panelVars, PanelTold
<1>3. thread = "running" => Underway'
  <2>1. UNCHANGED <<todo, identify_until, identify_guard, personality_present, bound,
                    suspended, enabled, error_reported, panel>>
    BY DEF loopVars, indicatorVars, panelVars
  <2> QED
    BY <2>1 DEF Inv, Underway, Rest, NoIdentify, IsActive, Lit, Dark, Off, Shown
<1>4. thread' = thread
  BY DEF loopVars
<1> QED  BY <1>1, <1>2, <1>3, <1>4 DEF Inv

LEMMA SendsStep ==
  ASSUME Inv, NEW from, NEW name \in Names, NEW next \in Workers \ {"starting"}, NEW flag,
         Sends(from, name, next, flag, Told(bus, name))
  PROVE  Inv'
<1>1. UNCHANGED <<loopVars, indicatorVars, panelVars>>
  BY DEF Sends
<1>2. CASE Gone
  <2>1. worker' \in Workers \ {"starting"} /\ queue' = queue /\ bus' = bus
    BY <1>2 DEF Sends, Workers
  <2>2. thread # "running"
    BY <1>2 DEF Gone
  <2> QED  BY <1>1, <2>1, <2>2, WorkerStep DEF Inv, WorkerTypes
<1>3. CASE ~Gone
  <2>1. worker' = next /\ bus' = Told(bus, name) /\ queue' = Append(queue, Command(name))
    BY <1>3 DEF Sends, Say
  <2>2. PICK c : c = Command(name)
    OBVIOUS
  <2>3. c \in Commands /\ c.name = name
    BY <2>2, DisplayAssumption DEF Command, Commands
  <2>4. bus \in States /\ queue \in Seq(Commands) /\ queue' = Append(queue, c)
    BY <2>1, <2>2 DEF Inv, WorkerTypes
  <2>5. queue' \in Seq(Commands)
    BY <2>3, <2>4
  <2>6. Flagged' = Flagged
    BY <1>1 DEF loopVars, Flagged
  <2>7. /\ bus' \in States
        /\ \A s \in States : Agrees(s, bus) => Agrees(After(s, c.name), bus')
    BY <2>1, <2>3, <2>4, ToldAgrees
  <2>8. ASSUME thread = "running" PROVE Follows'
    <3>1. Follows
      BY <2>8 DEF Inv
    <3> QED  BY <2>4, <2>6, <2>7, <3>1, FollowsSend
  <2> QED  BY <1>1, <2>1, <2>5, <2>7, <2>8, WorkerStep
<1> QED  BY <1>2, <1>3

\* Every step of the worker keeps the invariant.
LEMMA WorkerInv ==
  ASSUME Inv, Worker
  PROVE  Inv'
<1>1. CASE Insert
  <2>1. Told(bus, "PersonalityPresent") = [present |-> TRUE, bound |-> FALSE, suspended |-> FALSE]
    BY DEF Told
  <2>2. Sends({"starting", "ejected"}, "PersonalityPresent", "serving", FALSE,
              Told(bus, "PersonalityPresent"))
    BY <1>1, <2>1, Zenon DEF Insert
  <2> QED  BY <2>2, SendsStep DEF Names, Workers
<1>2. CASE StartEjected
  <2>1. PICK told : told = [bus EXCEPT !.present = FALSE]
    OBVIOUS
  <2>2. bus \in States /\ bus.present = FALSE
    BY <1>2 DEF StartEjected, Sends, Inv, WorkerTypes
  <2>3. told = bus
    BY <2>1, <2>2 DEF States
  <2>4. Told(bus, "PersonalityAbsent") = told
    BY <2>1 DEF Told
  <2>5. Sends({"starting"}, "PersonalityAbsent", "ejected", FALSE, Told(bus, "PersonalityAbsent"))
    BY <1>2, <2>3, <2>4, Zenon DEF StartEjected
  <2> QED  BY <2>5, SendsStep DEF Names, Workers
<1>3. CASE Eject
  <2>1. Told(bus, "PersonalityAbsent") = [bus EXCEPT !.present = FALSE]
    BY DEF Told
  <2>2. Sends({"serving"}, "PersonalityAbsent", "serving", TRUE, Told(bus, "PersonalityAbsent"))
    BY <1>3, <2>1, Zenon DEF Eject
  <2> QED  BY <2>2, SendsStep DEF Names, Workers
<1>4. ASSUME NEW event \in BusEvents, BusEvent(event) PROVE Inv'
  <2>1. Sends({"serving"}, event, "serving", pending,
          CASE event = "Bind"    -> [bus EXCEPT !.bound = TRUE, !.suspended = FALSE]
            [] event = "Unbind"  -> [bus EXCEPT !.bound = FALSE]
            [] event = "Suspend" -> [bus EXCEPT !.suspended = TRUE]
            [] event = "Resume"  -> [bus EXCEPT !.suspended = FALSE])
    BY <1>4, Zenon DEF BusEvent
  <2>2. Sends({"serving"}, event, "serving", pending, Told(bus, event))
    <3>1. CASE event = "Bind"
      BY <2>1, <3>1, Zenon DEF Told
    <3>2. CASE event = "Unbind"
      BY <2>1, <3>2, Zenon DEF Told
    <3>3. CASE event = "Suspend"
      BY <2>1, <3>3, Zenon DEF Told
    <3>4. CASE event = "Resume"
      BY <2>1, <3>4, Zenon DEF Told
    <3> QED  BY <3>1, <3>2, <3>3, <3>4 DEF BusEvents
  <2>3. event \in Names
    BY DEF BusEvents, Names
  <2> QED  BY <2>2, <2>3, SendsStep DEF Workers
<1>5. CASE Quiesce
  <2>1. Told(bus, "Unbind") = [bus EXCEPT !.bound = FALSE]
    BY DEF Told
  <2>2. Sends({"serving"}, "Unbind", "unloading", pending, Told(bus, "Unbind"))
    BY <1>5, <2>1, Zenon DEF Quiesce
  <2> QED  BY <2>2, SendsStep DEF Names, Workers
<1>6. ASSUME NEW seconds \in 0..MaxSeconds, Blink(seconds) PROVE Inv'
  <2>1. PICK c : c = [name |-> "Identify", seconds |-> seconds]
    OBVIOUS
  <2>2. c \in Commands /\ c.name = "Identify"
    BY <2>1 DEF Commands, Names
  <2>3. /\ queue \in Seq(Commands) /\ queue' = Append(queue, c) /\ bus' = bus
        /\ worker' \in Workers \ {"starting"}
        /\ UNCHANGED <<loopVars, indicatorVars, panelVars>>
    BY <1>6, <2>1 DEF Inv, WorkerTypes, Blink, Say, Workers
  <2>4. queue' \in Seq(Commands)
    BY <2>2, <2>3
  <2>5. Flagged' = Flagged
    BY <2>3 DEF loopVars, Flagged
  <2>6. ASSUME thread = "running" PROVE Follows'
    <3>1. Follows
      BY <2>6 DEF Inv
    <3>2. \A s \in States : Agrees(s, bus) => Agrees(After(s, c.name), bus')
      <4>1. Told(bus, c.name) = bus
        BY <2>2 DEF Told
      <4> QED  BY <2>2, <2>3, <4>1, ToldAgrees DEF Names, Inv, WorkerTypes
    <3> QED  BY <2>3, <2>5, <3>1, <3>2, FollowsSend
  <2> QED  BY <2>3, <2>4, <2>6, WorkerStep DEF Inv, WorkerTypes
<1>7. CASE Stop \/ Unload \/ Join
  <2>1. /\ UNCHANGED <<loopVars, indicatorVars, panelVars>> /\ queue' = queue /\ bus' = bus
        /\ worker' \in Workers \ {"starting"}
    BY <1>7 DEF Stop, Unload, Join, Workers
  <2>2. ASSUME thread = "running" PROVE Follows'
    <3>1. Follows
      BY <2>2 DEF Inv
    <3>2. UNCHANGED <<queue, personality_present, bound, suspended, bus>>
      BY <2>1 DEF loopVars
    <3> QED  BY <3>1, <3>2, FollowsStays
  <2> QED  BY <2>1, <2>2, WorkerStep DEF Inv, WorkerTypes
<1>8. CASE SendShutdown
  <2>1. PICK c : c = Command("Shutdown")
    OBVIOUS
  <2>2. c \in Commands /\ c.name = "Shutdown"
    BY <2>1, DisplayAssumption DEF Command, Commands, Names
  <2>3. /\ queue \in Seq(Commands) /\ bus \in States /\ bus' = bus
        /\ worker' \in Workers \ {"starting"}
        /\ UNCHANGED <<loopVars, indicatorVars, panelVars>>
    BY <1>8 DEF Inv, WorkerTypes, SendShutdown, Workers
  <2>4. queue' = IF Gone THEN queue ELSE Append(queue, c)
    BY <1>8, <2>1 DEF SendShutdown, SaysShutdown, Say
  <2>5. queue' \in Seq(Commands)
    BY <2>2, <2>3, <2>4
  <2>6. Flagged' = Flagged
    BY <2>3 DEF loopVars, Flagged
  <2>7. ASSUME thread = "running" PROVE Follows'
    <3>1. Follows
      BY <2>7 DEF Inv
    <3>2. queue' = Append(queue, c)
      BY <2>4, <2>7 DEF Gone
    <3>3. \A s \in States : Agrees(s, bus) => Agrees(After(s, c.name), bus')
      <4>1. Told(bus, c.name) = bus
        BY <2>2 DEF Told
      <4> QED  BY <2>2, <2>3, <4>1, ToldAgrees DEF Names
    <3> QED  BY <2>3, <2>6, <3>1, <3>2, <3>3, FollowsSend
  <2> QED  BY <2>3, <2>5, <2>7, WorkerStep
<1> QED  BY <1>1, <1>2, <1>3, <1>4, <1>5, <1>6, <1>7, <1>8 DEF Worker

-----------------------------------------------------------------------------
(* Receiving a command *)

LEMMA RestsWhenIdle ==
  ASSUME Underway, todo = << >>
  PROVE  Rest
BY DEF Underway

LEMMA ReceiveStep ==
  ASSUME Inv, NEW name, Receive(name), Flagged' = After(Flagged, name),
         FlagTypes', identify_until' \in 0..Never, identify_guard' \in BOOLEAN,
         Rest => Underway'
  PROVE  Inv'
<1>1. /\ thread = "running" /\ todo = << >> /\ queue # << >> /\ queue' = Tail(queue)
      /\ Head(queue).name = name
      /\ UNCHANGED <<thread, enabled, alive, display, error_reported, panel, worker, bus>>
  BY DEF Receive, indicatorVars, panelVars, workerVars
<1>2. Underway'
  BY <1>1, RestsWhenIdle DEF Inv
<1>3. Follows'
  BY <1>1, FollowsReceive DEF Inv, WorkerTypes
<1>4. LoopTypes' /\ PanelTypes'
  BY <1>1 DEF Inv, LoopTypes, PanelTypes
<1>5. queue' \in Seq(Commands)
  BY <1>1 DEF Inv, WorkerTypes
<1>6. WorkerTypes'
  BY <1>1, <1>5 DEF Inv, WorkerTypes
<1>7. PanelTold'
  BY <1>1 DEF Inv, PanelTold
<1> QED  BY <1>2, <1>3, <1>4, <1>6, <1>7 DEF Inv

LEMMA NeverIsTyped ==
  /\ Never \in 0..Never
  /\ \A seconds \in 0..MaxSeconds : seconds # Never /\ seconds \in 0..Never
BY DisplayAssumption DEF Never

LEMMA RestStays ==
  ASSUME Rest, UNCHANGED <<todo, personality_present, bound, suspended, identify_until,
                           identify_guard, enabled, error_reported, panel>>
  PROVE  Underway'
BY DEF Rest, Underway, IsActive, Shown, Off, Lit, Dark, Never

LEMMA CommandInv ==
  ASSUME Inv,
         \/ PersonalityPresent \/ PersonalityAbsent \/ Bind \/ Unbind \/ Suspend
         \/ Resume \/ Identify \/ Shutdown
  PROVE  Inv'
<1>0. FlagTypes /\ LoopTypes
  BY DEF Inv
<1>1. CASE PersonalityPresent
  <2>1. /\ Receive("PersonalityPresent") /\ personality_present' = TRUE /\ bound' = FALSE
        /\ suspended' = FALSE /\ identify_until' = Never /\ identify_guard' = FALSE
        /\ todo' = <<"disable", "render">>
    BY <1>1 DEF PersonalityPresent, Flags, EndIdentify, Darken
  <2>2. Flagged' = After(Flagged, "PersonalityPresent")
    BY <2>1 DEF Flagged, After
  <2>3. Underway'
    BY <2>1 DEF Underway, NoIdentify, IsActive, Never
  <2>4. FlagTypes'
    BY <2>1 DEF FlagTypes
  <2> QED  BY <2>1, <2>2, <2>3, <2>4, ReceiveStep, NeverIsTyped
<1>2. CASE PersonalityAbsent
  <2>1. /\ Receive("PersonalityAbsent") /\ personality_present' = FALSE /\ bound' = FALSE
        /\ suspended' = FALSE /\ identify_until' = Never /\ identify_guard' = FALSE
        /\ todo' = <<"try_disable", "off">>
    BY <1>2 DEF PersonalityAbsent, Flags, EndIdentify
  <2>2. Flagged' = After(Flagged, "PersonalityAbsent")
    BY <2>1 DEF Flagged, After
  <2>3. Underway'
    BY <2>1 DEF Underway, NoIdentify, Never
  <2>4. FlagTypes'
    BY <2>1 DEF FlagTypes
  <2> QED  BY <2>1, <2>2, <2>3, <2>4, ReceiveStep, NeverIsTyped
<1>3. CASE Bind
  <2>1. /\ Receive("Bind") /\ personality_present' = personality_present /\ bound' = TRUE
        /\ suspended' = FALSE /\ identify_until' = Never /\ identify_guard' = FALSE
        /\ todo' = IF personality_present THEN <<"render", "enable">> ELSE << >>
    BY <1>3 DEF Bind, Flags, EndIdentify
  <2>2. Flagged' = After(Flagged, "Bind")
    BY <2>1 DEF Flagged, After, State
  <2>3. ASSUME Rest PROVE Underway'
    <3>1. CASE personality_present
      BY <2>1, <3>1 DEF Underway, NoIdentify, IsActive, Never
    <3>2. CASE ~personality_present
      <4>1. todo' = << >> /\ ~enabled /\ Off
        BY <2>1, <2>3, <3>2 DEF Rest, IsActive, Shown
      <4>2. UNCHANGED <<enabled, error_reported, panel>>
        BY <2>1 DEF Receive, indicatorVars, panelVars
      <4>3. ~personality_present' /\ ~IsActive'
        BY <2>1, <3>2 DEF IsActive
      <4>4. Shown'
        BY <4>1, <4>2, <4>3 DEF Shown, Off
      <4>5. Rest'
        BY <2>1, <4>1, <4>2, <4>3, <4>4 DEF Rest, Never
      <4> QED  BY <4>5 DEF Underway
    <3> QED  BY <3>1, <3>2
  <2>4. FlagTypes'
    BY <1>0, <2>1 DEF FlagTypes
  <2> QED  BY <2>1, <2>2, <2>3, <2>4, ReceiveStep, NeverIsTyped
<1>4. ASSUME NEW name \in {"Unbind", "Suspend"}, Receive(name),
             personality_present' = personality_present, bound' \in BOOLEAN,
             suspended' \in BOOLEAN, ~bound' \/ suspended',
             identify_until' = Never, identify_guard' = FALSE,
             todo' = IF personality_present THEN <<"disable", "render">> ELSE <<"disable">>,
             Flagged' = After(Flagged, name)
      PROVE  Inv'
  <2>1. ASSUME Rest PROVE Underway'
    <3>1. CASE personality_present
      BY <1>4, <3>1 DEF Underway, NoIdentify, IsActive, Never
    <3>2. CASE ~personality_present
      <4>1. todo' = <<"disable">> /\ ~enabled /\ Off
        BY <1>4, <2>1, <3>2 DEF Rest, IsActive, Shown
      <4>2. UNCHANGED <<enabled, error_reported, panel>>
        BY <1>4 DEF Receive, indicatorVars, panelVars
      <4> QED  BY <1>4, <3>2, <4>1, <4>2 DEF Underway, NoIdentify, Off, Never
    <3> QED  BY <3>1, <3>2
  <2>2. FlagTypes'
    BY <1>0, <1>4 DEF FlagTypes
  <2> QED  BY <1>4, <2>1, <2>2, ReceiveStep, NeverIsTyped
<1>5. CASE Unbind
  <2>1. /\ Receive("Unbind") /\ personality_present' = personality_present /\ bound' = FALSE
        /\ suspended' = FALSE /\ identify_until' = Never /\ identify_guard' = FALSE
        /\ todo' = IF personality_present THEN <<"disable", "render">> ELSE <<"disable">>
    BY <1>5 DEF Unbind, Flags, EndIdentify, Darken
  <2>2. Flagged' = After(Flagged, "Unbind")
    BY <2>1 DEF Flagged, After, State
  <2> QED  BY <1>4, <2>1, <2>2
<1>6. CASE Suspend
  <2>1. /\ Receive("Suspend") /\ personality_present' = personality_present /\ bound' = bound
        /\ suspended' = TRUE /\ identify_until' = Never /\ identify_guard' = FALSE
        /\ todo' = IF personality_present THEN <<"disable", "render">> ELSE <<"disable">>
    BY <1>6 DEF Suspend, Flags, EndIdentify, Darken
  <2>2. Flagged' = After(Flagged, "Suspend")
    BY <2>1 DEF Flagged, After, State
  <2>3. bound' \in BOOLEAN
    BY <1>0, <2>1 DEF FlagTypes
  <2> QED  BY <1>4, <2>1, <2>2, <2>3
<1>7. CASE Resume
  <2>1. Receive("Resume") /\ UNCHANGED <<identify_until, identify_guard>>
    BY <1>7 DEF Resume
  <2>2. identify_until' \in 0..Never /\ identify_guard' \in BOOLEAN
    BY <1>0, <2>1 DEF LoopTypes
  <2>3. CASE Resumes
    <3>1. /\ personality_present' = personality_present /\ bound' = bound
          /\ suspended' = FALSE /\ todo' = <<"render", "enable">>
      BY <1>7, <2>3 DEF Resume, Flags
    <3>2. personality_present /\ bound /\ suspended
      BY <2>3 DEF Resumes
    <3>3. Flagged' = After(Flagged, "Resume")
      BY <3>1, <3>2 DEF Flagged, After, State
    <3>4. ASSUME Rest PROVE Underway'
      <4>1. identify_until = Never /\ ~identify_guard
        BY <3>2, <3>4 DEF Rest, IsActive
      <4> QED  BY <2>1, <3>1, <3>2, <4>1 DEF Underway, NoIdentify, IsActive, Never
    <3>5. FlagTypes'
      BY <1>0, <3>1 DEF FlagTypes
    <3> QED  BY <2>1, <2>2, <3>3, <3>4, <3>5, ReceiveStep
  <2>4. CASE ~Resumes
    <3>1. UNCHANGED <<personality_present, bound, suspended, todo>>
      BY <1>7, <2>4 DEF Resume
    <3>2. Flagged' = After(Flagged, "Resume")
      <4>1. ~(personality_present /\ bound /\ suspended)
        BY <2>4 DEF Resumes
      <4>2. /\ Flagged.present = personality_present /\ Flagged.bound = bound
            /\ Flagged.suspended = suspended
        BY DEF Flagged, State
      <4>3. After(Flagged, "Resume") = Flagged
        BY <4>1, <4>2 DEF After
      <4> QED  BY <3>1, <4>3 DEF Flagged
    <3>3. ASSUME Rest PROVE Underway'
      <4>1. UNCHANGED <<enabled, error_reported, panel>>
        BY <2>1 DEF Receive, indicatorVars, panelVars
      <4> QED  BY <2>1, <3>1, <3>3, <4>1, RestStays
    <3>4. FlagTypes'
      BY <1>0, <3>1 DEF FlagTypes
    <3> QED  BY <2>1, <2>2, <3>2, <3>3, <3>4, ReceiveStep
  <2> QED  BY <2>3, <2>4
<1>8. CASE Identify
  <2>1. Receive("Identify") /\ UNCHANGED <<personality_present, bound, suspended>>
    BY <1>8 DEF Identify
  <2>2. Flagged' = After(Flagged, "Identify")
    BY <2>1 DEF Flagged, After
  <2>3. FlagTypes'
    BY <1>0, <2>1 DEF FlagTypes
  <2>4. UNCHANGED <<enabled, error_reported, panel>>
    BY <2>1 DEF Receive, indicatorVars, panelVars
  <2>5. PICK seconds : seconds = Head(queue).seconds
    OBVIOUS
  <2>6. CASE Identifies(seconds)
    <3>1. seconds \in 0..MaxSeconds
      <4>1. queue \in Seq(Commands) /\ queue # << >>
        BY <2>1 DEF Inv, WorkerTypes, Receive
      <4>2. Head(queue) \in Commands
        BY <4>1
      <4> QED  BY <2>5, <4>2 DEF Commands
    <3>2. identify_until' = seconds /\ identify_guard' = FALSE /\ todo' = <<"attention">>
      BY <1>8, <2>5, <2>6 DEF Identify, Deadline
    <3>3. personality_present /\ bound /\ ~suspended
      BY <2>6 DEF Identifies
    <3>4. ASSUME Rest PROVE Underway'
      <4>1. enabled /\ Lit
        BY <3>3, <3>4 DEF Rest, IsActive, Shown
      <4>2. IsActive' /\ enabled' /\ Lit'
        BY <2>1, <2>4, <3>3, <4>1 DEF IsActive, Lit
      <4>3. identify_until' # Never
        BY <3>1, <3>2, NeverIsTyped
      <4> QED  BY <3>2, <4>2, <4>3 DEF Underway, Never
    <3> QED  BY <2>1, <2>2, <2>3, <3>1, <3>2, <3>4, NeverIsTyped, ReceiveStep
  <2>7. CASE ~Identifies(seconds)
    <3>1. UNCHANGED <<identify_until, identify_guard, todo>>
      BY <1>8, <2>5, <2>7 DEF Identify
    <3>2. identify_until' \in 0..Never /\ identify_guard' \in BOOLEAN
      BY <1>0, <3>1 DEF LoopTypes
    <3>3. Rest => Underway'
      BY <2>1, <2>4, <3>1, RestStays
    <3> QED  BY <2>1, <2>2, <2>3, <3>2, <3>3, ReceiveStep
  <2> QED  BY <2>6, <2>7
<1>9. CASE Shutdown
  <2>1. /\ Receive("Shutdown") /\ identify_guard' = FALSE
        /\ todo' = <<"shutdown", "off", "end">>
        /\ UNCHANGED <<personality_present, bound, suspended, identify_until>>
    BY <1>9 DEF Shutdown, ShutdownThenOff
  <2>2. Flagged' = After(Flagged, "Shutdown")
    BY <2>1 DEF Flagged, After
  <2>3. FlagTypes' /\ identify_until' \in 0..Never
    BY <1>0, <2>1 DEF FlagTypes, LoopTypes
  <2>4. Underway'
    BY <2>1 DEF Underway
  <2> QED  BY <2>1, <2>2, <2>3, <2>4, ReceiveStep
<1> QED  BY <1>1, <1>2, <1>3, <1>5, <1>6, <1>7, <1>8, <1>9

-----------------------------------------------------------------------------
(* The indicator, the panel and the clock *)

LEMMA RenderFacts ==
  ASSUME PanelTypes, NEW frame \in {"dark", "lit"}, Render(frame)
  PROVE  PanelTypes' /\ PanelTold' /\ (error_reported' \/ panel' = frame)
BY DEF PanelTypes, PanelTold, Render

LEMMA TurnOffFacts ==
  ASSUME PanelTypes, PanelTold, TurnOff
  PROVE  PanelTypes' /\ PanelTold' /\ Off'
BY DEF PanelTypes, PanelTold, TurnOff, Off, panelVars

LEMMA OperationStep ==
  ASSUME Inv, UNCHANGED <<queue, personality_present, bound, suspended, worker, bus>>,
         LoopTypes', PanelTypes', PanelTold',
         thread' = "running" => thread = "running" /\ Underway'
  PROVE  Inv'
<1>1. FlagTypes' /\ WorkerTypes'
  BY DEF Inv, FlagTypes, WorkerTypes
<1>2. thread' = "running" => Follows'
  BY FollowsStays DEF Inv
<1> QED  BY <1>1, <1>2 DEF Inv

LEMMA IndicatorInv ==
  ASSUME Inv, SetIndicator
  PROVE  Inv'
<1>1. PICK frame \in {"dark", "lit"} : Render(frame)
  BY DEF SetIndicator
<1>2. PanelTypes' /\ PanelTold' /\ Lit'
  BY <1>1, RenderFacts DEF Inv, Lit
<1>3. /\ enabled = TRUE
      /\ UNCHANGED <<thread, todo, personality_present, bound, suspended, identify_until,
                     identify_guard, queue, enabled, alive, worker, bus>>
  BY DEF SetIndicator, loopVars, indicatorVars, workerVars, Inv, LoopTypes
<1>4. LoopTypes'
  BY <1>3 DEF Inv, LoopTypes, Never
<1>5. ASSUME Underway PROVE Underway'
  <2>1. CASE Rest
    <3>1. IsActive /\ todo = << >> /\ (identify_guard <=> identify_until # Never)
      BY <1>3, <2>1 DEF Rest
    <3>2. IsActive' /\ personality_present' /\ enabled'
      BY <1>3, <3>1 DEF IsActive
    <3>3. Shown'
      BY <1>2, <3>2 DEF Shown
    <3>4. Rest'
      BY <1>3, <3>1, <3>2, <3>3 DEF Rest, Never
    <3> QED  BY <3>4 DEF Underway
  <2>2. CASE ~Rest
    BY <1>2, <1>3, <1>5, <2>2 DEF Underway, NoIdentify, IsActive, Never
  <2> QED  BY <2>1, <2>2
<1> QED  BY <1>2, <1>3, <1>4, <1>5, OperationStep DEF Inv

LEMMA UnderwayStays ==
  ASSUME Underway, UNCHANGED <<todo, personality_present, bound, suspended, identify_until,
                               identify_guard, enabled, error_reported, panel>>
  PROVE  Underway'
BY DEF Underway, Rest, NoIdentify, IsActive, Shown, Off, Lit, Dark, Never

LEMMA ClockInv ==
  ASSUME Inv, IndicatorDies \/ Timeout \/ Elapse
  PROVE  Inv'
<1>1. UNCHANGED <<thread, todo, queue, personality_present, bound, suspended, enabled,
                  display, error_reported, panel, worker, bus>>
  BY DEF IndicatorDies, Timeout, Elapse, loopVars, indicatorVars, panelVars, workerVars
<1>2. PanelTypes' /\ PanelTold'
  BY <1>1 DEF Inv, PanelTypes, PanelTold
<1>3. CASE IndicatorDies
  <2>1. UNCHANGED <<identify_until, identify_guard>> /\ alive' = FALSE
    BY <1>3 DEF IndicatorDies, loopVars
  <2>2. LoopTypes'
    BY <1>1, <2>1 DEF Inv, LoopTypes, Never
  <2>3. Underway => Underway'
    BY <1>1, <2>1, UnderwayStays
  <2> QED  BY <1>1, <1>2, <2>2, <2>3, OperationStep DEF Inv
<1>4. CASE Timeout
  <2>1. /\ thread = "running" /\ todo = << >> /\ alive' = alive
        /\ identify_until' = Never /\ identify_guard' = FALSE
    BY <1>4 DEF Timeout, DropsOnTimeout, EndIdentify, indicatorVars
  <2>2. LoopTypes'
    BY <1>1, <2>1, NeverIsTyped DEF Inv, LoopTypes, Never
  <2>3. Rest
    BY <2>1, RestsWhenIdle DEF Inv
  <2>4. Rest'
    BY <1>1, <2>1, <2>3 DEF Rest, IsActive, Shown, Off, Lit, Dark, Never
  <2> QED  BY <1>1, <1>2, <2>1, <2>2, <2>4, OperationStep DEF Underway
<1>5. CASE Elapse
  <2>1. /\ thread = "running" /\ todo = << >> /\ alive' = alive
        /\ identify_until \in 1..MaxSeconds
        /\ identify_until' = identify_until - 1 /\ identify_guard' = identify_guard
    BY <1>5 DEF Elapse, indicatorVars
  <2>2. /\ identify_until # Never /\ identify_until' # Never
        /\ identify_until' \in 0..Never /\ Never' = Never
    BY <2>1, DisplayAssumption DEF Never
  <2>3. LoopTypes'
    BY <1>1, <2>1, <2>2 DEF Inv, LoopTypes
  <2>4. Rest
    BY <2>1, RestsWhenIdle DEF Inv
  <2>5. Rest'
    BY <1>1, <2>1, <2>2, <2>4 DEF Rest, IsActive, Shown, Off, Lit, Dark
  <2> QED  BY <1>1, <1>2, <2>1, <2>3, <2>5, OperationStep DEF Underway
<1> QED  BY <1>3, <1>4, <1>5

-----------------------------------------------------------------------------
(* One call of a handler *)

\* Where a handler is when it makes a call.
LEMMA Calls ==
  ASSUME Underway, todo # << >>
  PROVE  /\ Head(todo) = "disable" =>
              \/ /\ Tail(todo) = <<"render">> /\ NoIdentify /\ personality_present
                 /\ ~IsActive
              \/ Tail(todo) = << >> /\ NoIdentify /\ ~personality_present /\ Off
         /\ Head(todo) = "enable" => Tail(todo) = << >> /\ NoIdentify /\ IsActive /\ Lit
         /\ Head(todo) = "render" =>
              \/ /\ Tail(todo) = << >> /\ NoIdentify /\ personality_present /\ ~IsActive
                 /\ ~enabled
              \/ Tail(todo) = <<"enable">> /\ NoIdentify /\ IsActive
         /\ Head(todo) = "try_disable" =>
              Tail(todo) = <<"off">> /\ NoIdentify /\ ~personality_present
         /\ Head(todo) = "shutdown" => Tail(todo) = <<"off", "end">>
         /\ Head(todo) = "off" =>
              \/ Tail(todo) = << >> /\ NoIdentify /\ ~personality_present /\ ~enabled
              \/ Tail(todo) = <<"end">>
         /\ Head(todo) = "attention" =>
              /\ Tail(todo) = << >> /\ identify_until # Never /\ IsActive /\ enabled /\ Lit
<1>1. todo # << >> => ~Rest
  BY DEF Rest
<1>2. CASE todo = <<"disable", "render">> /\ NoIdentify /\ personality_present /\ ~IsActive
  BY <1>2
<1>3. CASE /\ todo = <<"render">> /\ NoIdentify /\ personality_present /\ ~IsActive
           /\ ~enabled
  BY <1>3
<1>4. CASE todo = <<"try_disable", "off">> /\ NoIdentify /\ ~personality_present
  BY <1>4
<1>5. CASE todo = <<"off">> /\ NoIdentify /\ ~personality_present /\ ~enabled
  BY <1>5
<1>6. CASE todo = <<"render", "enable">> /\ NoIdentify /\ IsActive
  BY <1>6
<1>7. CASE todo = <<"enable">> /\ NoIdentify /\ IsActive /\ Lit
  BY <1>7
<1>8. CASE todo = <<"disable">> /\ NoIdentify /\ ~personality_present /\ ~enabled /\ Off
  BY <1>8
<1>9. CASE /\ todo = <<"attention">> /\ identify_until # Never /\ ~identify_guard
           /\ IsActive /\ enabled /\ Lit
  BY <1>9
<1>10. CASE todo \in {<<"shutdown", "off", "end">>, <<"off", "end">>, <<"end">>}
  <2>1. CASE todo = <<"shutdown", "off", "end">>
    BY <2>1
  <2>2. CASE todo = <<"off", "end">>
    BY <2>2
  <2>3. CASE todo = <<"end">>
    BY <2>3
  <2> QED  BY <1>10, <2>1, <2>2, <2>3
<1> QED
  BY <1>1, <1>2, <1>3, <1>4, <1>5, <1>6, <1>7, <1>8, <1>9, <1>10 DEF Underway

LEMMA CallInv ==
  ASSUME Inv,
         \/ Switch("disable", FALSE) \/ Switch("enable", TRUE) \/ StopIndicator
         \/ TakeAttention \/ RenderDark \/ PowerOff \/ End
  PROVE  Inv'
<1>0. LoopTypes /\ PanelTypes /\ PanelTold
  BY DEF Inv
<1>1. CASE Switch("disable", FALSE)
  <2>1. /\ Does("disable")
        /\ UNCHANGED <<queue, personality_present, bound, suspended, identify_until, worker,
                       bus, alive, display, error_reported, panel>>
    BY <1>1 DEF Switch, Does, panelVars, workerVars
  <2>2. PanelTypes' /\ PanelTold'
    BY <1>0, <2>1 DEF PanelTypes, PanelTold
  <2>3. CASE alive
    <3>1. /\ enabled' = FALSE /\ todo' = Tail(todo) /\ thread' = thread
          /\ identify_guard' = identify_guard
      BY <1>1, <2>3 DEF Switch, Proceed
    <3>2. LoopTypes'
      BY <1>0, <2>1, <3>1 DEF LoopTypes, Never
    <3>3. ASSUME thread = "running" PROVE Underway'
      <4>1. \/ /\ Tail(todo) = <<"render">> /\ NoIdentify /\ personality_present
               /\ ~IsActive
            \/ Tail(todo) = << >> /\ NoIdentify /\ ~personality_present /\ Off
        BY <2>1, <3>3, Calls DEF Inv, Does
      <4>2. CASE /\ Tail(todo) = <<"render">> /\ NoIdentify /\ personality_present
                 /\ ~IsActive
        BY <2>1, <3>1, <4>2 DEF Underway, NoIdentify, IsActive, Never
      <4>3. CASE Tail(todo) = << >> /\ NoIdentify /\ ~personality_present /\ Off
        <5>1. todo' = << >> /\ ~enabled' /\ ~personality_present' /\ ~IsActive'
          BY <2>1, <3>1, <4>3 DEF IsActive
        <5>2. Shown' /\ identify_until' = Never' /\ ~identify_guard'
          BY <2>1, <3>1, <4>3, <5>1 DEF Shown, Off, NoIdentify, Never
        <5>3. Rest'
          BY <5>1, <5>2 DEF Rest
        <5> QED  BY <5>3 DEF Underway
      <4> QED  BY <4>1, <4>2, <4>3
    <3> QED  BY <2>1, <2>2, <3>1, <3>2, <3>3, OperationStep
  <2>4. CASE ~alive
    <3>1. thread' = "failed" /\ identify_guard' = FALSE /\ enabled' = FALSE
      BY <1>1, <2>4 DEF Switch, Abort
    <3>2. LoopTypes'
      BY <1>0, <2>1, <3>1 DEF LoopTypes, Never
    <3> QED  BY <2>1, <2>2, <3>1, <3>2, OperationStep
  <2> QED  BY <2>3, <2>4
<1>2. CASE Switch("enable", TRUE)
  <2>1. /\ Does("enable")
        /\ UNCHANGED <<queue, personality_present, bound, suspended, identify_until, worker,
                       bus, alive, display, error_reported, panel>>
    BY <1>2 DEF Switch, Does, panelVars, workerVars
  <2>2. PanelTypes' /\ PanelTold'
    BY <1>0, <2>1 DEF PanelTypes, PanelTold
  <2>3. CASE alive
    <3>1. /\ enabled' = TRUE /\ todo' = Tail(todo) /\ thread' = thread
          /\ identify_guard' = identify_guard
      BY <1>2, <2>3 DEF Switch, Proceed
    <3>2. LoopTypes'
      BY <1>0, <2>1, <3>1 DEF LoopTypes, Never
    <3>3. ASSUME thread = "running" PROVE Underway'
      <4>1. Tail(todo) = << >> /\ NoIdentify /\ IsActive /\ Lit
        BY <2>1, <3>3, Calls DEF Inv, Does
      <4>2. todo' = << >> /\ enabled' /\ personality_present' /\ IsActive'
        BY <2>1, <3>1, <4>1 DEF IsActive
      <4>3. Shown' /\ identify_until' = Never' /\ ~identify_guard'
        BY <2>1, <3>1, <4>1, <4>2 DEF Shown, Lit, NoIdentify, Never
      <4>4. Rest'
        BY <4>2, <4>3 DEF Rest
      <4> QED  BY <4>4 DEF Underway
    <3> QED  BY <2>1, <2>2, <3>1, <3>2, <3>3, OperationStep
  <2>4. CASE ~alive
    <3>1. thread' = "failed" /\ identify_guard' = FALSE /\ enabled' = FALSE
      BY <1>2, <2>4 DEF Switch, Abort
    <3>2. LoopTypes'
      BY <1>0, <2>1, <3>1 DEF LoopTypes, Never
    <3> QED  BY <2>1, <2>2, <3>1, <3>2, OperationStep
  <2> QED  BY <2>3, <2>4
<1>3. CASE StopIndicator
  <2>1. PICK operation \in {"try_disable", "shutdown"} : Does(operation)
    BY <1>3 DEF StopIndicator
  <2>2. /\ enabled' = FALSE /\ todo' = Tail(todo)
        /\ thread' = IF alive THEN thread ELSE "failing"
        /\ UNCHANGED <<queue, personality_present, bound, suspended, identify_until,
                       identify_guard, worker, bus, alive, display, error_reported, panel>>
    BY <1>3, <2>1 DEF StopIndicator, Does, panelVars, workerVars
  <2>3. PanelTypes' /\ PanelTold'
    BY <1>0, <2>2 DEF PanelTypes, PanelTold
  <2>4. LoopTypes'
    BY <1>0, <2>2 DEF LoopTypes, Never
  <2>5. ASSUME thread' = "running" PROVE thread = "running" /\ Underway'
    <3>1. thread = "running"
      BY <2>2, <2>5
    <3>2. \/ Tail(todo) = <<"off">> /\ NoIdentify /\ ~personality_present
          \/ Tail(todo) = <<"off", "end">>
      BY <2>1, <3>1, Calls DEF Inv, Does
    <3> QED  BY <2>2, <3>1, <3>2 DEF Underway, NoIdentify, Never
  <2> QED  BY <2>2, <2>3, <2>4, <2>5, OperationStep
<1>4. CASE TakeAttention
  <2>1. /\ Does("attention")
        /\ UNCHANGED <<queue, personality_present, bound, suspended, identify_until, worker,
                       bus, alive, display, error_reported, panel>>
    BY <1>4 DEF TakeAttention, Does, panelVars, workerVars
  <2>2. PanelTypes' /\ PanelTold'
    BY <1>0, <2>1 DEF PanelTypes, PanelTold
  <2>3. CASE alive
    <3>1. /\ identify_guard' = TRUE /\ todo' = Tail(todo) /\ thread' = thread
          /\ enabled' = enabled
      BY <1>4, <2>3 DEF TakeAttention, Proceed
    <3>2. LoopTypes'
      BY <1>0, <2>1, <3>1 DEF LoopTypes, Never
    <3>3. ASSUME thread = "running" PROVE Underway'
      <4>1. Tail(todo) = << >> /\ identify_until # Never /\ IsActive /\ enabled /\ Lit
        BY <2>1, <3>3, Calls DEF Inv, Does
      <4>2. todo' = << >> /\ enabled' /\ personality_present' /\ IsActive'
        BY <2>1, <3>1, <4>1 DEF IsActive
      <4>3. Shown' /\ identify_until' # Never' /\ identify_guard'
        BY <2>1, <3>1, <4>1, <4>2 DEF Shown, Lit, Never
      <4>4. Rest'
        BY <4>2, <4>3 DEF Rest
      <4> QED  BY <4>4 DEF Underway
    <3> QED  BY <2>1, <2>2, <3>1, <3>2, <3>3, OperationStep
  <2>4. CASE ~alive
    <3>1. thread' = "failed" /\ identify_guard' = FALSE /\ enabled' = FALSE
      BY <1>4, <2>4 DEF TakeAttention, Abort
    <3>2. LoopTypes'
      BY <1>0, <2>1, <3>1 DEF LoopTypes, Never
    <3> QED  BY <2>1, <2>2, <3>1, <3>2, OperationStep
  <2> QED  BY <2>3, <2>4
<1>5. CASE RenderDark
  <2>1. /\ Does("render") /\ Render("dark") /\ todo' = Tail(todo)
        /\ UNCHANGED <<queue, personality_present, bound, suspended, identify_until, worker,
                       bus, thread, identify_guard, enabled, alive>>
    BY <1>5 DEF RenderDark, Does, Proceed, indicatorVars, workerVars
  <2>2. PanelTypes' /\ PanelTold' /\ Dark'
    BY <1>0, <2>1, RenderFacts DEF Dark
  <2>3. LoopTypes'
    BY <1>0, <2>1 DEF LoopTypes, Never
  <2>4. ASSUME thread = "running" PROVE Underway'
    <3>1. \/ /\ Tail(todo) = << >> /\ NoIdentify /\ personality_present /\ ~IsActive
             /\ ~enabled
          \/ Tail(todo) = <<"enable">> /\ NoIdentify /\ IsActive
      BY <2>1, <2>4, Calls DEF Inv, Does
    <3>2. CASE /\ Tail(todo) = << >> /\ NoIdentify /\ personality_present /\ ~IsActive
               /\ ~enabled
      <4>1. todo' = << >> /\ ~enabled' /\ personality_present' /\ ~IsActive'
        BY <2>1, <3>2 DEF IsActive
      <4>2. Shown' /\ identify_until' = Never' /\ ~identify_guard'
        BY <2>1, <2>2, <3>2, <4>1 DEF Shown, NoIdentify, Never
      <4>3. Rest'
        BY <4>1, <4>2 DEF Rest
      <4> QED  BY <4>3 DEF Underway
    <3>3. CASE Tail(todo) = <<"enable">> /\ NoIdentify /\ IsActive
      <4>1. Lit' /\ IsActive'
        BY <2>1, <2>2, <3>3 DEF Lit, Dark, IsActive
      <4> QED  BY <2>1, <3>3, <4>1 DEF Underway, NoIdentify, Never
    <3> QED  BY <3>1, <3>2, <3>3
  <2> QED  BY <2>1, <2>2, <2>3, <2>4, OperationStep
<1>6. CASE PowerOff
  <2>1. /\ Does("off") /\ TurnOff
        /\ UNCHANGED <<queue, personality_present, bound, suspended, identify_until, worker,
                       bus, identify_guard, enabled, alive>>
    BY <1>6 DEF PowerOff, Does, indicatorVars, workerVars
  <2>2. PanelTypes' /\ PanelTold' /\ Off'
    BY <1>0, <2>1, TurnOffFacts
  <2>3. \/ thread = "failing" /\ thread' = "failed"
        \/ thread' = thread /\ thread # "failing" /\ todo' = Tail(todo)
    BY <1>6 DEF PowerOff, Proceed
  <2>4. LoopTypes'
    BY <1>0, <2>1, <2>3 DEF LoopTypes, Never
  <2>5. ASSUME thread' = "running" PROVE thread = "running" /\ Underway'
    <3>1. thread = "running" /\ todo' = Tail(todo)
      BY <2>3, <2>5
    <3>2. \/ Tail(todo) = << >> /\ NoIdentify /\ ~personality_present /\ ~enabled
          \/ Tail(todo) = <<"end">>
      BY <2>1, <3>1, Calls DEF Inv, Does
    <3>3. CASE Tail(todo) = << >> /\ NoIdentify /\ ~personality_present /\ ~enabled
      <4>1. todo' = << >> /\ ~enabled' /\ ~personality_present' /\ ~IsActive'
        BY <2>1, <3>1, <3>3 DEF IsActive
      <4>2. Shown' /\ identify_until' = Never' /\ ~identify_guard'
        BY <2>1, <2>2, <3>3, <4>1 DEF Shown, NoIdentify, Never
      <4>3. Rest'
        BY <4>1, <4>2 DEF Rest
      <4> QED  BY <3>1, <4>3 DEF Underway
    <3>4. CASE Tail(todo) = <<"end">>
      BY <3>1, <3>4 DEF Underway
    <3> QED  BY <3>2, <3>3, <3>4
  <2> QED  BY <2>1, <2>2, <2>4, <2>5, OperationStep
<1>7. CASE End
  <2>1. /\ thread' = IF thread = "running" THEN "ended" ELSE thread
        /\ UNCHANGED <<queue, personality_present, bound, suspended, identify_until, worker,
                       bus, identify_guard, enabled, alive, display, error_reported, panel>>
    BY <1>7 DEF End, Does, indicatorVars, panelVars, workerVars
  <2>2. LoopTypes' /\ PanelTypes' /\ PanelTold'
    BY <1>0, <2>1 DEF LoopTypes, PanelTypes, PanelTold, Never
  <2> QED  BY <2>1, <2>2, OperationStep
<1> QED  BY <1>1, <1>2, <1>3, <1>4, <1>5, <1>6, <1>7

-----------------------------------------------------------------------------
(* The invariant and the theorem *)

LEMMA InitInv == Init => Inv
<1> SUFFICES ASSUME Init PROVE Inv
  OBVIOUS
<1>1. LoopTypes /\ FlagTypes /\ PanelTypes /\ PanelTold
  BY NeverIsTyped DEF Init, LoopTypes, FlagTypes, PanelTypes, PanelTold
<1>2. WorkerTypes
  BY DEF Init, WorkerTypes, Workers, States
<1>3. Underway
  BY DEF Init, Underway, Rest, IsActive, Shown, Off
<1>4. Follows
  <2>1. PICK s : s = Flagged
    OBVIOUS
  <2>2. s \in States
    BY <1>1, <2>1 DEF FlagTypes, Flagged, State, States
  <2>3. Agrees(s, bus)
    BY <2>1 DEF Init, Flagged, State, Agrees
  <2>4. queue = << >> /\ Len(queue) = 0
    BY DEF Init
  <2>5. PICK states : states = [i \in 0..0 |-> s]
    OBVIOUS
  <2>6. states \in [0..Len(queue) -> States]
    BY <2>2, <2>4, <2>5
  <2>7. states[0] = s /\ states[Len(queue)] = s
    BY <2>4, <2>5
  <2>8. Leads(states)
    BY <2>1, <2>3, <2>4, <2>6, <2>7 DEF Leads
  <2> QED  BY <2>6, <2>8 DEF Follows
<1> QED  BY <1>1, <1>2, <1>3, <1>4 DEF Inv

LEMMA NextInv == Inv /\ [Next]_vars => Inv'
<1> SUFFICES ASSUME Inv, [Next]_vars PROVE Inv'
  OBVIOUS
<1>1. CASE DisplayLoop
  <2>1. CASE \/ PersonalityPresent \/ PersonalityAbsent \/ Bind \/ Unbind \/ Suspend
             \/ Resume \/ Identify \/ Shutdown
    BY <2>1, CommandInv
  <2>2. CASE Timeout
    BY <2>2, ClockInv
  <2>3. CASE \/ Switch("disable", FALSE) \/ Switch("enable", TRUE) \/ StopIndicator
             \/ TakeAttention \/ RenderDark \/ PowerOff \/ End
    BY <2>3, CallInv
  <2> QED  BY <1>1, <2>1, <2>2, <2>3 DEF DisplayLoop
<1>2. CASE Elapse \/ IndicatorDies
  BY <1>2, ClockInv
<1>3. CASE SetIndicator
  BY <1>3, IndicatorInv
<1>4. CASE Worker
  BY <1>4, WorkerInv
<1>5. CASE UNCHANGED vars
  <2>1. UNCHANGED <<thread, todo, queue, personality_present, bound, suspended,
                    identify_until, identify_guard, enabled, alive, display,
                    error_reported, panel, worker, bus>>
    BY <1>5 DEF vars, loopVars, indicatorVars, panelVars, workerVars
  <2>2. LoopTypes' /\ PanelTypes' /\ PanelTold'
    BY <2>1 DEF Inv, LoopTypes, PanelTypes, PanelTold, Never
  <2>3. Underway => Underway'
    BY <2>1, UnderwayStays
  <2> QED  BY <2>1, <2>2, <2>3, OperationStep DEF Inv
<1> QED  BY <1>1, <1>2, <1>3, <1>4, <1>5 DEF Next

\* Nothing is left to handle, so the flags agree with the bus.
LEMMA InvFollows == Inv => DisplayFollowsBus
<1> SUFFICES ASSUME Inv PROVE DisplayFollowsBus
  OBVIOUS
<1>1. TypeOK
  BY DEF Inv, LoopTypes, FlagTypes, PanelTypes, WorkerTypes, Workers, TypeOK
<1>2. ASSUME Settled
      PROVE  LET active == bus.present /\ bus.bound /\ ~bus.suspended IN
             /\ enabled = active
             /\ identify_guard = (identify_until # Never)
             /\ identify_guard => active
             /\ \/ error_reported
                \/ CASE ~bus.present -> panel = "off"
                     [] active       -> panel \in {"dark", "lit"}
                     [] OTHER        -> panel = "dark"
  <2> DEFINE active == bus.present /\ bus.bound /\ ~bus.suspended
  <2>1. Follows /\ Rest
    BY <1>2, RestsWhenIdle DEF Inv, Settled
  <2>2. Agrees(Flagged, bus)
    <3>1. PICK states \in [0..Len(queue) -> States] : Leads(states)
      BY <2>1 DEF Follows
    <3>2. Len(queue) = 0
      BY <1>2 DEF Settled
    <3> QED  BY <3>1, <3>2 DEF Leads
  <2>3. /\ Flagged.present = personality_present /\ Flagged.bound = bound
        /\ Flagged.suspended = suspended
    BY DEF Flagged, State
  <2>4. bus.present \in BOOLEAN /\ bus.bound \in BOOLEAN /\ bus.suspended \in BOOLEAN
    BY DEF Inv, WorkerTypes, States
  <2>5. /\ personality_present <=> bus.present
        /\ IsActive <=> active
    BY <2>2, <2>3, <2>4 DEF Agrees, IsActive, Inv, FlagTypes
  <2>6. enabled = active
    BY <2>1, <2>4, <2>5 DEF Rest, Inv, LoopTypes
  <2>7. identify_guard = (identify_until # Never)
    BY <2>1 DEF Rest, Inv, LoopTypes
  <2>8. identify_guard => active
    BY <2>1, <2>5 DEF Rest
  <2>9. error_reported \/ CASE ~bus.present -> panel = "off"
                            [] active       -> panel \in {"dark", "lit"}
                            [] OTHER        -> panel = "dark"
    <3>1. CASE ~bus.present
      BY <2>1, <2>5, <3>1 DEF Rest, Shown, Off
    <3>2. CASE active
      BY <2>1, <2>5, <3>2 DEF Rest, Shown, Lit
    <3>3. CASE bus.present /\ ~active
      BY <2>1, <2>5, <3>3 DEF Rest, Shown, Dark
    <3> QED  BY <3>1, <3>2, <3>3
  <2> QED  BY <2>6, <2>7, <2>8, <2>9
<1> QED  BY <1>1, <1>2 DEF DisplayFollowsBus

\* However many commands there are, in whatever order the bus raises its events
\* and the indicator draws, a display thread with nothing left to handle shows
\* the state the worker told last, and blinks fast only while a Blink Device
\* deadline runs (display.rs display_loop).
THEOREM FollowsBus == Spec => []DisplayFollowsBus
BY InitInv, NextInv, InvFollows, PTL DEF Spec

=============================================================================

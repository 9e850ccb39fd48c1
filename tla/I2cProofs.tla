------------------------------ MODULE I2cProofs ------------------------------
(***************************************************************************)
(* Theorems about I2cTarget.tla, for every number of requests and every    *)
(* frame size.                                                             *)
(*                                                                         *)
(* The argument orders everything by the identifiers the controller gives  *)
(* out: what is pending is later than what was read, what was read is      *)
(* later than what was executed (OrderInv).  While the controller waits,   *)
(* the latest request is either pending or the one being served, and a     *)
(* response can only be staged for it when nothing else is (ExchangeInv).  *)
(***************************************************************************)
EXTENDS I2cTarget, TLAPS

-----------------------------------------------------------------------------
(* The inductive invariant *)

Executed == {executed[i] : i \in DOMAIN executed}

TypeInv ==
  /\ pc \in {"starting", "looping", "dispatching", "queueing", "leaving",
             "exited"}
  /\ stop \in BOOLEAN /\ dirty \in BOOLEAN /\ healthy \in BOOLEAN
  /\ result \in {"Ok", "Error"}
  /\ current \in Requests \cup {Nothing}
  /\ pending \in Requests \cup {Nothing}
  /\ asked \in Requests \cup {Nothing}
  /\ response \in [id : 0..MaxRequests, length : Lengths \cup {0}]
  /\ target \in Targets
  /\ executed \in Seq(Nat) /\ staged \in Seq(Nat)
  /\ received \in Nat /\ taken \in Nat
  /\ controller \in {"closed", "recovering", "open", "waiting"}

\* Identifiers grow from what was executed over what was read and what is
\* pending to what the controller asked last.
OrderInv ==
  /\ received <= asked.id /\ taken <= received
  /\ pending = Nothing <=> taken = received
  /\ current.id <= asked.id /\ pending.id <= asked.id
  /\ pending # Nothing => current.id < pending.id
  /\ \A i \in DOMAIN executed : i <= executed[i] /\ executed[i] <= current.id
  /\ \A i, j \in DOMAIN executed : i < j => executed[i] < executed[j]
  /\ \A i \in DOMAIN staged : staged[i] <= current.id

\* The request in the frontend's hands.
ServiceInv ==
  /\ pc \notin {"starting", "exited"} => ValidTarget
  /\ pc = "dispatching" =>
       current # Nothing /\ \A i \in DOMAIN executed : executed[i] < current.id
  /\ pc = "queueing" =>
       /\ current # Nothing
       /\ response.id = current.id /\ response.length \in Lengths
       /\ response.id \in Executed <=> ~IsRecovery(current)

Expecting == controller \in {"recovering", "waiting"}

ExchangeInv ==
  /\ Expecting => \/ pending = asked
                  \/ pending = Nothing /\ current = asked
  /\ controller = "recovering" => IsRecovery(asked)
  /\ controller = "waiting" => ~IsRecovery(asked) /\ asked # Nothing
  /\ controller = "open" =>
       /\ staged = << >> /\ pending = Nothing
       /\ pc \notin {"dispatching", "queueing"}
  /\ Len(staged) <= 1
  /\ pending # Nothing /\ ~IsRecovery(pending) => staged = << >>
  /\ pc = "dispatching" /\ ~IsRecovery(current) /\ pending = Nothing =>
       staged = << >>
  /\ pc = "queueing" /\ pending = Nothing => staged = << >>
  /\ Expecting /\ staged # << >> /\ staged[1] = asked.id =>
       pending = Nothing /\ pc \notin {"dispatching", "queueing"}
  /\ controller = "waiting" /\ staged # << >> =>
       staged[1] = asked.id /\ asked.id \in Executed
  /\ \A answer \in answers : answer[1] = answer[2] /\ answer[1] \in Executed

Inv == TypeInv /\ OrderInv /\ ServiceInv /\ ExchangeInv

\* What the theorems are about beside the state of the two loops.
Matters == <<current, response, executed, target, pending, received, taken,
             staged, asked, answers>>

\* A step that only moves the frontend out of a request, or the controller
\* out of an exchange.
Withdraws ==
  /\ UNCHANGED Matters
  /\ controller' \in {controller, "closed"}
  /\ \/ pc' = pc
     \/ pc' = "exited"
     \/ pc' \in {"looping", "leaving"} /\ ValidTarget

-----------------------------------------------------------------------------
(* Types *)

LEMMA ConstantFacts ==
  /\ ControlLength \in Nat /\ MaxFrameLength \in Nat /\ MaxRequests \in Nat
  /\ \A length \in Lengths : length \in Nat /\ length <= MaxFrameLength
  /\ ControlLength \in Lengths
  /\ \A request \in Requests \cup {Nothing} :
       /\ request.id \in Nat /\ request.id <= MaxRequests
       /\ request.length \in Lengths \cup {0}
       /\ request # Nothing => request.id > 0 /\ request.length \in Lengths
BY TargetAssumption DEF TargetAssumption, Lengths, Requests, Nothing

\* A new request is later than what the controller asked before.
LEMMA NewRequest ==
  ASSUME TypeInv, Token <= MaxRequests, NEW prefix \in BOOLEAN,
         NEW length \in Lengths
  PROVE  /\ [id |-> Token, prefix |-> prefix, length |-> length] \in Requests
         /\ asked.id \in Nat /\ Token = asked.id + 1
<1>1. asked.id \in Nat /\ asked.id + 1 \in Nat
  BY ConstantFacts DEF TypeInv
<1>2. MaxRequests \in Nat
  BY ConstantFacts
<1>3. Token \in 1..MaxRequests
  BY <1>1, <1>2 DEF Token
<1> QED  BY <1>1, <1>3 DEF Requests, Token

LEMMA TypeStep ==
  ASSUME TypeInv, [Next]_vars
  PROVE  TypeInv'
<1> USE DEF frontendVars, deviceVars, driverVars, controllerVars
<1>1. CASE Start \/ Leave \/ ReadFails \/ QueueFails \/ Exit \/ Signal \/ Persist
  BY <1>1 DEF TypeInv, Start, Leave, ReadFails, QueueFails, Exit, Signal,
     Persist, Fail
<1>2. CASE Read
  BY <1>2 DEF TypeInv, Read
<1>3. CASE Recover
  <2>1. \/ response' = response
        \/ response' = [id |-> current.id, length |-> current.length]
    BY <1>3 DEF Recover
  <2>2. /\ current.id \in 0..MaxRequests
        /\ current.length \in Lengths \cup {0}
    BY ConstantFacts DEF TypeInv
  <2>3. response' \in [id : 0..MaxRequests, length : Lengths \cup {0}]
    BY <2>1, <2>2 DEF TypeInv
  <2>4. staged' \in Seq(Nat)
    <3>1. staged' = staged \/ staged' = << >>
      BY <1>3 DEF Recover, ClearsStaged
    <3>2. << >> \in Seq(Nat) /\ staged \in Seq(Nat)
      BY DEF TypeInv
    <3> QED  BY <3>1, <3>2, Zenon
  <2>5. pc' \in {"looping", "queueing", "leaving"} /\ result' \in {"Ok", "Error"}
    BY <1>3 DEF Recover, Confirming, Fail, TypeInv
  <2>6. UNCHANGED <<stop, current, deviceVars, target, pending, received, taken,
                    controllerVars>>
    BY <1>3 DEF Recover
  <2> QED  BY <2>3, <2>4, <2>5, <2>6 DEF TypeInv
<1>4. ASSUME NEW length \in Lengths, NEW changes \in BOOLEAN,
             Execute(length, changes)
      PROVE  TypeInv'
  <2>1. current.id \in Nat /\ current.id \in 0..MaxRequests
    BY ConstantFacts DEF TypeInv
  <2>2. CASE healthy
    <3>1. /\ executed' = Append(executed, current.id)
          /\ dirty' = (dirty \/ changes)
          /\ response' = [id |-> current.id, length |-> length]
          /\ pc' = "queueing"
          /\ UNCHANGED <<stop, result, current, healthy, driverVars,
                         controllerVars>>
      BY <1>4, <2>2 DEF Execute
    <3>2. executed' \in Seq(Nat)
      BY <2>1, <3>1 DEF TypeInv
    <3>3. response' \in [id : 0..MaxRequests, length : Lengths \cup {0}]
      BY <2>1, <3>1
    <3>4. dirty' \in BOOLEAN
      BY <3>1
    <3> QED  BY <3>1, <3>2, <3>3, <3>4 DEF TypeInv
  <2>3. CASE ~healthy
    BY <1>4, <2>3 DEF Execute, Fail, TypeInv
  <2> QED  BY <2>2, <2>3
<1>5. CASE QueueResponse
  <2>1. response.id \in Nat
    BY ConstantFacts DEF TypeInv
  <2>2. staged' \in Seq(Nat)
    BY <1>5, <2>1 DEF QueueResponse, TypeInv
  <2> QED  BY <1>5, <2>2 DEF QueueResponse, Continues, TypeInv
<1>6. ASSUME NEW request \in Requests, NEW state \in {"recovering", "waiting"},
             Send(request, state)
      PROVE  TypeInv'
  BY <1>6 DEF Send, TypeInv
<1>7. CASE SendRecovery
  BY <1>6, <1>7, NewRequest, ConstantFacts DEF SendRecovery
<1>8. ASSUME NEW prefix \in BOOLEAN, NEW length \in Lengths,
             SendCommand(prefix, length)
      PROVE  TypeInv'
  BY <1>6, <1>8, NewRequest DEF SendCommand
<1>9. CASE ReadResponse
  BY <1>9 DEF ReadResponse, TypeInv
<1>10. CASE GiveUp
  BY <1>10 DEF GiveUp, TypeInv
<1>11. CASE UNCHANGED vars
  BY <1>11 DEF vars, TypeInv
<1> QED  BY <1>1, <1>2, <1>3, <1>4, <1>5, <1>7, <1>8, <1>9, <1>10, <1>11
         DEF Next, Frontend, Failures, Controller

-----------------------------------------------------------------------------
(* The steps of the frontend *)

\* Withdrawing gives up nothing that was promised.
LEMMA WithdrawKeeps ==
  ASSUME Inv, Withdraws
  PROVE  OrderInv' /\ ServiceInv' /\ ExchangeInv'
<1> USE DEF Inv, Withdraws, Matters
<1>1. OrderInv'
  BY DEF OrderInv
<1>2. ServiceInv'
  BY DEF ServiceInv, ValidTarget, Executed, IsRecovery
<1>3. ExchangeInv'
  BY DEF ExchangeInv, Expecting, Executed, IsRecovery
<1> QED  BY <1>1, <1>2, <1>3

\* Reading moves the pending request into the frontend's hands.
LEMMA ReadKeeps ==
  ASSUME Inv, Read
  PROVE  OrderInv' /\ ServiceInv' /\ ExchangeInv'
<1> USE DEF frontendVars, deviceVars, driverVars, controllerVars
<1>1. /\ current.id \in Nat /\ pending.id \in Nat /\ asked.id \in Nat
      /\ executed \in Seq(Nat) /\ staged \in Seq(Nat)
      /\ received \in Nat /\ taken \in Nat
  BY ConstantFacts DEF Inv, TypeInv
<1>2. /\ pc = "looping" /\ pc' = "dispatching"
      /\ pending # Nothing /\ current' = pending /\ pending' = Nothing
      /\ taken' = received
      /\ UNCHANGED <<executed, received, staged, target, response, controller,
                     asked, answers>>
  BY DEF Read
<1>3. Nothing.id = 0
  BY DEF Nothing
<1>4. \A i \in DOMAIN executed : executed[i] \in Nat /\ i \in Nat
  BY <1>1
<1>5. \A i \in DOMAIN staged : staged[i] \in Nat
  BY <1>1
<1>6. OrderInv'
  BY <1>1, <1>2, <1>3, <1>4, <1>5 DEF Inv, OrderInv
<1>7. ServiceInv'
  BY <1>1, <1>2, <1>4 DEF Inv, OrderInv, ServiceInv, ValidTarget
<1>8. ExchangeInv'
  <2>1. pending # asked \/ ~(Expecting /\ staged # << >> /\ staged[1] = asked.id)
    BY <1>2 DEF Inv, ExchangeInv
  <2> QED  BY <1>2, <2>1 DEF Inv, ExchangeInv, Expecting, Executed, IsRecovery
<1> QED  BY <1>6, <1>7, <1>8

\* A recovery clears what is staged, or finds a newer request.
LEMMA RecoverKeeps ==
  ASSUME Inv, Recover
  PROVE  OrderInv' /\ ServiceInv' /\ ExchangeInv'
<1> USE DEF frontendVars, deviceVars, driverVars, controllerVars
<1>1. CASE UNCHANGED <<response, staged>> /\ pc' \in {"looping", "leaving"}
  <2>1. Withdraws
    BY <1>1 DEF Recover, Withdraws, Matters, Inv, ServiceInv
  <2> QED  BY <2>1, WithdrawKeeps
<1>2. CASE /\ pending = Nothing /\ staged' = << >> /\ pc' = "queueing"
           /\ response' = [id |-> current.id, length |-> current.length]
  <2>1. /\ pc = "dispatching" /\ IsRecovery(current)
        /\ UNCHANGED <<current, executed, target, pending, received, taken,
                       controller, asked, answers>>
    BY DEF Recover
  <2>2. /\ current # Nothing /\ current.id \in Nat
        /\ \A i \in DOMAIN executed : executed[i] \in Nat
        /\ \A i \in DOMAIN executed : executed[i] < current.id
        /\ current.length \in Lengths
    BY <2>1, ConstantFacts DEF Inv, ServiceInv, TypeInv
  <2>3. OrderInv'
    BY <1>2, <2>1 DEF Inv, OrderInv
  <2>4. current.id \notin Executed
    BY <2>2 DEF Executed
  <2>5. ServiceInv'
    BY <1>2, <2>1, <2>2, <2>4 DEF Inv, ServiceInv, ValidTarget, Executed,
       IsRecovery
  <2>6. ExchangeInv'
    <3>1. Len(<< >>) = 0
      OBVIOUS
    <3> QED  BY <1>2, <2>1, <3>1 DEF Inv, ExchangeInv, Expecting, Executed,
             IsRecovery
  <2> QED  BY <2>3, <2>5, <2>6
<1> QED  BY <1>1, <1>2 DEF Recover, Fail, Confirming, ClearsStaged

\* A command is executed after everything executed before it.
LEMMA ExecuteKeeps ==
  ASSUME Inv, NEW length \in Lengths, NEW changes \in BOOLEAN,
         Execute(length, changes)
  PROVE  OrderInv' /\ ServiceInv' /\ ExchangeInv'
<1> USE DEF frontendVars, deviceVars, driverVars, controllerVars
<1>1. CASE ~healthy
  <2>1. Withdraws
    BY <1>1 DEF Execute, Fail, Withdraws, Matters, Inv, ServiceInv
  <2> QED  BY <2>1, WithdrawKeeps
<1>2. CASE healthy
  <2>1. /\ pc = "dispatching" /\ pc' = "queueing" /\ ~IsRecovery(current)
        /\ executed' = Append(executed, current.id)
        /\ response' = [id |-> current.id, length |-> length]
        /\ UNCHANGED <<current, target, pending, received, taken, staged,
                       controller, asked, answers>>
    BY <1>2 DEF Execute
  <2>2. /\ current # Nothing /\ current.id \in Nat /\ current.id > 0
        /\ \A i \in DOMAIN executed : executed[i] < current.id
        /\ executed \in Seq(Nat) /\ Len(executed) \in Nat
    BY <2>1, ConstantFacts DEF Inv, ServiceInv, TypeInv
  <2>3. /\ DOMAIN executed = 1..Len(executed)
        /\ DOMAIN executed' = 1 .. Len(executed) + 1
        /\ \A i \in 1..Len(executed) :
             executed'[i] = executed[i] /\ executed[i] \in Nat
        /\ executed'[Len(executed) + 1] = current.id
    BY <2>1, <2>2
  <2>4. Executed' = Executed \cup {current.id}
    BY <2>3 DEF Executed
  <2>5. Len(executed) < current.id
    <3>1. Len(executed) = 0 \/ Len(executed) \in DOMAIN executed
      BY <2>2, <2>3
    <3>2. CASE Len(executed) \in DOMAIN executed
      <4>1. Len(executed) <= executed[Len(executed)]
        BY <3>2 DEF Inv, OrderInv
      <4> QED  BY <2>2, <2>3, <3>2, <4>1
    <3> QED  BY <2>2, <3>1, <3>2
  <2>6. \A i \in DOMAIN executed' :
          i <= executed'[i] /\ executed'[i] <= current.id
    BY <2>2, <2>3, <2>5 DEF Inv, OrderInv
  <2>7. \A i, j \in DOMAIN executed' : i < j => executed'[i] < executed'[j]
    <3>1. \A i, j \in 1..Len(executed) : i < j => executed[i] < executed[j]
      BY <2>3 DEF Inv, OrderInv
    <3> QED  BY <2>2, <2>3, <3>1
  <2>8. OrderInv'
    BY <2>1, <2>6, <2>7 DEF Inv, OrderInv
  <2>9. ServiceInv'
    BY <2>1, <2>2, <2>4 DEF Inv, ServiceInv, ValidTarget, IsRecovery
  <2>10. ExchangeInv'
    BY <2>1, <2>4 DEF Inv, ExchangeInv, Expecting, IsRecovery
  <2> QED  BY <2>8, <2>9, <2>10
<1> QED  BY <1>1, <1>2

\* The response of the latest request is staged alone, any other is dropped.
LEMMA QueueKeeps ==
  ASSUME Inv, QueueResponse
  PROVE  OrderInv' /\ ServiceInv' /\ ExchangeInv'
<1> USE DEF frontendVars, deviceVars, driverVars, controllerVars
<1>1. /\ pc = "queueing" /\ pc' = "looping"
      /\ UNCHANGED <<current, response, executed, target, pending, received,
                     taken, controller, asked, answers>>
  BY DEF QueueResponse, Continues
<1>2. CASE pending # Nothing
  <2>1. staged' = staged
    BY <1>2 DEF QueueResponse, Publishes, Inv, OrderInv
  <2>2. Withdraws
    BY <1>1, <2>1 DEF Withdraws, Matters, Inv, ServiceInv
  <2> QED  BY <2>2, WithdrawKeeps
<1>3. CASE pending = Nothing
  <2>1. staged = << >> /\ staged' = Append(staged, response.id)
    BY <1>1, <1>3 DEF QueueResponse, Publishes, Inv, OrderInv, ExchangeInv
  <2>2. response.id = current.id /\ current.id \in Nat
    BY <1>1, ConstantFacts DEF Inv, ServiceInv, TypeInv
  <2>3. /\ staged' # << >> /\ staged'[1] = current.id
        /\ Len(staged') = 1 /\ DOMAIN staged' = {1}
    BY <2>1, <2>2
  <2>4. OrderInv'
    BY <1>1, <2>2, <2>3 DEF Inv, OrderInv
  <2>5. ServiceInv'
    BY <1>1 DEF Inv, ServiceInv, ValidTarget
  <2>6. controller = "open" => FALSE
    BY <1>1 DEF Inv, ExchangeInv
  <2>7. controller = "waiting" =>
          current = asked /\ current.id \in Executed
    BY <1>1, <1>3 DEF Inv, ExchangeInv, ServiceInv, Expecting
  <2>8. ExchangeInv'
    BY <1>1, <1>3, <2>3, <2>6, <2>7 DEF Inv, ExchangeInv, Expecting, Executed,
       IsRecovery
  <2> QED  BY <2>4, <2>5, <2>8
<1> QED  BY <1>2, <1>3

-----------------------------------------------------------------------------
(* The steps of the controller *)

\* A request is later than everything before it, and a command is sent only
\* when nothing is staged and nothing is in the frontend's hands.
LEMMA SendKeeps ==
  ASSUME Inv, NEW request \in Requests, request.id = asked.id + 1,
         NEW state, Send(request, state),
         \/ state = "recovering" /\ IsRecovery(request)
         \/ state = "waiting" /\ controller = "open" /\ ~IsRecovery(request)
  PROVE  OrderInv' /\ ServiceInv' /\ ExchangeInv'
<1> USE DEF frontendVars, deviceVars, driverVars, controllerVars
<1>1. /\ current.id \in Nat /\ pending.id \in Nat /\ asked.id \in Nat
      /\ received \in Nat /\ taken \in Nat
      /\ request # Nothing
  BY ConstantFacts DEF Inv, TypeInv, Requests, Nothing
<1>2. /\ asked' = request
      /\ \/ controller' = state /\ pending' = request /\ received' = received + 1
         \/ controller' = "closed" /\ UNCHANGED <<pending, received>>
      /\ UNCHANGED <<pc, current, response, executed, target, taken, staged,
                     answers>>
  BY DEF Send
<1>3. OrderInv'
  <2>1. asked'.id = asked.id + 1
    BY <1>2
  <2> QED  BY <1>1, <1>2, <2>1 DEF Inv, OrderInv
<1>4. ServiceInv'
  BY <1>2 DEF Inv, ServiceInv, ValidTarget, Executed, IsRecovery
<1>5. ExchangeInv'
  <2>1. CASE controller' = "closed" /\ UNCHANGED <<pending, received>>
    BY <1>2, <2>1 DEF Inv, ExchangeInv, Expecting, Executed, IsRecovery
  <2>2. CASE controller' = state /\ pending' = request
    <3>1. staged # << >> => staged[1] # request.id
      <4>1. \A i \in DOMAIN staged : staged[i] \in Nat /\ staged[i] <= current.id
        BY DEF Inv, TypeInv, OrderInv
      <4>2. staged # << >> => 1 \in DOMAIN staged
        BY DEF Inv, TypeInv
      <4>3. current.id <= asked.id
        BY DEF Inv, OrderInv
      <4> QED  BY <1>1, <4>1, <4>2, <4>3
    <3>2. state = "waiting" => staged = << >>
      BY DEF Inv, ExchangeInv
    <3> QED  BY <1>1, <1>2, <2>2, <3>1, <3>2 DEF Inv, ExchangeInv, Expecting,
             Executed, IsRecovery
  <2> QED  BY <1>2, <2>1, <2>2
<1> QED  BY <1>3, <1>4, <1>5

\* A response that a waiting controller reads is the one to its request.
LEMMA ReadResponseKeeps ==
  ASSUME Inv, ReadResponse
  PROVE  OrderInv' /\ ServiceInv' /\ ExchangeInv'
<1> USE DEF frontendVars, deviceVars, driverVars, controllerVars
<1>1. /\ staged # << >> /\ staged' = Tail(staged)
      /\ UNCHANGED <<pc, current, response, executed, target, pending, received,
                     taken, asked>>
  BY DEF ReadResponse
<1>2. /\ Head(staged) = staged[1] /\ staged' = << >>
      /\ DOMAIN staged' = {} /\ Len(staged') = 0
  <2>1. staged \in Seq(Nat) /\ Len(staged) <= 1
    BY DEF Inv, TypeInv, ExchangeInv
  <2>2. Len(staged) = 1
    <3>1. Len(staged) \in Nat /\ (Len(staged) = 0 => staged = << >>)
      BY <2>1
    <3>2. Len(staged) # 0
      BY <1>1, <3>1, Zenon
    <3>3. \A n \in Nat : n # 0 /\ n <= 1 => n = 1
      OBVIOUS
    <3> QED  BY <2>1, <3>1, <3>2, <3>3, Zenon
  <2> QED  BY <1>1, <2>1, <2>2
<1>3. OrderInv'
  BY <1>1, <1>2 DEF Inv, OrderInv
<1>4. ServiceInv'
  BY <1>1 DEF Inv, ServiceInv, ValidTarget, Executed, IsRecovery
<1>5. ExchangeInv'
  <2>1. CASE /\ controller = "recovering" /\ answers' = answers
             /\ controller' = IF Head(staged) = asked.id THEN "open" ELSE "closed"
    BY <1>1, <1>2, <2>1 DEF Inv, ExchangeInv, Expecting, Executed, IsRecovery
  <2>2. CASE /\ controller = "waiting" /\ controller' = "open"
             /\ answers' = answers \cup {<<asked.id, Head(staged)>>}
    <3>1. Head(staged) = asked.id /\ asked.id \in Executed
      BY <1>1, <1>2, <2>2 DEF Inv, ExchangeInv
    <3>2. /\ pending = Nothing /\ pc \notin {"dispatching", "queueing"}
      BY <1>1, <1>2, <2>2, <3>1 DEF Inv, ExchangeInv, Expecting
    <3>3. \A answer \in answers' :
            answer[1] = answer[2] /\ answer[1] \in Executed
      BY <2>2, <3>1 DEF Inv, ExchangeInv
    <3>4. Executed' = Executed
      BY <1>1 DEF Executed
    <3> QED  BY <1>1, <1>2, <2>2, <3>2, <3>3, <3>4 DEF Inv, ExchangeInv,
             Expecting
  <2> QED  BY <2>1, <2>2 DEF ReadResponse
<1> QED  BY <1>3, <1>4, <1>5

-----------------------------------------------------------------------------
(* The theorems *)

LEMMA NextKeepsInv ==
  ASSUME Inv, [Next]_vars
  PROVE  Inv'
<1> USE DEF frontendVars, deviceVars, driverVars, controllerVars
<1>1. TypeInv'
  BY TypeStep DEF Inv
<1> SUFFICES OrderInv' /\ ServiceInv' /\ ExchangeInv'
  BY <1>1 DEF Inv
<1>2. CASE Withdraws
  BY <1>2, WithdrawKeeps
<1>3. ServiceInv
  BY DEF Inv
<1>4. CASE Start \/ Leave \/ ReadFails \/ QueueFails
  BY <1>2, <1>3, <1>4 DEF Start, Leave, ReadFails, QueueFails, Fail, Withdraws,
     Matters, ServiceInv
<1>5. CASE Exit \/ Signal \/ Persist \/ GiveUp
  BY <1>2, <1>5 DEF Exit, Signal, Persist, GiveUp, Withdraws, Matters
<1>6. CASE SendRecovery
  <2> DEFINE request == [id |-> Token, prefix |-> TRUE, length |-> ControlLength]
  <2>1. request \in Requests /\ Token = asked.id + 1
    BY <1>6, NewRequest, ConstantFacts DEF SendRecovery, Inv
  <2>2. request.id = asked.id + 1 /\ IsRecovery(request)
    BY <2>1 DEF IsRecovery
  <2>3. Send(request, "recovering")
    BY <1>6 DEF SendRecovery
  <2> HIDE DEF request
  <2> QED  BY <2>1, <2>2, <2>3, SendKeeps
<1>7. ASSUME NEW prefix \in BOOLEAN, NEW length \in Lengths,
             SendCommand(prefix, length)
      PROVE  OrderInv' /\ ServiceInv' /\ ExchangeInv'
  <2> DEFINE request == [id |-> Token, prefix |-> prefix, length |-> length]
  <2>1. request \in Requests /\ Token = asked.id + 1
    BY <1>7, NewRequest DEF SendCommand, Inv
  <2>2. request.id = asked.id + 1 /\ ~IsRecovery(request)
    BY <1>7, <2>1 DEF IsRecovery, SendCommand
  <2>3. Send(request, "waiting") /\ controller = "open"
    BY <1>7 DEF SendCommand
  <2> HIDE DEF request
  <2> QED  BY <2>1, <2>2, <2>3, SendKeeps
<1>8. CASE UNCHANGED vars
  BY <1>2, <1>8 DEF vars, Withdraws, Matters
<1> QED  BY <1>4, <1>5, <1>6, <1>7, <1>8, ReadKeeps, RecoverKeeps,
            ExecuteKeeps, QueueKeeps, ReadResponseKeeps
         DEF Next, Frontend, Failures, Controller

LEMMA InvHolds == Spec => []Inv
<1>1. Init => Inv
  <2> SUFFICES ASSUME Init
               PROVE  Inv
    OBVIOUS
  <2>1. /\ pc = "starting" /\ current = Nothing /\ pending = Nothing
        /\ asked = Nothing /\ executed = << >> /\ staged = << >>
        /\ received = 0 /\ taken = 0 /\ controller = "closed" /\ answers = {}
    BY DEF Init
  <2>2. Nothing.id = 0 /\ 0 \in 0..MaxRequests
    BY ConstantFacts DEF Nothing
  <2>3. response \in [id : 0..MaxRequests, length : Lengths \cup {0}]
    BY <2>2 DEF Init, NoResponse
  <2>4. TypeInv
    <3>1. stop = FALSE /\ dirty = FALSE /\ healthy = TRUE /\ result = "Ok"
          /\ target \in Targets
      BY DEF Init
    <3>2. stop \in BOOLEAN /\ dirty \in BOOLEAN /\ healthy \in BOOLEAN
      BY <3>1
    <3>3. executed \in Seq(Nat) /\ staged \in Seq(Nat)
          /\ received \in Nat /\ taken \in Nat
      BY <2>1
    <3> QED  BY <2>1, <2>3, <3>1, <3>2, <3>3, Zenon DEF TypeInv
  <2>5. OrderInv
    BY <2>1, <2>2 DEF OrderInv
  <2>6. ServiceInv
    BY <2>1 DEF ServiceInv
  <2>7. ExchangeInv
    BY <2>1 DEF ExchangeInv, Expecting
  <2> QED  BY <2>4, <2>5, <2>6, <2>7 DEF Inv
<1> QED  BY <1>1, NextKeepsInv, PTL DEF Spec

\* A command that the controller sends after a recovery gets its own response,
\* whatever was given up, lost, superseded or left staged before (serve and
\* the driver's rule that only the latest request is answered).
THEOREM AnswersAreOwn == Spec => []AnswersMatch
<1>1. Inv => AnswersMatch
  BY DEF Inv, ExchangeInv, AnswersMatch
<1> QED  BY <1>1, InvHolds, PTL

\* Commands are executed in the order they were sent and at most once, a
\* recovery request never is, what was answered was executed, and what is
\* queued fits the target (serve, recovery::response, validate_target_info).
THEOREM ExecutesAsSent == Spec => []ExecutedAsSent
<1>1. Inv => ExecutedAsSent
  <2> SUFFICES ASSUME Inv
               PROVE  ExecutedAsSent
    OBVIOUS
  <2>0. /\ MaxRequests \in Nat /\ MaxFrameLength \in Nat
        /\ current.id \in Nat /\ current.id <= MaxRequests
        /\ asked.id \in Nat /\ asked.id <= MaxRequests
        /\ received \in Nat /\ taken \in Nat
    BY ConstantFacts DEF Inv, TypeInv
  <2>1. Len(executed) <= MaxRequests
    <3>1. executed \in Seq(Nat) /\ Len(executed) \in Nat
      BY DEF Inv, TypeInv
    <3>2. \A i \in DOMAIN executed : i <= executed[i] /\ executed[i] <= current.id
      BY DEF Inv, OrderInv
    <3>3. Len(executed) = 0 \/ Len(executed) \in DOMAIN executed
      BY <3>1
    <3>4. \A i \in DOMAIN executed : executed[i] \in Nat
      BY <3>1
    <3> QED  BY <2>0, <3>1, <3>2, <3>3, <3>4
  <2>2. received \in 0..MaxRequests /\ taken \in 0..received
    BY <2>0 DEF Inv, OrderInv
  <2>3. TypeOK
    BY <2>1, <2>2 DEF TypeOK, Inv, TypeInv, ExchangeInv
  <2>4. pc = "queueing" => Fits
    <3> SUFFICES ASSUME pc = "queueing"
                 PROVE  Fits
      OBVIOUS
    <3>1. response.length \in Nat /\ response.length <= MaxFrameLength
      BY ConstantFacts DEF Inv, ServiceInv
    <3>2. target.transfer \in Nat /\ target.transfer >= MaxFrameLength
      BY TargetAssumption DEF TargetAssumption, Inv, ServiceInv, ValidTarget,
         TypeInv, Targets
    <3> QED  BY <2>0, <3>1, <3>2 DEF Fits
  <2>5. \A i, j \in DOMAIN executed : i < j => executed[i] < executed[j]
    BY DEF Inv, OrderInv
  <2>6. pc = "queueing" =>
          (response.id \in {executed[i] : i \in DOMAIN executed})
            = ~(current.prefix /\ current.length = ControlLength)
    BY DEF Inv, ServiceInv, Executed, IsRecovery
  <2>7. \A answer \in answers : \E i \in DOMAIN executed : executed[i] = answer[1]
    BY DEF Inv, ExchangeInv, Executed
  <2> QED  BY <2>3, <2>4, <2>5, <2>6, <2>7 DEF ExecutedAsSent
<1> QED  BY <1>1, InvHolds, PTL

=============================================================================

---------------------------- MODULE CommandOrder ----------------------------
(***************************************************************************)
(* What a secure session promises its host: the commands it submits are    *)
(* executed at most once and in the order of submission, and an answer it  *)
(* accepts is the answer to the command it is waiting for.  Nothing is     *)
(* promised about how far a session gets: it may end at any time.          *)
(***************************************************************************)
EXTENDS Naturals, Sequences

CONSTANTS Hosts, MaxCommands

VARIABLES
  submitted,   \* how many commands each host has sent, numbered from 1
  executed,    \* the commands the device executed for it, in order
  answered     \* the commands whose answers the host accepted, in order

Init ==
  /\ submitted = [h \in Hosts |-> 0]
  /\ executed = [h \in Hosts |-> << >>]
  /\ answered = [h \in Hosts |-> << >>]

Submit(h) ==
  /\ submitted[h] = Len(answered[h])
  /\ submitted[h] < MaxCommands
  /\ submitted' = [submitted EXCEPT ![h] = @ + 1]
  /\ UNCHANGED <<executed, answered>>

Execute(h) ==
  /\ Len(executed[h]) < submitted[h]
  /\ executed' = [executed EXCEPT ![h] = Append(@, Len(@) + 1)]
  /\ UNCHANGED <<submitted, answered>>

Answer(h) ==
  /\ Len(answered[h]) < Len(executed[h])
  /\ answered' = [answered EXCEPT ![h] = Append(@, Len(@) + 1)]
  /\ UNCHANGED <<submitted, executed>>

Next == \E h \in Hosts : Submit(h) \/ Execute(h) \/ Answer(h)

Spec == Init /\ [][Next]_<<submitted, executed, answered>>

=============================================================================

--------------------------- MODULE ChannelProofs ---------------------------
(***************************************************************************)
(* Proofs about SecureChannel.tla, for any number of hosts, sessions,      *)
(* handshakes and commands: SessionsInStep, and that the channel implements*)
(* CommandOrder.tla over a transport that loses, reorders and repeats.     *)
(*                                                                         *)
(* The proofs rest on one observation.  A session absorbs 0 (the host      *)
(* cryptogram of a symmetric handshake), 1, 2, ... in this order, and its  *)
(* counter is always the number it absorbs next; so counter and keys say   *)
(* everything about a session, a frame or an answer.                       *)
(***************************************************************************)
EXTENDS SecureChannel, FiniteSetTheorems, SequenceTheorems, TLAPS

-----------------------------------------------------------------------------
(* The inductive invariant *)

\* A symmetric session starts its chain with the host cryptogram.
First(h) == IF h \in Asymmetric THEN 1 ELSE 0

\* The chain that has absorbed everything before number c.
Upto(h, c) == [i \in 1 .. c - First(h) |-> i - 1 + First(h)]

Count(n) == [i \in 1..n |-> i]

Carries(m) == m.type \in {"auth", "message"}

Message(h, m, n) == m.type = "message" /\ m.from = h /\ m.command = n

\* Host h has sent command n.
Sent(h, n) == \E m \in requests : Message(h, m, n)

\* The keys of the one session a host ever opens.
Uses(h, key) ==
  \/ Live(h) /\ host[h].key = key
  \/ \E m \in requests : Carries(m) /\ m.from = h /\ m.key = key

HostStates ==
  [state : {"idle", "creating", "done"}]
    \cup [ state : {"authenticating", "open", "waiting", "closing", "done"},
           sid : Sids, key : Keys, chain : Seq(Nat), counter : Nat ]

\* Histories count from 1, and whatever was executed or answered was sent.
HistoryInv ==
  /\ host \in [Hosts -> HostStates]
  /\ handshakes \in 0..MaxHandshakes
  /\ DOMAIN executed = Hosts /\ DOMAIN answered = Hosts
  /\ \A h \in Hosts :
       /\ Len(executed[h]) \in 0..MaxCommands
       /\ executed[h] = Count(Len(executed[h]))
       /\ Len(answered[h]) \in 0..MaxCommands
       /\ answered[h] = Count(Len(answered[h]))
       /\ \A n \in 1..Len(executed[h]) : Sent(h, n)
       /\ \A n \in 1..Len(answered[h]) : Sent(h, n)

SessionEntry ==
  [key : Keys, authenticated : BOOLEAN, chain : Seq(Nat), counter : Nat]

\* Every session has keys of its own.
EntryInv ==
  /\ DOMAIN sessions \subseteq Sids
  /\ \A sid \in DOMAIN sessions :
       LET entry == sessions[sid] IN
       /\ entry \in SessionEntry
       /\ entry.key[2] <= handshakes
       /\ entry.counter \in First(entry.key[1]) .. MaxCommands + 1
       /\ entry.chain = Upto(entry.key[1], entry.counter)
       /\ entry.authenticated <=> entry.counter # 0
       /\ entry.counter # First(entry.key[1]) =>
            \E m \in requests : Carries(m) /\ m.key = entry.key
  /\ \A s, t \in DOMAIN sessions : sessions[s].key = sessions[t].key => s = t

\* A host sends one command after the other.
RequestInv ==
  /\ \A m \in requests : m.from \in Hosts /\ m.type \in {"create", "auth", "message"}
  /\ \A m \in requests : Carries(m) =>
       /\ m.key \in Keys /\ m.key[1] = m.from /\ m.key[2] <= handshakes
       /\ Live(m.from) => m.key = host[m.from].key
       /\ host[m.from].state \notin {"idle", "creating"}
  /\ \A m, n \in requests :
       Carries(m) /\ Carries(n) /\ m.from = n.from => m.key = n.key
  /\ \A m \in requests : m.type = "auth" =>
       m.from \notin Asymmetric /\ m.chain = << >>
  /\ \A m \in requests : m.type = "message" =>
       /\ m.command \in 1..MaxCommands /\ m.counter = m.command
       /\ m.command <= Len(answered[m.from]) + 1
       /\ m.chain = Upto(m.from, m.command) /\ m.closes \in BOOLEAN
       /\ host[m.from].state # "authenticating"

\* What the device answered stays true of the session as long as it lives.
CreatedHolds(r) ==
  /\ r.key \in Keys /\ r.key[1] = r.to /\ r.key[2] <= handshakes
  /\ r.sid \in Sids
  /\ \A sid \in DOMAIN sessions : sessions[sid].key = r.key => sid = r.sid

AuthenticatedHolds(r) ==
  /\ \E m \in requests : m.type = "auth" /\ m.from = r.to
  /\ \A sid \in DOMAIN sessions :
       Uses(r.to, sessions[sid].key) => sessions[sid].counter # 0

AnswerHolds(r) ==
  /\ r.to \in Hosts /\ r.key \in Keys /\ r.key[1] = r.to /\ r.key[2] <= handshakes
  /\ r.counter \in 1..Len(executed[r.to]) /\ r.result = r.counter
  /\ r.chain = Upto(r.to, r.counter + 1)
  /\ \A sid \in DOMAIN sessions :
       sessions[sid].key = r.key => r.counter < sessions[sid].counter

ResponseInv ==
  \A r \in responses :
    /\ r.type \in {"created", "authenticated", "answer", "error"}
    /\ r.type = "created" => CreatedHolds(r)
    /\ r.type = "authenticated" => AuthenticatedHolds(r)
    /\ r.type = "answer" => AnswerHolds(r)

\* A host and the device agree up to the request under way.
HostInStep(h) ==
  /\ Live(h) =>
       /\ host[h].key[1] = h /\ host[h].key[2] <= handshakes
       /\ host[h].counter = Len(answered[h]) + 1
       /\ host[h].chain = Upto(h, IF host[h].state \in {"waiting", "closing"}
                                    THEN host[h].counter + 1 ELSE host[h].counter)
       /\ host[h].state = "authenticating" =>
            h \notin Asymmetric /\ Len(answered[h]) = 0
       /\ host[h].state \in {"waiting", "closing"} => Sent(h, Len(answered[h]) + 1)
       /\ host[h].state = "open" => ~Sent(h, Len(answered[h]) + 1)
  /\ host[h].state \in {"idle", "creating"} => Len(answered[h]) = 0
  /\ \A sid \in DOMAIN sessions :
       LET entry == sessions[sid] IN
       Live(h) /\ entry.key = host[h].key =>
         /\ sid = host[h].sid
         /\ host[h].state = "authenticating" => entry.counter \in {0, 1}
         /\ host[h].state = "open" => entry.counter = host[h].counter
         /\ host[h].state \in {"waiting", "closing"} =>
              entry.counter \in {host[h].counter, host[h].counter + 1}
  /\ \A sid \in DOMAIN sessions :
       Uses(h, sessions[sid].key) =>
         /\ sessions[sid].counter = 0 => Len(executed[h]) = 0
         /\ sessions[sid].counter # 0 => sessions[sid].counter = Len(executed[h]) + 1

StepInv == \A h \in Hosts : HostInStep(h)

Inv == HistoryInv /\ EntryInv /\ RequestInv /\ ResponseInv /\ StepInv

-----------------------------------------------------------------------------
(* Facts about chains and counts *)

LEMMA FirstTyped == ASSUME NEW h PROVE First(h) \in {0, 1} /\ First(h) \in Nat
BY DEF First

\* A chain is a sequence, and grows by the number it absorbs next.
LEMMA UptoGrows ==
  ASSUME NEW h, NEW c \in Nat, First(h) <= c
  PROVE  /\ Upto(h, c) \in Seq(Nat) /\ Len(Upto(h, c)) = c - First(h)
         /\ Append(Upto(h, c), c) = Upto(h, c + 1)
         /\ Upto(h, First(h)) = << >>
<1>1. First(h) \in {0, 1} /\ c - First(h) \in Nat
  BY FirstTyped
<1>2. Upto(h, c) \in Seq(Nat) /\ Len(Upto(h, c)) = c - First(h)
  BY <1>1 DEF Upto
<1>3. Upto(h, c + 1) \in Seq(Nat) /\ Len(Upto(h, c + 1)) = c + 1 - First(h)
  BY <1>1 DEF Upto
<1>4. Append(Upto(h, c), c) \in Seq(Nat)
      /\ Len(Append(Upto(h, c), c)) = c + 1 - First(h)
  BY <1>1, <1>2
<1>5. ASSUME NEW i \in 1 .. c + 1 - First(h)
      PROVE  Append(Upto(h, c), c)[i] = Upto(h, c + 1)[i]
  <2>1. CASE i = c + 1 - First(h)
    BY <1>1, <1>2, <2>1 DEF Upto
  <2>2. CASE i # c + 1 - First(h)
    <3>1. i \in 1 .. c - First(h)
      BY <1>1, <2>2
    <3>2. Append(Upto(h, c), c)[i] = Upto(h, c)[i]
      BY <1>1, <1>2, <3>1
    <3> QED  BY <1>1, <3>1, <3>2 DEF Upto
  <2> QED  BY <2>1, <2>2
<1>6. Append(Upto(h, c), c) = Upto(h, c + 1)
  BY <1>3, <1>4, <1>5, SeqEqual
<1>7. Upto(h, First(h)) = << >>
  BY <1>1 DEF Upto
<1> QED  BY <1>2, <1>6, <1>7

\* Chains tell counters apart, and leaving out the last number steps back.
LEMMA UptoSteps ==
  ASSUME NEW h, NEW c \in Nat, First(h) <= c
  PROVE  /\ SubSeq(Upto(h, c + 1), 1, Len(Upto(h, c + 1)) - 1) = Upto(h, c)
         /\ \A d \in Nat : First(h) <= d /\ Upto(h, c) = Upto(h, d) => c = d
<1>1. First(h) \in {0, 1} /\ c - First(h) \in Nat
  BY FirstTyped
<1>2. Upto(h, c) \in Seq(Nat) /\ Len(Upto(h, c)) = c - First(h)
  BY UptoGrows
<1>3. Upto(h, c + 1) \in Seq(Nat) /\ Len(Upto(h, c + 1)) = c + 1 - First(h)
  BY <1>1, UptoGrows
<1> DEFINE front == SubSeq(Upto(h, c + 1), 1, c - First(h))
<1>4. /\ front \in Seq(Nat) /\ Len(front) = c - First(h)
      /\ \A i \in 1 .. c - First(h) : front[i] = Upto(h, c + 1)[i]
  BY <1>1, <1>3
<1>5. \A i \in 1 .. c - First(h) : Upto(h, c + 1)[i] = Upto(h, c)[i]
  BY <1>1 DEF Upto
<1>6. front = Upto(h, c)
  <2> HIDE DEF front
  <2> QED  BY <1>2, <1>4, <1>5, SeqEqual
<1>7. Len(Upto(h, c + 1)) - 1 = c - First(h)
  BY <1>1, <1>3
<1>8. \A d \in Nat : First(h) <= d /\ Upto(h, c) = Upto(h, d) => c = d
  <2> SUFFICES ASSUME NEW d \in Nat, First(h) <= d, Upto(h, c) = Upto(h, d)
               PROVE  c = d
    OBVIOUS
  <2>1. Len(Upto(h, d)) = d - First(h)
    BY UptoGrows
  <2> QED  BY <1>1, <1>2, <2>1
<1> QED  BY <1>6, <1>7, <1>8

LEMMA CountGrows ==
  ASSUME NEW n \in Nat
  PROVE  /\ Count(n) \in Seq(1..n) /\ Len(Count(n)) = n
         /\ Append(Count(n), n + 1) = Count(n + 1)
<1>1. Count(n) \in Seq(Nat) /\ Len(Count(n)) = n /\ Count(n) \in Seq(1..n)
  BY DEF Count
<1>2. Count(n + 1) \in Seq(Nat) /\ Len(Count(n + 1)) = n + 1
  BY DEF Count
<1>3. Append(Count(n), n + 1) \in Seq(Nat) /\ Len(Append(Count(n), n + 1)) = n + 1
  BY <1>1
<1>4. ASSUME NEW i \in 1 .. n + 1
      PROVE  Append(Count(n), n + 1)[i] = Count(n + 1)[i]
  <2>1. CASE i = n + 1
    BY <1>1, <2>1 DEF Count
  <2>2. CASE i \in 1..n
    <3>1. Append(Count(n), n + 1)[i] = Count(n)[i]
      BY <1>1, <2>2
    <3> QED  BY <2>2, <3>1 DEF Count
  <2>3. i = n + 1 \/ i \in 1..n
    OBVIOUS
  <2> QED  BY <2>1, <2>2, <2>3, Zenon
<1> QED  BY <1>1, <1>2, <1>3, <1>4, SeqEqual

-----------------------------------------------------------------------------
(* Facts about one state *)

LEMMA EntryTyped ==
  ASSUME Inv, NEW sid \in DOMAIN sessions
  PROVE  /\ sid \in Sids
         /\ sessions[sid].key \in Keys /\ sessions[sid].key[1] \in Hosts
         /\ sessions[sid].key[2] \in Nat /\ sessions[sid].counter \in Nat
         /\ First(sessions[sid].key[1]) <= sessions[sid].counter
         /\ sessions[sid].key = <<sessions[sid].key[1], sessions[sid].key[2]>>
BY ChannelAssumption, FirstTyped DEF Inv, EntryInv, SessionEntry, Keys

LEMMA HostTyped ==
  ASSUME Inv, NEW h \in Hosts
  PROVE  /\ Len(answered[h]) \in Nat /\ Len(executed[h]) \in Nat
         /\ handshakes \in Nat
         /\ Live(h) => /\ host[h] \in [ state : {"authenticating", "open", "waiting", "closing"},
                            sid : Sids, key : Keys, chain : Seq(Nat), counter : Nat ]
                       /\ host[h].counter \in Nat /\ host[h].counter # 0
                       /\ First(h) <= host[h].counter
<1>1. Len(answered[h]) \in Nat /\ Len(executed[h]) \in Nat /\ handshakes \in Nat
  BY ChannelAssumption DEF Inv, HistoryInv
<1>2. ASSUME Live(h)
      PROVE  host[h] \in [ state : {"authenticating", "open", "waiting", "closing"},
                           sid : Sids, key : Keys, chain : Seq(Nat), counter : Nat ]
  <2>1. host[h] \in HostStates
    BY DEF Inv, HistoryInv
  <2> QED  BY <1>2, <2>1 DEF HostStates, Live
<1>3. Live(h) => host[h].counter = Len(answered[h]) + 1
  BY DEF Inv, StepInv, HostInStep
<1> QED  BY <1>1, <1>2, <1>3, FirstTyped

\* A host uses one session, whose keys are its own.
LEMMA UsesOne ==
  ASSUME Inv, NEW h \in Hosts, NEW key, Uses(h, key)
  PROVE  /\ key \in Keys /\ key[1] = h /\ key[2] <= handshakes
         /\ host[h].state \notin {"idle", "creating"}
         /\ \A other : Uses(h, other) => other = key
<1>1. Live(h) => /\ host[h].key \in Keys /\ host[h].key[1] = h
                 /\ host[h].key[2] <= handshakes
                 /\ host[h].state \notin {"idle", "creating"}
  BY HostTyped DEF Inv, StepInv, HostInStep, Live
<1>2. \A m \in requests : Carries(m) /\ m.from = h =>
        /\ m.key \in Keys /\ m.key[1] = h /\ m.key[2] <= handshakes
        /\ host[h].state \notin {"idle", "creating"}
        /\ Live(h) => m.key = host[h].key
  BY DEF Inv, RequestInv
<1>3. \A m, n \in requests :
        Carries(m) /\ Carries(n) /\ m.from = h /\ n.from = h => m.key = n.key
  BY DEF Inv, RequestInv
<1> QED  BY <1>1, <1>2, <1>3 DEF Uses

LEMMA InitInv == Init => Inv
<1> SUFFICES ASSUME Init PROVE Inv
  OBVIOUS
<1> USE ChannelAssumption
<1>1. DOMAIN sessions = {} /\ requests = {} /\ responses = {}
  BY DEF Init
<1>2. \A h \in Hosts : /\ executed[h] = << >> /\ answered[h] = << >>
                       /\ host[h] = [state |-> "idle"]
  BY DEF Init
<1>3. << >> = Count(0) /\ Len(<< >>) = 0
  BY DEF Count
<1>4. HistoryInv
  <2>1. host \in [Hosts -> HostStates]
    BY DEF Init, HostStates
  <2>2. DOMAIN executed = Hosts /\ DOMAIN answered = Hosts /\ handshakes \in 0..MaxHandshakes
    BY DEF Init
  <2>3. \A h \in Hosts : Len(executed[h]) = 0 /\ Len(answered[h]) = 0
    BY <1>2, <1>3
  <2> QED  BY <1>2, <1>3, <2>1, <2>2, <2>3 DEF HistoryInv
<1>5. EntryInv /\ RequestInv /\ ResponseInv
  BY <1>1 DEF EntryInv, RequestInv, ResponseInv
<1>6. StepInv
  BY <1>1, <1>2, <1>3 DEF StepInv, HostInStep, Live
<1> QED  BY <1>4, <1>5, <1>6 DEF Inv

-----------------------------------------------------------------------------
(* Steps of the device *)

\* A frame that is refused, an expired session or one that is cleared takes
\* nothing away but sessions.
LEMMA ShrinksKeeps ==
  ASSUME Inv, DOMAIN sessions' \subseteq DOMAIN sessions,
         \A sid \in DOMAIN sessions' : sessions'[sid] = sessions[sid],
         \A r \in responses' : r \in responses \/ r.type = "error",
         UNCHANGED <<handshakes, host, requests, executed, answered>>
  PROVE  Inv'
<1>1. HistoryInv'
  BY DEF Inv, HistoryInv, Sent
<1>2. EntryInv'
  BY DEF Inv, EntryInv
<1>3. RequestInv'
  BY DEF Inv, RequestInv, Live
<1>4. \A h, key : Uses(h, key)' <=> Uses(h, key)
  BY DEF Uses, Live
<1>5. ResponseInv'
  BY <1>4 DEF Inv, ResponseInv, CreatedHolds, AuthenticatedHolds, AnswerHolds
<1>6. StepInv'
  <2>1. \A h \in Hosts : Live(h)' <=> Live(h)
    BY DEF Live
  <2>2. \A h, n : Sent(h, n)' <=> Sent(h, n)
    BY DEF Sent
  <2> QED  BY <1>4, <2>1, <2>2 DEF Inv, StepInv, HostInStep
<1> QED  BY <1>1, <1>2, <1>3, <1>5, <1>6 DEF Inv

LEMMA RefusalKeeps ==
  ASSUME Inv, NEW m \in requests,
         SessionsFull(m) \/ RejectFrame(m) \/ UnknownSession(m)
  PROVE  Inv'
<1>1. /\ responses' = responses \cup {Error(m.from)}
      /\ UNCHANGED <<handshakes, host, requests, executed, answered>>
  BY DEF SessionsFull, RejectFrame, UnknownSession, Respond, hostVars, deviceVars
<1>2. Error(m.from).type = "error"
  BY DEF Error
<1>3. \/ sessions' = sessions
      \/ sessions' = Without(sessions, m.sid)
  BY DEF SessionsFull, RejectFrame, UnknownSession, deviceVars
<1>4. /\ DOMAIN sessions' \subseteq DOMAIN sessions
      /\ \A sid \in DOMAIN sessions' : sessions'[sid] = sessions[sid]
  BY <1>3 DEF Without
<1> QED  BY <1>1, <1>2, <1>4, ShrinksKeeps

LEMMA DropKeeps ==
  ASSUME Inv, DropSessions
  PROVE  Inv'
<1>1. PICK kept \in SUBSET DOMAIN sessions : sessions' = [sid \in kept |-> sessions[sid]]
  BY DEF DropSessions
<1>2. UNCHANGED <<handshakes, host, requests, responses, executed, answered>>
  BY DEF DropSessions, hostVars
<1> QED  BY <1>1, <1>2, ShrinksKeeps

\* The histories and the frames on the wire do not depend on the table.
LEMMA OtherKeeps ==
  ASSUME Inv, handshakes' \in 0..MaxHandshakes, handshakes <= handshakes',
         UNCHANGED <<host, requests, answered>>
  PROVE  /\ RequestInv'
         /\ \A h \in Hosts : Live(h)' <=> Live(h)
         /\ \A h, n : Sent(h, n)' <=> Sent(h, n)
         /\ \A h, key : Uses(h, key)' <=> Uses(h, key)
         /\ executed' = executed => HistoryInv'
<1>1. handshakes \in Nat /\ handshakes' \in Nat
  BY ChannelAssumption DEF Inv, HistoryInv
<1>2. \A m \in requests : Carries(m) => m.key[2] <= handshakes'
  <2>1. \A m \in requests : Carries(m) => m.key[2] \in Nat /\ m.key[2] <= handshakes
    BY ChannelAssumption DEF Inv, RequestInv, Keys
  <2> QED  BY <1>1, <2>1
<1>3. RequestInv'
  BY <1>2 DEF Inv, RequestInv, Live
<1> QED  BY <1>3 DEF Live, Sent, Uses, Inv, HistoryInv

\* Fresh keys: nobody uses them yet.
LEMMA CreateSessionKeeps ==
  ASSUME Inv, NEW m \in requests, CreateSession(m)
  PROVE  Inv' /\ UNCHANGED <<requests, executed, answered>>
<1> DEFINE key == <<m.from, handshakes + 1>>
<1>1. PICK s \in Sids :
        /\ handshakes < MaxHandshakes /\ s \notin DOMAIN sessions
        /\ handshakes' = handshakes + 1
        /\ sessions' = With(sessions, s, BeginSession(key))
        /\ responses' = responses \cup
             {[to |-> m.from, type |-> "created", sid |-> s, key |-> key]}
        /\ UNCHANGED <<host, requests, executed, answered>>
  BY DEF CreateSession, LowestFree, Respond, hostVars
<1>2. /\ m.from \in Hosts /\ handshakes \in Nat /\ MaxHandshakes \in Nat
      /\ MaxCommands \in Nat
  BY ChannelAssumption DEF Inv, RequestInv, HistoryInv
<1>3. handshakes' \in 0..MaxHandshakes /\ handshakes <= handshakes'
  BY <1>1, <1>2
<1>4. key \in Keys /\ key[1] = m.from /\ key[2] = handshakes'
  BY <1>1, <1>2 DEF Keys
<1> DEFINE new == BeginSession(key)
<1>5. /\ DOMAIN sessions' = DOMAIN sessions \cup {s} /\ sessions'[s] = new
      /\ \A sid \in DOMAIN sessions : sid # s /\ sessions'[sid] = sessions[sid]
  BY <1>1 DEF With
<1>6. /\ new \in SessionEntry
      /\ new.key = key /\ new.chain = << >> /\ new.counter = First(m.from)
      /\ new.authenticated <=> m.from \in Asymmetric
  <2>1. new = [ key |-> key, authenticated |-> key[1] \in Asymmetric,
                chain |-> << >>, counter |-> First(m.from) ]
    BY <1>4 DEF BeginSession, First
  <2>2. First(m.from) \in Nat /\ << >> \in Seq(Nat)
    BY FirstTyped
  <2>3. (key[1] \in Asymmetric) \in BOOLEAN
    OBVIOUS
  <2> HIDE DEF new, key
  <2> QED  BY <1>4, <2>1, <2>2, <2>3 DEF SessionEntry
<1> HIDE DEF key, new
<1>7. /\ HistoryInv' /\ RequestInv'
      /\ \A h \in Hosts : Live(h)' <=> Live(h)
      /\ \A h, n : Sent(h, n)' <=> Sent(h, n)
      /\ \A h, k : Uses(h, k)' <=> Uses(h, k)
  BY <1>1, <1>3, OtherKeeps
<1>8. \A sid \in DOMAIN sessions :
        sessions[sid].key # key /\ sessions[sid].key[2] <= handshakes'
  BY <1>1, <1>2, <1>4, EntryTyped DEF Inv, EntryInv
<1>9. \A h \in Hosts : ~Uses(h, key)
  BY <1>1, <1>2, <1>4, UsesOne
<1>10. EntryInv'
  <2>1. new.chain = Upto(key[1], new.counter)
    BY <1>4, <1>6, FirstTyped, UptoGrows
  <2>2. new.authenticated <=> new.counter # 0
    BY <1>6 DEF First
  <2>3. /\ new.counter \in First(key[1]) .. MaxCommands + 1
        /\ new.counter = First(key[1]) /\ new.key[2] <= handshakes'
    BY <1>1, <1>2, <1>4, <1>6, FirstTyped
  <2>4. DOMAIN sessions' \subseteq Sids
    BY <1>1, <1>5 DEF Inv, EntryInv
  <2>5. \A a, b \in DOMAIN sessions' : sessions'[a].key = sessions'[b].key => a = b
    BY <1>5, <1>6, <1>8 DEF Inv, EntryInv
  <2>6. \A sid \in DOMAIN sessions' : sid = s \/ sid \in DOMAIN sessions
    BY <1>5
  <2> QED  BY <1>1, <1>5, <1>6, <1>8, <2>1, <2>2, <2>3, <2>4, <2>5, <2>6
           DEF Inv, EntryInv
<1>11. ResponseInv'
  <2> DEFINE created == [to |-> m.from, type |-> "created", sid |-> s, key |-> key]
  <2>1. ASSUME NEW r, r = created PROVE r.type = "created" /\ CreatedHolds(r)'
    <3>1. /\ r.type = "created" /\ r.key = key /\ r.to = m.from /\ r.sid = s
      BY <2>1
    <3> QED  BY <1>1, <1>2, <1>4, <1>5, <1>6, <1>8, <3>1 DEF CreatedHolds
  <2>2. ASSUME NEW r \in responses, r.type = "created" PROVE CreatedHolds(r)'
    <3>1. r.key \in Keys /\ r.key[2] <= handshakes /\ CreatedHolds(r)
      BY <2>2 DEF Inv, ResponseInv, CreatedHolds
    <3>2. r.key[2] <= handshakes' /\ r.key # key
      BY <1>1, <1>2, <1>4, <3>1, ChannelAssumption DEF Keys
    <3> QED  BY <1>1, <1>5, <1>6, <3>1, <3>2 DEF CreatedHolds
  <2>3. ASSUME NEW r \in responses, r.type = "authenticated"
        PROVE  AuthenticatedHolds(r)'
    <3>1. AuthenticatedHolds(r)
      BY <2>3 DEF Inv, ResponseInv
    <3>2. r.to \in Hosts
      BY <3>1 DEF AuthenticatedHolds, Inv, RequestInv
    <3> QED  BY <1>1, <1>5, <1>6, <1>7, <1>9, <3>1, <3>2 DEF AuthenticatedHolds
  <2>4. ASSUME NEW r \in responses, r.type = "answer" PROVE AnswerHolds(r)'
    <3>1. r.key \in Keys /\ r.key[2] <= handshakes /\ AnswerHolds(r)
      BY <2>4 DEF Inv, ResponseInv, AnswerHolds
    <3>2. r.key[2] <= handshakes' /\ r.key # key
      BY <1>1, <1>2, <1>4, <3>1, ChannelAssumption DEF Keys
    <3> QED  BY <1>1, <1>5, <1>6, <3>1, <3>2 DEF AnswerHolds
  <2>5. \A r \in responses' : r = created \/ r \in responses
    BY <1>1
  <2> HIDE DEF created
  <2> QED  BY <2>1, <2>2, <2>3, <2>4, <2>5 DEF Inv, ResponseInv
<1>12. StepInv'
  <2>1. \A h \in Hosts : Live(h) => /\ host[h].key # key /\ host[h].key[2] <= handshakes'
    <3>1. \A h \in Hosts : Live(h) => Uses(h, host[h].key)
      BY DEF Uses
    <3>2. \A h \in Hosts : Live(h) => host[h].key[2] \in Nat /\ host[h].key[2] <= handshakes
      BY HostTyped, ChannelAssumption DEF Inv, StepInv, HostInStep, Keys
    <3> QED  BY <1>1, <1>2, <1>9, <3>1, <3>2
  <2> QED  BY <1>1, <1>5, <1>6, <1>7, <1>9, <2>1 DEF Inv, StepInv, HostInStep
<1> QED  BY <1>1, <1>7, <1>10, <1>11, <1>12 DEF Inv

\* The same entry, with the mark set.
LEMMA MarkedEntry ==
  ASSUME NEW entry \in SessionEntry,
         NEW new, new = [entry EXCEPT !.authenticated = TRUE]
  PROVE  /\ new \in SessionEntry /\ new.authenticated
         /\ new.key = entry.key /\ new.chain = entry.chain
         /\ new.counter = entry.counter
<1>1. new \in SessionEntry
  BY DEF SessionEntry
<1>2. new.key = entry.key /\ new.chain = entry.chain /\ new.counter = entry.counter
  BY DEF SessionEntry
<1>3. new.authenticated = TRUE
  BY DEF SessionEntry
<1> QED  BY <1>1, <1>2, <1>3

\* A session that accepts the number it waits for moves on by one.
LEMMA AdvancedEntry ==
  ASSUME Inv, NEW s \in DOMAIN sessions, NEW item,
         item = sessions[s].counter, item <= MaxCommands,
         NEW new, new = Advanced(sessions[s], item)
  PROVE  /\ new \in SessionEntry
         /\ new.key = sessions[s].key /\ new.counter = item + 1
         /\ new.chain = Upto(sessions[s].key[1], item + 1)
         /\ new.authenticated <=> sessions[s].authenticated
         /\ new.counter \in First(sessions[s].key[1]) .. MaxCommands + 1
<1> DEFINE entry == sessions[s]
<1>1. /\ entry \in SessionEntry /\ item \in Nat /\ First(entry.key[1]) <= item
      /\ entry.chain = Upto(entry.key[1], item)
  BY EntryTyped DEF Inv, EntryInv
<1>2. item + 1 \in Nat /\ First(entry.key[1]) <= item + 1
      /\ item + 1 \in First(entry.key[1]) .. MaxCommands + 1
  BY <1>1, FirstTyped, ChannelAssumption
<1>3. /\ Append(entry.chain, item) = Upto(entry.key[1], item + 1)
      /\ Upto(entry.key[1], item + 1) \in Seq(Nat)
  BY <1>1, <1>2, UptoGrows
<1>4. new = [entry EXCEPT !.chain = Append(entry.chain, item),
                          !.counter = entry.counter + 1]
  BY Zenon DEF Advanced
<1>5. /\ new = [entry EXCEPT !.chain = Upto(entry.key[1], item + 1), !.counter = item + 1]
  BY <1>3, <1>4, Zenon
<1> HIDE DEF entry
<1>6. /\ new \in SessionEntry /\ new.key = entry.key /\ new.counter = item + 1
      /\ new.chain = Upto(entry.key[1], item + 1)
      /\ new.authenticated <=> entry.authenticated
  <2> DEFINE chain == Upto(entry.key[1], item + 1)
             counter == item + 1
  <2>1. /\ chain \in Seq(Nat) /\ counter \in Nat
        /\ new = [entry EXCEPT !.chain = chain, !.counter = counter]
    BY <1>2, <1>3, <1>5
  <2> HIDE DEF chain, counter
  <2>2. new \in SessionEntry
    BY <1>1, <2>1 DEF SessionEntry
  <2>3. new.key = entry.key /\ new.chain = chain /\ new.counter = counter
    BY <1>1, <2>1 DEF SessionEntry
  <2>4. new.authenticated = entry.authenticated
    BY <1>1, <2>1 DEF SessionEntry
  <2> QED  BY <2>2, <2>3, <2>4 DEF chain, counter
<1> QED  BY <1>2, <1>6 DEF entry

\* The table after a session has moved on; everything but the answer and the
\* history of executions is settled by it.
LEMMA AdvanceKeeps ==
  ASSUME Inv, NEW m \in requests, Carries(m), NEW s \in DOMAIN sessions,
         m.key = sessions[s].key,
         NEW item, item = sessions[s].counter, item <= MaxCommands,
         NEW new \in SessionEntry, new.key = sessions[s].key, new.counter = item + 1,
         new.chain = Upto(sessions[s].key[1], item + 1), new.authenticated,
         new.counter \in First(sessions[s].key[1]) .. MaxCommands + 1,
         DOMAIN sessions' = DOMAIN sessions, sessions'[s] = new,
         \A t \in DOMAIN sessions : t # s => sessions'[t] = sessions[t],
         UNCHANGED <<handshakes, host, requests, answered>>
  PROVE  /\ EntryInv' /\ RequestInv' /\ item \in Nat
         /\ \A t \in DOMAIN sessions : t # s => sessions[t].key # m.key
         /\ \A t \in DOMAIN sessions : sessions'[t].key = sessions[t].key
         /\ \A r \in responses : r.type = "created" => CreatedHolds(r)'
         /\ \A r \in responses : r.type = "authenticated" => AuthenticatedHolds(r)'
         /\ \A r \in responses :
              r.type = "answer" /\ (\A h \in Hosts : Len(executed[h]) <= Len(executed'[h])
                                                     /\ Len(executed'[h]) \in Nat)
                => AnswerHolds(r)'
<1>1. /\ new \in SessionEntry /\ new.key = sessions[s].key /\ new.counter = item + 1
      /\ new.chain = Upto(new.key[1], item + 1) /\ new.authenticated
      /\ new.counter \in First(new.key[1]) .. MaxCommands + 1
  OBVIOUS
<1>2. /\ DOMAIN sessions' = DOMAIN sessions /\ sessions'[s] = new
      /\ \A t \in DOMAIN sessions : t # s => sessions'[t] = sessions[t]
  OBVIOUS
<1>3. \A t \in DOMAIN sessions : t # s => sessions[t].key # m.key
  BY DEF Inv, EntryInv
<1>4. item \in Nat
  BY EntryTyped
<1>5. EntryInv'
  <2>1. \A a, b \in DOMAIN sessions' : sessions'[a].key = sessions'[b].key => a = b
    <3>1. \A a \in DOMAIN sessions : sessions'[a].key = sessions[a].key
      BY <1>1, <1>2
    <3>2. \A a, b \in DOMAIN sessions : sessions[a].key = sessions[b].key => a = b
      BY DEF Inv, EntryInv
    <3> QED  BY <1>2, <3>1, <3>2
  <2>2. new.key[2] <= handshakes
    BY <1>1 DEF Inv, EntryInv
  <2>3. new.counter # 0
    BY <1>1, <1>4
  <2>4. DOMAIN sessions' \subseteq Sids
    BY <1>2 DEF Inv, EntryInv
  <2>5. ASSUME NEW t \in DOMAIN sessions, t # s
        PROVE  LET entry == sessions[t] IN
               /\ entry \in SessionEntry
               /\ entry.key[2] <= handshakes
               /\ entry.counter \in First(entry.key[1]) .. MaxCommands + 1
               /\ entry.chain = Upto(entry.key[1], entry.counter)
               /\ entry.authenticated <=> entry.counter # 0
               /\ entry.counter # First(entry.key[1]) =>
                    \E n \in requests : Carries(n) /\ n.key = entry.key
    BY DEF Inv, EntryInv
  <2>6. new.counter # First(new.key[1]) => \E n \in requests : Carries(n) /\ n.key = new.key
    BY <1>1
  <2>7. new.authenticated <=> new.counter # 0
    BY <1>1, <2>3
  <2> QED  BY <1>1, <1>2, <2>1, <2>2, <2>4, <2>5, <2>6, <2>7 DEF EntryInv
<1>6. RequestInv'
  BY DEF Inv, RequestInv, Live
<1>7. \A t \in DOMAIN sessions : sessions'[t].key = sessions[t].key
  BY <1>1, <1>2
<1>8. \A h, key : Uses(h, key)' <=> Uses(h, key)
  BY DEF Uses, Live
<1>9. \A r \in responses : r.type = "created" => CreatedHolds(r)'
  BY <1>2, <1>7 DEF Inv, ResponseInv, CreatedHolds
<1>10. \A t \in DOMAIN sessions :
         /\ sessions[t].counter # 0 => sessions'[t].counter # 0
         /\ \A n \in Nat : n < sessions[t].counter => n < sessions'[t].counter
  <2>1. new.counter \in Nat /\ new.counter # 0 /\ \A n \in Nat : n < item => n < new.counter
    BY <1>1, <1>4
  <2> QED  BY <1>2, <2>1
<1>11. \A r \in responses : r.type = "authenticated" => AuthenticatedHolds(r)'
  BY <1>2, <1>7, <1>8, <1>10 DEF Inv, ResponseInv, AuthenticatedHolds
<1>12. ASSUME NEW r \in responses, r.type = "answer",
              \A h \in Hosts : Len(executed[h]) <= Len(executed'[h])
                               /\ Len(executed'[h]) \in Nat
       PROVE  AnswerHolds(r)'
  <2>1. AnswerHolds(r)
    BY <1>12 DEF Inv, ResponseInv
  <2>2. r.counter \in Nat /\ r.counter \in 1..Len(executed'[r.to])
    BY <1>12, <2>1, HostTyped DEF AnswerHolds
  <2> QED  BY <1>2, <1>7, <1>10, <2>1, <2>2 DEF AnswerHolds
<1> QED  BY <1>1, <1>2, <1>3, <1>4, <1>5, <1>6, <1>7, <1>9, <1>11, <1>12

LEMMA AuthenticateSessionKeeps ==
  ASSUME Inv, NEW m \in requests, AuthenticateSession(m)
  PROVE  Inv' /\ UNCHANGED <<requests, executed, answered>>
<1> DEFINE s == m.sid
           new == [Advanced(sessions[s], 0) EXCEPT !.authenticated = TRUE]
<1>1. /\ m.type = "auth" /\ s \in DOMAIN sessions /\ ~sessions[s].authenticated
      /\ m.key = sessions[s].key
      /\ sessions' = With(sessions, s, new)
      /\ responses' = responses \cup {[to |-> m.from, type |-> "authenticated"]}
      /\ UNCHANGED <<handshakes, host, requests, executed, answered>>
  BY DEF AuthenticateSession, MacVerifies, Respond, hostVars
<1>2. sessions[s].counter = 0 /\ 0 <= MaxCommands /\ Carries(m)
  BY <1>1, ChannelAssumption DEF Inv, EntryInv, Carries
<1> DEFINE advanced == Advanced(sessions[s], 0)
<1>a. /\ new \in SessionEntry /\ new.key = sessions[s].key /\ new.counter = 0 + 1
      /\ new.chain = Upto(sessions[s].key[1], 0 + 1) /\ new.authenticated
      /\ new.counter \in First(sessions[s].key[1]) .. MaxCommands + 1
  <2>1. /\ advanced \in SessionEntry
        /\ advanced.key = sessions[s].key /\ advanced.counter = 0 + 1
        /\ advanced.chain = Upto(sessions[s].key[1], 0 + 1)
        /\ advanced.counter \in First(sessions[s].key[1]) .. MaxCommands + 1
    BY <1>1, <1>2, AdvancedEntry
  <2>2. new = [advanced EXCEPT !.authenticated = TRUE]
    OBVIOUS
  <2> HIDE DEF advanced, new
  <2>3. /\ new \in SessionEntry /\ new.authenticated /\ new.key = advanced.key
        /\ new.chain = advanced.chain /\ new.counter = advanced.counter
    BY <2>1, <2>2, MarkedEntry
  <2> QED  BY <2>1, <2>3
<1> HIDE DEF new, advanced
<1>b. /\ DOMAIN sessions' = DOMAIN sessions /\ sessions'[s] = new
      /\ \A t \in DOMAIN sessions : t # s => sessions'[t] = sessions[t]
  BY <1>1 DEF With
<1> HIDE DEF s
<1>3. /\ EntryInv' /\ RequestInv'
      /\ DOMAIN sessions' = DOMAIN sessions
      /\ sessions'[s].key = m.key /\ sessions'[s].counter = 1
      /\ \A t \in DOMAIN sessions : t # s =>
           sessions'[t] = sessions[t] /\ sessions[t].key # m.key
      /\ \A t \in DOMAIN sessions : sessions'[t].key = sessions[t].key
      /\ \A r \in responses : r.type = "created" => CreatedHolds(r)'
      /\ \A r \in responses : r.type = "authenticated" => AuthenticatedHolds(r)'
      /\ \A r \in responses : r.type = "answer" => AnswerHolds(r)'
  <2>1. \A h \in Hosts : Len(executed[h]) <= Len(executed'[h]) /\ Len(executed'[h]) \in Nat
    BY <1>1, HostTyped
  <2>2. /\ EntryInv' /\ RequestInv'
        /\ \A t \in DOMAIN sessions : t # s => sessions[t].key # m.key
        /\ \A t \in DOMAIN sessions : sessions'[t].key = sessions[t].key
        /\ \A r \in responses : r.type = "created" => CreatedHolds(r)'
        /\ \A r \in responses : r.type = "authenticated" => AuthenticatedHolds(r)'
        /\ \A r \in responses : r.type = "answer" => AnswerHolds(r)'
    BY <1>1, <1>2, <1>a, <1>b, <2>1, AdvanceKeeps
  <2> QED  BY <1>1, <1>a, <1>b, <2>2
<1>4. HistoryInv' /\ \A h, key : Uses(h, key)' <=> Uses(h, key)
  BY <1>1 DEF Inv, HistoryInv, Sent, Uses, Live
<1>5. m.from \in Hosts /\ Uses(m.from, m.key)
  BY <1>2 DEF Inv, RequestInv, Uses
<1>6. ResponseInv'
  <2>1. ASSUME NEW r, r = [to |-> m.from, type |-> "authenticated"]
        PROVE  r.type = "authenticated" /\ AuthenticatedHolds(r)'
    <3>1. r.type = "authenticated" /\ r.to = m.from
      BY <2>1
    <3>2. \A t \in DOMAIN sessions : Uses(m.from, sessions[t].key) => t = s
      BY <1>3, <1>5, UsesOne
    <3> QED  BY <1>1, <1>3, <1>4, <3>1, <3>2 DEF AuthenticatedHolds
  <2>2. \A r \in responses' : r \in responses \/ r = [to |-> m.from, type |-> "authenticated"]
    BY <1>1
  <2> QED  BY <1>3, <2>1, <2>2 DEF Inv, ResponseInv
<1>7. StepInv'
  <2>1. \A h \in Hosts : Live(h)' <=> Live(h)
    BY <1>1 DEF Live
  <2>2. \A h, n : Sent(h, n)' <=> Sent(h, n)
    BY <1>1 DEF Sent
  <2>3. \A h \in Hosts : Live(h) /\ host[h].key = m.key => host[h].state = "authenticating"
    <3> SUFFICES ASSUME NEW h \in Hosts, Live(h), host[h].key = m.key
                 PROVE  host[h].state = "authenticating"
      OBVIOUS
    <3>1. host[h].counter \in Nat /\ host[h].counter # 0
      BY HostTyped
    <3>2. /\ host[h].state = "open" => sessions[s].counter = host[h].counter
          /\ host[h].state \in {"waiting", "closing"} =>
               sessions[s].counter \in {host[h].counter, host[h].counter + 1}
      BY <1>1 DEF Inv, StepInv, HostInStep
    <3> QED  BY <1>2, <3>1, <3>2 DEF Live
  <2>4. \A h \in Hosts : Uses(h, m.key) => Len(executed[h]) = 0
    BY <1>1, <1>2 DEF Inv, StepInv, HostInStep
  <2> QED  BY <1>1, <1>3, <1>4, <2>1, <2>2, <2>3, <2>4 DEF Inv, StepInv, HostInStep
<1> QED  BY <1>1, <1>3, <1>4, <1>6, <1>7 DEF Inv

\* The command a frame carries is the next one of its host: it was not
\* executed before, and everything before it was.
LEMMA SessionMessageFacts ==
  ASSUME Inv, NEW m \in requests, SessionMessage(m)
  PROVE  /\ m.from \in Hosts /\ Uses(m.from, m.key) /\ m.key \in Keys
         /\ m.key[1] = m.from /\ m.key[2] <= handshakes
         /\ m.sid \in DOMAIN sessions /\ sessions[m.sid].key = m.key
         /\ sessions[m.sid].authenticated
         /\ sessions[m.sid].counter = m.command
         /\ m.command \in 1..MaxCommands /\ m.command <= Len(answered[m.from]) + 1
         /\ m.command = Len(executed[m.from]) + 1
         /\ sessions[m.sid].chain = Upto(m.from, m.command)
<1>1. /\ m.type = "message" /\ m.sid \in DOMAIN sessions
      /\ sessions[m.sid].authenticated /\ m.key = sessions[m.sid].key
      /\ m.chain = sessions[m.sid].chain /\ m.counter = sessions[m.sid].counter
  BY DEF SessionMessage, Decrypts, MacVerifies
<1>2. /\ m.from \in Hosts /\ m.key \in Keys /\ m.key[1] = m.from /\ m.key[2] <= handshakes
      /\ m.command \in 1..MaxCommands /\ m.counter = m.command
      /\ m.command <= Len(answered[m.from]) + 1 /\ m.chain = Upto(m.from, m.command)
  BY <1>1 DEF Inv, RequestInv, Carries
<1>3. Uses(m.from, m.key)
  BY <1>1 DEF Uses, Carries
<1>4. sessions[m.sid].counter # 0
  BY <1>1, <1>2, ChannelAssumption
<1>5. sessions[m.sid].counter = Len(executed[m.from]) + 1
  BY <1>1, <1>2, <1>3, <1>4 DEF Inv, StepInv, HostInStep
<1> QED  BY <1>1, <1>2, <1>3, <1>5

LEMMA SessionMessageKeeps ==
  ASSUME Inv, NEW m \in requests, SessionMessage(m)
  PROVE  /\ Inv' /\ UNCHANGED <<requests, answered>>
         /\ executed' = [executed EXCEPT ![m.from] = Append(@, Len(@) + 1)]
<1> DEFINE s == m.sid
           h == m.from
           n == m.command
           new == Advanced(sessions[s], n)
           answer == EncryptResponse(sessions[s], m)
<1>1. /\ executed' = [executed EXCEPT ![sessions[s].key[1]] = Append(@, n)]
      /\ sessions' = IF m.closes THEN Without(sessions, s) ELSE With(sessions, s, new)
      /\ responses' = responses \cup {answer}
      /\ m.type = "message"
      /\ UNCHANGED <<handshakes, host, requests, answered>>
  BY DEF SessionMessage, Respond, hostVars
<1>2. /\ h \in Hosts /\ Uses(h, m.key) /\ m.key \in Keys /\ m.key[1] = h
      /\ m.key[2] <= handshakes /\ s \in DOMAIN sessions /\ sessions[s].key = m.key
      /\ sessions[s].authenticated /\ sessions[s].counter = n
      /\ n \in 1..MaxCommands /\ n <= Len(answered[h]) + 1
      /\ n = Len(executed[h]) + 1 /\ sessions[s].chain = Upto(h, n)
  BY SessionMessageFacts
<1>3. n \in Nat /\ n <= MaxCommands /\ n # 0 /\ First(h) <= n /\ Carries(m)
  BY <1>1, <1>2, FirstTyped, ChannelAssumption DEF Carries
<1>4. /\ DOMAIN executed' = Hosts
      /\ executed'[h] = Count(n) /\ Len(executed'[h]) = n
      /\ \A g \in Hosts : g # h => executed'[g] = executed[g]
      /\ \A g \in Hosts : Len(executed[g]) <= Len(executed'[g]) /\ Len(executed'[g]) \in Nat
  <2>1. /\ Len(executed[h]) \in Nat /\ executed[h] = Count(Len(executed[h]))
        /\ DOMAIN executed = Hosts
    BY <1>2, HostTyped DEF Inv, HistoryInv
  <2>2. Append(executed[h], n) = Count(n) /\ Len(Count(n)) = n
    BY <1>2, <1>3, <2>1, CountGrows
  <2>3. executed'[h] = Append(executed[h], n) /\ DOMAIN executed' = Hosts
    BY <1>1, <1>2, <2>1
  <2>4. \A g \in Hosts : g # h => executed'[g] = executed[g]
    BY <1>1, <1>2, <2>1
  <2>5. \A g \in Hosts : Len(executed[g]) \in Nat
    BY HostTyped
  <2>6. \A g \in Hosts : Len(executed[g]) <= Len(executed'[g]) /\ Len(executed'[g]) \in Nat
    BY <1>2, <1>3, <2>1, <2>2, <2>3, <2>4, <2>5
  <2> QED  BY <2>2, <2>3, <2>4, <2>6
<1>5. /\ \A g, k : Uses(g, k)' <=> Uses(g, k)
      /\ \A g, k : Sent(g, k)' <=> Sent(g, k)
      /\ \A g \in Hosts : Live(g)' <=> Live(g)
  BY <1>1 DEF Uses, Live, Sent
<1>6. HistoryInv'
  <2>1. Sent(h, n)
    BY <1>1 DEF Sent, Message
  <2>2. \A i \in 1..n : Sent(h, i)
    <3>1. \A i \in 1..n : i = n \/ i \in 1..Len(executed[h])
      BY <1>2, <1>3, HostTyped
    <3> QED  BY <1>2, <2>1, <3>1 DEF Inv, HistoryInv
  <2>3. n \in 0..MaxCommands
    BY <1>3, ChannelAssumption
  <2> HIDE DEF n, h
  <2>4. ASSUME NEW g \in Hosts
        PROVE  /\ Len(executed'[g]) \in 0..MaxCommands
               /\ executed'[g] = Count(Len(executed'[g]))
               /\ \A i \in 1..Len(executed'[g]) : Sent(g, i)
    <3>1. CASE g = h
      BY <1>4, <2>2, <2>3, <3>1
    <3>2. CASE g # h
      BY <1>4, <3>2 DEF Inv, HistoryInv
    <3> QED  BY <3>1, <3>2
  <2> QED  BY <1>1, <1>4, <1>5, <2>4 DEF Inv, HistoryInv
<1>7. \A t \in DOMAIN sessions : t # s => sessions[t].key # m.key
  BY <1>2 DEF Inv, EntryInv
<1>8. /\ EntryInv' /\ RequestInv' /\ DOMAIN sessions' \subseteq DOMAIN sessions
      /\ \A t \in DOMAIN sessions' :
           /\ sessions'[t].key = sessions[t].key
           /\ t # s => sessions'[t] = sessions[t]
           /\ t = s => sessions'[t].counter = n + 1
      /\ \A r \in responses : r.type = "created" => CreatedHolds(r)'
      /\ \A r \in responses : r.type = "authenticated" => AuthenticatedHolds(r)'
      /\ \A r \in responses : r.type = "answer" => AnswerHolds(r)'
  <2>1. CASE m.closes
    <3>1. /\ DOMAIN sessions' = DOMAIN sessions \ {s}
          /\ \A t \in DOMAIN sessions' : sessions'[t] = sessions[t]
      BY <1>1, <2>1 DEF Without
    <3>2. EntryInv'
      BY <1>1, <3>1 DEF Inv, EntryInv
    <3>3. RequestInv'
      BY <1>1 DEF Inv, RequestInv, Live
    <3>4. /\ \A r \in responses : r.type = "created" => CreatedHolds(r)'
          /\ \A r \in responses : r.type = "authenticated" => AuthenticatedHolds(r)'
      BY <1>1, <1>5, <3>1 DEF Inv, ResponseInv, CreatedHolds, AuthenticatedHolds
    <3>5. ASSUME NEW r \in responses, r.type = "answer" PROVE AnswerHolds(r)'
      <4>1. AnswerHolds(r)
        BY <3>5 DEF Inv, ResponseInv
      <4>2. r.counter \in 1..Len(executed'[r.to])
        BY <1>4, <4>1, HostTyped DEF AnswerHolds
      <4> QED  BY <1>1, <3>1, <4>1, <4>2 DEF AnswerHolds
    <3> QED  BY <3>1, <3>2, <3>3, <3>4, <3>5
  <2>2. CASE ~m.closes
    <3>1. /\ new \in SessionEntry /\ new.key = sessions[s].key /\ new.counter = n + 1
          /\ new.chain = Upto(sessions[s].key[1], n + 1) /\ new.authenticated
          /\ new.counter \in First(sessions[s].key[1]) .. MaxCommands + 1
      <4> HIDE DEF new
      <4>1. new = Advanced(sessions[s], n)
        BY DEF new
      <4>2. /\ new \in SessionEntry
            /\ new.key = sessions[s].key /\ new.counter = n + 1
            /\ new.chain = Upto(sessions[s].key[1], n + 1)
            /\ new.authenticated <=> sessions[s].authenticated
            /\ new.counter \in First(sessions[s].key[1]) .. MaxCommands + 1
        BY <1>2, <1>3, <4>1, AdvancedEntry
      <4> QED  BY <1>2, <4>2, Zenon
    <3> HIDE DEF new
    <3>2. /\ DOMAIN sessions' = DOMAIN sessions /\ sessions'[s] = new
          /\ \A t \in DOMAIN sessions : t # s => sessions'[t] = sessions[t]
      BY <1>1, <1>2, <2>2 DEF With
    <3> HIDE DEF s, n, h
    <3>3. /\ EntryInv' /\ RequestInv'
          /\ \A t \in DOMAIN sessions : sessions'[t].key = sessions[t].key
          /\ \A r \in responses : r.type = "created" => CreatedHolds(r)'
          /\ \A r \in responses : r.type = "authenticated" => AuthenticatedHolds(r)'
          /\ \A r \in responses : r.type = "answer" => AnswerHolds(r)'
      <4>1. UNCHANGED <<handshakes, host, requests, answered>>
        BY <1>1
      <4>2. m.key = sessions[s].key /\ n = sessions[s].counter
        BY <1>2
      <4> QED  BY <1>2, <1>3, <1>4, <3>1, <3>2, <4>1, <4>2, AdvanceKeeps
    <3> QED  BY <3>1, <3>2, <3>3
  <2> QED  BY <2>1, <2>2
<1>9. ResponseInv'
  <2>1. ASSUME NEW r, r = answer PROVE r.type = "answer" /\ AnswerHolds(r)'
    <3>1. /\ r.type = "answer" /\ r.to = h /\ r.key = m.key /\ r.counter = n
          /\ r.result = n /\ r.chain = Append(Upto(h, n), n)
      BY <1>2, <2>1 DEF EncryptResponse
    <3>2. r.chain = Upto(h, n + 1)
      BY <1>3, <3>1, UptoGrows
    <3>3. r.counter \in 1..Len(executed'[r.to])
      BY <1>3, <1>4, <3>1
    <3>4. ASSUME NEW t \in DOMAIN sessions', sessions'[t].key = r.key
          PROVE  r.counter < sessions'[t].counter
      BY <1>3, <1>7, <1>8, <3>1, <3>4
    <3> QED  BY <1>1, <1>2, <3>1, <3>2, <3>3, <3>4 DEF AnswerHolds
  <2>2. \A r \in responses' : r \in responses \/ r = answer
    BY <1>1
  <2> HIDE DEF answer
  <2> QED  BY <1>8, <2>1, <2>2 DEF Inv, ResponseInv
<1>10. StepInv'
  <2>1. ASSUME NEW g \in Hosts, Live(g), host[g].key = m.key
        PROVE  /\ g = h /\ s = host[g].sid /\ host[g].state \in {"waiting", "closing"}
               /\ host[g].counter = n
    <3>1. g = h /\ host[g].counter \in Nat /\ host[g].counter = Len(answered[g]) + 1
      BY <1>2, <2>1, HostTyped DEF Inv, StepInv, HostInStep
    <3>2. host[g].state # "authenticating"
      BY <1>1, <3>1 DEF Inv, RequestInv
    <3>3. Sent(h, n)
      BY <1>1 DEF Sent, Message
    <3> HIDE DEF s, n, h
    <3>a. /\ s = host[g].sid
          /\ host[g].state = "open" => n = host[g].counter
          /\ host[g].state \in {"waiting", "closing"} =>
               n \in {host[g].counter, host[g].counter + 1}
      BY <1>2, <2>1 DEF Inv, StepInv, HostInStep
    <3>b. host[g].state = "open" => ~Sent(g, Len(answered[g]) + 1)
      BY <2>1 DEF Inv, StepInv, HostInStep
    <3>4. /\ s = host[g].sid
          /\ host[g].state = "open" => n = host[g].counter /\ ~Sent(h, host[g].counter)
          /\ host[g].state \in {"waiting", "closing"} =>
               n \in {host[g].counter, host[g].counter + 1}
      BY <3>1, <3>a, <3>b
    <3>5. host[g].state \in {"waiting", "closing"}
      BY <2>1, <3>2, <3>3, <3>4 DEF Live
    <3>6. n = host[g].counter
      BY <1>2, <1>3, <3>1, <3>4, <3>5
    <3> QED  BY <3>1, <3>4, <3>5, <3>6
  <2>2. ASSUME NEW g \in Hosts, NEW t \in DOMAIN sessions', Live(g),
               sessions'[t].key = host[g].key
        PROVE  /\ t = host[g].sid
               /\ host[g].state = "authenticating" => sessions'[t].counter \in {0, 1}
               /\ host[g].state = "open" => sessions'[t].counter = host[g].counter
               /\ host[g].state \in {"waiting", "closing"} =>
                    sessions'[t].counter \in {host[g].counter, host[g].counter + 1}
    <3>1. CASE t = s
      BY <1>2, <1>8, <2>1, <2>2, <3>1
    <3>2. CASE t # s
      BY <1>8, <2>2, <3>2 DEF Inv, StepInv, HostInStep
    <3> QED  BY <3>1, <3>2
  <2>3. ASSUME NEW g \in Hosts, NEW t \in DOMAIN sessions', Uses(g, sessions'[t].key)
        PROVE  /\ sessions'[t].counter = 0 => Len(executed'[g]) = 0
               /\ sessions'[t].counter # 0 => sessions'[t].counter = Len(executed'[g]) + 1
    <3>1. CASE t = s
      <4>1. sessions'[t].key = m.key /\ sessions'[t].counter = n + 1
        BY <1>2, <1>8, <3>1
      <4>2. g = h
        BY <1>2, <2>3, <4>1, UsesOne
      <4> QED  BY <1>3, <1>4, <4>1, <4>2
    <3>2. CASE t # s
      <4>1. sessions'[t] = sessions[t] /\ t \in DOMAIN sessions
        BY <1>8, <3>2
      <4>2. g # h
        BY <1>2, <1>7, <2>3, <3>2, <4>1, UsesOne
      <4> QED  BY <1>4, <2>3, <4>1, <4>2 DEF Inv, StepInv, HostInStep
    <3> QED  BY <3>1, <3>2
  <2> QED  BY <1>1, <1>5, <2>2, <2>3 DEF Inv, StepInv, HostInStep
<1>11. executed' = [executed EXCEPT ![h] = Append(@, Len(@) + 1)]
  BY <1>1, <1>2
<1> QED  BY <1>1, <1>6, <1>8, <1>9, <1>10, <1>11 DEF Inv

-----------------------------------------------------------------------------
(* Steps of a host *)

\* What a host does leaves the device and every other host where they are.
LEMMA HostStepKeeps ==
  ASSUME Inv, NEW h \in Hosts,
         UNCHANGED <<sessions, handshakes, executed, responses>>,
         \A g \in Hosts : g # h => host'[g] = host[g] /\ answered'[g] = answered[g],
         requests \subseteq requests',
         \A m \in requests' : m \in requests \/ m.from = h
  PROVE  /\ EntryInv'
         /\ \A g \in Hosts : g # h => HostInStep(g)'
         /\ \A g \in Hosts : g # h =>
              /\ Live(g)' <=> Live(g)
              /\ \A n : Sent(g, n)' <=> Sent(g, n)
              /\ \A key : Uses(g, key)' <=> Uses(g, key)
<1>1. EntryInv'
  BY DEF Inv, EntryInv
<1>2. ASSUME NEW g \in Hosts, g # h
      PROVE  /\ Live(g)' <=> Live(g)
             /\ \A n : Sent(g, n)' <=> Sent(g, n)
             /\ \A key : Uses(g, key)' <=> Uses(g, key)
  <2>1. Live(g)' <=> Live(g)
    BY <1>2 DEF Live
  <2>2. \A n : Sent(g, n)' <=> Sent(g, n)
    BY <1>2 DEF Sent, Message
  <2>3. \A key : Uses(g, key)' <=> Uses(g, key)
    BY <1>2, <2>1 DEF Uses
  <2> QED  BY <2>1, <2>2, <2>3
<1>3. ASSUME NEW g \in Hosts, g # h PROVE HostInStep(g)'
  <2>1. HostInStep(g) /\ host'[g] = host[g] /\ answered'[g] = answered[g]
    BY <1>3 DEF Inv, StepInv
  <2> QED  BY <1>2, <1>3, <2>1 DEF HostInStep
<1> QED  BY <1>1, <1>2, <1>3

\* A step that sends nothing new leaves the histories and answers valid.
LEMMA QuietKeeps ==
  ASSUME Inv, NEW h \in Hosts,
         UNCHANGED <<sessions, handshakes, executed, responses, requests, answered>>,
         host' \in [Hosts -> HostStates],
         \A g \in Hosts : g # h => host'[g] = host[g],
         host'[h].state \notin {"idle", "creating", "authenticating"},
         Live(h)' => Live(h) /\ host'[h].key = host[h].key,
         HostInStep(h)'
  PROVE  Inv'
<1>1. EntryInv' /\ StepInv'
  BY HostStepKeeps DEF StepInv
<1>2. HistoryInv'
  BY DEF Inv, HistoryInv, Sent
<1>3. RequestInv'
  <2>1. \A g \in Hosts : Live(g)' => Live(g) /\ host'[g].key = host[g].key
    BY DEF Live
  <2> QED  BY <2>1 DEF Inv, RequestInv
<1>4. \A g \in Hosts : \A key : Uses(g, key)' => Uses(g, key)
  BY DEF Uses, Live
<1>5. ResponseInv'
  <2>1. \A r \in responses : r.type = "authenticated" => r.to \in Hosts
    BY DEF Inv, ResponseInv, AuthenticatedHolds, RequestInv
  <2> QED  BY <1>4, <2>1 DEF Inv, ResponseInv, CreatedHolds, AuthenticatedHolds, AnswerHolds
<1> QED  BY <1>1, <1>2, <1>3, <1>5 DEF Inv

LEMMA HostGivesUpKeeps ==
  ASSUME Inv, NEW h \in Hosts, HostGivesUp(h)
  PROVE  Inv' /\ UNCHANGED <<requests, executed, answered>>
<1>1. /\ host' = [host EXCEPT ![h] = [state |-> "done"]]
      /\ UNCHANGED <<sessions, handshakes, executed, responses, requests, answered>>
  BY DEF HostGivesUp, deviceVars
<1>2. /\ host'[h] = [state |-> "done"]
      /\ \A g \in Hosts : g # h => host'[g] = host[g]
      /\ host' \in [Hosts -> HostStates]
  BY <1>1 DEF Inv, HistoryInv, HostStates
<1>3. host'[h].state = "done" /\ ~Live(h)'
  BY <1>2 DEF Live
<1>4. \A key : Uses(h, key)' => Uses(h, key)
  BY <1>1, <1>3 DEF Uses
<1>5. HostInStep(h)'
  BY <1>1, <1>3, <1>4 DEF Inv, StepInv, HostInStep
<1> QED  BY <1>1, <1>2, <1>3, <1>5, QuietKeeps

\* The device answered the host's own cryptogram, so the session is open on
\* both sides.
LEMMA HostOpenKeeps ==
  ASSUME Inv, NEW h \in Hosts, NEW r \in responses, HostOpen(h, r)
  PROVE  Inv' /\ UNCHANGED <<requests, executed, answered>>
<1>1. /\ host' = [host EXCEPT ![h].state = "open"]
      /\ host[h].state = "authenticating" /\ r.to = h /\ r.type = "authenticated"
      /\ UNCHANGED <<sessions, handshakes, executed, responses, requests, answered>>
  BY DEF HostOpen, deviceVars
<1>2. Live(h) /\ host[h].counter \in Nat /\ First(h) <= host[h].counter
      /\ host[h] \in [ state : {"authenticating", "open", "waiting", "closing"},
                        sid : Sids, key : Keys, chain : Seq(Nat), counter : Nat ]
  BY <1>1, HostTyped DEF Live
<1>3. host'[h] = [host[h] EXCEPT !.state = "open"]
      /\ \A g \in Hosts : g # h => host'[g] = host[g]
  BY <1>1 DEF Inv, HistoryInv
<1>4. /\ host'[h].state = "open" /\ host'[h].sid = host[h].sid
      /\ host'[h].key = host[h].key /\ host'[h].chain = host[h].chain
      /\ host'[h].counter = host[h].counter
      /\ host'[h] \in HostStates
  BY <1>2, <1>3 DEF HostStates
<1>5. host' \in [Hosts -> HostStates]
  BY <1>1, <1>4 DEF Inv, HistoryInv
<1>6. Live(h)' /\ \A key : Uses(h, key)' <=> Uses(h, key)
  BY <1>1, <1>2, <1>4 DEF Live, Uses
<1>7. HostInStep(h)'
  <2>1. Len(answered[h]) = 0 /\ host[h].counter = 1
        /\ host[h].chain = Upto(h, host[h].counter) /\ host[h].key[1] = h
        /\ host[h].key[2] <= handshakes
    BY <1>1, <1>2 DEF Inv, StepInv, HostInStep
  <2>2. \A n : ~Sent(h, n)' 
    BY <1>1 DEF Inv, RequestInv, Sent, Message
  <2>3. \A sid \in DOMAIN sessions : sessions[sid].key = host[h].key =>
          /\ sid = host[h].sid /\ sessions[sid].counter = 1
    <3>1. \A sid \in DOMAIN sessions :
            Uses(h, sessions[sid].key) => sessions[sid].counter # 0
      BY <1>1 DEF Inv, ResponseInv, AuthenticatedHolds
    <3>2. \A sid \in DOMAIN sessions : sessions[sid].key = host[h].key =>
            sid = host[h].sid /\ sessions[sid].counter \in {0, 1}
      BY <1>1, <1>2 DEF Inv, StepInv, HostInStep
    <3> QED  BY <1>2, <3>1, <3>2 DEF Uses
  <2>4. \A sid \in DOMAIN sessions : Uses(h, sessions[sid].key) =>
         /\ sessions[sid].counter = 0 => Len(executed[h]) = 0
         /\ sessions[sid].counter # 0 => sessions[sid].counter = Len(executed[h]) + 1
    BY DEF Inv, StepInv, HostInStep
  <2> QED  BY <1>1, <1>4, <1>6, <2>1, <2>2, <2>3, <2>4 DEF HostInStep
<1> QED  BY <1>1, <1>2, <1>3, <1>4, <1>5, <1>6, <1>7, QuietKeeps

\* A host that has no session yet has sent nothing that a session accepts.
LEMMA FreshHost ==
  ASSUME Inv, NEW h \in Hosts, host[h].state \in {"idle", "creating"}
  PROVE  /\ \A m \in requests : ~(Carries(m) /\ m.from = h)
         /\ \A key : ~Uses(h, key)
         /\ \A n : ~Sent(h, n)
         /\ Len(executed[h]) = 0 /\ Len(answered[h]) = 0
         /\ \A sid \in DOMAIN sessions :
              sessions[sid].key[1] = h => sessions[sid].counter = First(h)
         /\ \A r \in responses : r.type = "authenticated" => r.to # h
<1>1. \A m \in requests : ~(Carries(m) /\ m.from = h)
  BY DEF Inv, RequestInv
<1>2. \A key : ~Uses(h, key)
  BY <1>1 DEF Uses, Live
<1>3. \A n : ~Sent(h, n)
  BY <1>1 DEF Sent, Message, Carries
<1>4. Len(executed[h]) = 0
  BY <1>3, HostTyped DEF Inv, HistoryInv
<1>5. Len(answered[h]) = 0
  BY DEF Inv, StepInv, HostInStep
<1>6. \A sid \in DOMAIN sessions :
        sessions[sid].key[1] = h => sessions[sid].counter = First(h)
  BY <1>1 DEF Inv, EntryInv, RequestInv
<1>7. \A r \in responses : r.type = "authenticated" => r.to # h
  BY <1>1 DEF Inv, ResponseInv, AuthenticatedHolds, Carries
<1> QED  BY <1>1, <1>2, <1>3, <1>4, <1>5, <1>6, <1>7

LEMMA HostCreateKeeps ==
  ASSUME Inv, NEW h \in Hosts, HostCreate(h)
  PROVE  /\ Inv' /\ UNCHANGED <<executed, answered>>
         /\ \A m \in requests' : m \in requests \/ m.type # "message"
         /\ requests \subseteq requests'
<1> DEFINE frame == [from |-> h, type |-> "create"]
<1>1. /\ host[h].state = "idle"
      /\ host' = [host EXCEPT ![h] = [state |-> "creating"]]
      /\ requests' = requests \cup {frame}
      /\ UNCHANGED <<sessions, handshakes, executed, responses, answered>>
  BY DEF HostCreate, Send, deviceVars
<1>2. frame.from = h /\ frame.type = "create" /\ ~Carries(frame)
  BY DEF Carries
<1> HIDE DEF frame
<1>3. /\ host'[h] = [state |-> "creating"]
      /\ \A g \in Hosts : g # h => host'[g] = host[g]
      /\ host' \in [Hosts -> HostStates]
  BY <1>1 DEF Inv, HistoryInv, HostStates
<1>4. host'[h].state = "creating" /\ ~Live(h)' /\ ~Live(h)
  BY <1>1, <1>3 DEF Live
<1>5. /\ requests \subseteq requests' /\ \A m \in requests' : m \in requests \/ m = frame
      /\ \A m \in requests' : m \in requests \/ m.from = h
  BY <1>1, <1>2
<1>6. /\ EntryInv'
      /\ \A g \in Hosts : g # h => HostInStep(g)'
      /\ \A g \in Hosts : g # h =>
           /\ Live(g)' <=> Live(g)
           /\ \A n : Sent(g, n)' <=> Sent(g, n)
           /\ \A key : Uses(g, key)' <=> Uses(g, key)
  BY <1>1, <1>3, <1>5, HostStepKeeps
<1>7. /\ \A n : ~Sent(h, n)' /\ ~Sent(h, n)
      /\ \A key : ~Uses(h, key)' /\ ~Uses(h, key)
      /\ Len(answered[h]) = 0
  BY <1>1, <1>2, <1>4, <1>5, FreshHost DEF Sent, Message, Uses, Carries
<1>8. HistoryInv'
  <2>1. \A g \in Hosts : \A n : Sent(g, n) => Sent(g, n)'
    BY <1>6, <1>7
  <2> QED  BY <1>1, <1>3, <2>1 DEF Inv, HistoryInv
<1>9. RequestInv'
  <2>1. \A m \in requests : Carries(m) => m.from # h
    BY <1>1, FreshHost
  <2>2. \A g \in Hosts : g # h => host'[g] = host[g] /\ (Live(g)' <=> Live(g))
    BY <1>3, <1>6
  <2>3. \A m \in requests : m.type = "message" => Carries(m)
    BY DEF Carries
  <2>4. \A m \in requests' : Carries(m) => m \in requests
    BY <1>2, <1>5
  <2>5. \A m \in requests' : m.type \in {"auth", "message"} => m \in requests
    BY <1>2, <1>5
  <2> QED  BY <1>1, <1>2, <1>5, <2>1, <2>2, <2>3, <2>4, <2>5 DEF Inv, RequestInv
<1>10. ResponseInv'
  <2>1. ASSUME NEW r \in responses, r.type = "authenticated" PROVE AuthenticatedHolds(r)'
    <3>1. AuthenticatedHolds(r) /\ r.to \in Hosts
      BY <2>1 DEF Inv, ResponseInv, AuthenticatedHolds, RequestInv
    <3> QED  BY <1>1, <1>5, <1>6, <1>7, <3>1 DEF AuthenticatedHolds
  <2> QED  BY <1>1, <2>1 DEF Inv, ResponseInv, CreatedHolds, AnswerHolds
<1>11. HostInStep(h)'
  BY <1>1, <1>4, <1>7 DEF HostInStep
<1>12. StepInv'
  BY <1>6, <1>11 DEF StepInv
<1> QED  BY <1>1, <1>2, <1>5, <1>6, <1>8, <1>9, <1>10, <1>12 DEF Inv

\* The session the host opens is still in the state the device created it in.
LEMMA HostAuthenticateKeeps ==
  ASSUME Inv, NEW h \in Hosts, NEW r \in responses, HostAuthenticate(h, r)
  PROVE  /\ Inv' /\ UNCHANGED <<executed, answered>>
         /\ \A m \in requests' : m \in requests \/ m.type # "message"
         /\ requests \subseteq requests'
<1> DEFINE frame == [ from |-> h, type |-> "auth", sid |-> r.sid,
                      key |-> r.key, chain |-> << >> ]
           knows == IF h \in Asymmetric
                      THEN [ state |-> "open", sid |-> r.sid, key |-> r.key,
                             chain |-> << >>, counter |-> 1 ]
                      ELSE [ state |-> "authenticating", sid |-> r.sid,
                             key |-> r.key, chain |-> <<0>>, counter |-> 1 ]
<1>1. /\ host[h].state = "creating" /\ r.to = h /\ r.type = "created"
      /\ host' = [host EXCEPT ![h] = knows]
      /\ requests' = IF h \in Asymmetric THEN requests ELSE requests \cup {frame}
      /\ UNCHANGED <<sessions, handshakes, executed, responses, answered>>
  BY DEF HostAuthenticate, Send, deviceVars
<1>2. /\ frame.from = h /\ frame.type = "auth" /\ frame.key = r.key /\ frame.chain = << >>
      /\ Carries(frame)
  BY DEF Carries
<1> HIDE DEF frame
<1>3. /\ r.key \in Keys /\ r.key[1] = h /\ r.key[2] <= handshakes /\ r.sid \in Sids
      /\ \A sid \in DOMAIN sessions : sessions[sid].key = r.key => sid = r.sid
  BY <1>1 DEF Inv, ResponseInv, CreatedHolds
<1>4. /\ knows \in HostStates /\ knows.key = r.key /\ knows.sid = r.sid
      /\ knows.counter = 1 /\ knows.chain = Upto(h, 1)
      /\ knows.state = IF h \in Asymmetric THEN "open" ELSE "authenticating"
  <2>1. Upto(h, 1) = IF h \in Asymmetric THEN << >> ELSE <<0>>
    BY DEF Upto, First
  <2>2. << >> \in Seq(Nat) /\ <<0>> \in Seq(Nat)
    OBVIOUS
  <2>3. CASE h \in Asymmetric
    BY <1>3, <2>1, <2>2, <2>3 DEF HostStates
  <2>4. CASE h \notin Asymmetric
    BY <1>3, <2>1, <2>2, <2>4 DEF HostStates
  <2> QED  BY <2>3, <2>4
<1> HIDE DEF knows
<1>5. /\ host'[h] = knows
      /\ \A g \in Hosts : g # h => host'[g] = host[g]
      /\ host' \in [Hosts -> HostStates]
  BY <1>1, <1>4 DEF Inv, HistoryInv
<1>6. /\ requests \subseteq requests' /\ \A m \in requests' : m \in requests \/ m = frame
      /\ \A m \in requests' : m \in requests \/ m.from = h
      /\ h \in Asymmetric => requests' = requests
      /\ h \notin Asymmetric => frame \in requests'
  BY <1>1, <1>2
<1>7. /\ EntryInv'
      /\ \A g \in Hosts : g # h => HostInStep(g)'
      /\ \A g \in Hosts : g # h =>
           /\ Live(g)' <=> Live(g)
           /\ \A n : Sent(g, n)' <=> Sent(g, n)
           /\ \A key : Uses(g, key)' <=> Uses(g, key)
  BY <1>1, <1>5, <1>6, HostStepKeeps
<1>8. /\ \A m \in requests : ~(Carries(m) /\ m.from = h)
      /\ \A n : ~Sent(h, n)
      /\ Len(executed[h]) = 0 /\ Len(answered[h]) = 0
      /\ \A sid \in DOMAIN sessions :
           sessions[sid].key[1] = h => sessions[sid].counter = First(h)
      /\ \A q \in responses : q.type = "authenticated" => q.to # h
  BY <1>1, FreshHost
<1>9. \A n : ~Sent(h, n)'
  BY <1>2, <1>6, <1>8 DEF Sent, Message
<1>10. Live(h)' /\ \A key : Uses(h, key)' => key = r.key
  BY <1>2, <1>4, <1>5, <1>6, <1>8 DEF Uses, Live
<1>11. HistoryInv'
  <2>1. \A g \in Hosts : \A n : Sent(g, n) => Sent(g, n)'
    BY <1>7, <1>8
  <2> QED  BY <1>1, <1>5, <2>1 DEF Inv, HistoryInv
<1>12. RequestInv'
  <2>1. \A m \in requests : Carries(m) => m.from # h
    BY <1>8
  <2>2. \A g \in Hosts : g # h => host'[g] = host[g] /\ (Live(g)' <=> Live(g))
    BY <1>5, <1>7
  <2>3. \A m \in requests : m.type = "message" => Carries(m)
    BY DEF Carries
  <2>4. \A m \in requests' : m \notin requests => m = frame /\ h \notin Asymmetric
    BY <1>6
  <2>5. host'[h].key = r.key /\ host'[h].state \notin {"idle", "creating"}
    BY <1>4, <1>5
  <2>6. \A m \in requests' : m.from \in Hosts /\ m.type \in {"create", "auth", "message"}
    BY <1>2, <2>4 DEF Inv, RequestInv
  <2>7. \A m \in requests' : Carries(m) =>
          /\ m.key \in Keys /\ m.key[1] = m.from /\ m.key[2] <= handshakes'
          /\ Live(m.from)' => m.key = host'[m.from].key
          /\ host'[m.from].state \notin {"idle", "creating"}
    BY <1>1, <1>2, <1>3, <2>1, <2>2, <2>4, <2>5 DEF Inv, RequestInv
  <2>8. \A m, n \in requests' :
          Carries(m) /\ Carries(n) /\ m.from = n.from => m.key = n.key
    BY <1>2, <2>1, <2>4 DEF Inv, RequestInv
  <2>9. \A m \in requests' : m.type = "auth" => m.from \notin Asymmetric /\ m.chain = << >>
    BY <1>2, <2>4 DEF Inv, RequestInv
  <2>10. \A m \in requests' : m.type = "message" =>
           /\ m.command \in 1..MaxCommands /\ m.counter = m.command
           /\ m.command <= Len(answered'[m.from]) + 1
           /\ m.chain = Upto(m.from, m.command) /\ m.closes \in BOOLEAN
           /\ host'[m.from].state # "authenticating"
    <3>1. \A m \in requests' : m.type = "message" => m \in requests /\ m.from \in Hosts \ {h}
      BY <1>2, <2>1, <2>3, <2>4, <2>6
    <3> QED  BY <1>1, <2>2, <3>1 DEF Inv, RequestInv
  <2> QED  BY <2>6, <2>7, <2>8, <2>9, <2>10 DEF RequestInv
<1>13. ResponseInv'
  <2>1. ASSUME NEW q \in responses, q.type = "authenticated" PROVE AuthenticatedHolds(q)'
    <3>1. AuthenticatedHolds(q) /\ q.to \in Hosts /\ q.to # h
      BY <1>8, <2>1 DEF Inv, ResponseInv, AuthenticatedHolds, RequestInv
    <3> QED  BY <1>1, <1>6, <1>7, <3>1 DEF AuthenticatedHolds
  <2> QED  BY <1>1, <2>1 DEF Inv, ResponseInv, CreatedHolds, AnswerHolds
<1>14. HostInStep(h)'
  <2>1. \A sid \in DOMAIN sessions : sessions[sid].key = r.key =>
          /\ sid = r.sid /\ sessions[sid].counter = First(h)
    BY <1>3, <1>8
  <2>2. CASE h \in Asymmetric
    <3>1. First(h) = 1 /\ knows.state = "open"
      BY <1>4, <2>2 DEF First
    <3> QED  BY <1>1, <1>3, <1>4, <1>5, <1>8, <1>9, <1>10, <2>1, <3>1 DEF HostInStep
  <2>3. CASE h \notin Asymmetric
    <3>1. First(h) = 0 /\ knows.state = "authenticating"
      BY <1>4, <2>3 DEF First
    <3> QED  BY <1>1, <1>3, <1>4, <1>5, <1>8, <1>9, <1>10, <2>1, <2>3, <3>1 DEF HostInStep
  <2> QED  BY <2>2, <2>3
<1>15. StepInv'
  BY <1>7, <1>14 DEF StepInv
<1> QED  BY <1>1, <1>2, <1>6, <1>7, <1>11, <1>12, <1>13, <1>15 DEF Inv

\* A host that is open sends the command after the last one answered.
LEMMA HostCommandKeeps ==
  ASSUME Inv, NEW h \in Hosts, NEW closes \in BOOLEAN, HostCommand(h, closes)
  PROVE  /\ Inv' /\ UNCHANGED <<executed, answered>>
         /\ ~Sent(h, Len(answered[h]) + 1) /\ Len(answered[h]) < MaxCommands
         /\ requests \subseteq requests'
         /\ \A m \in requests' :
              m \in requests \/ Message(h, m, Len(answered[h]) + 1)
         /\ \E m \in requests' : Message(h, m, Len(answered[h]) + 1)
<1> DEFINE n == Len(answered[h]) + 1
           frame == [ from |-> h, type |-> "message", sid |-> host[h].sid,
                      key |-> host[h].key, chain |-> host[h].chain,
                      counter |-> host[h].counter, command |-> n, closes |-> closes ]
           to == IF closes THEN "closing" ELSE "waiting"
<1>1. /\ host[h].state = "open" /\ n <= MaxCommands
      /\ host' = [host EXCEPT ![h] = [host[h] EXCEPT !.state = to, !.chain = Append(@, n)]]
      /\ requests' = requests \cup {frame}
      /\ UNCHANGED <<sessions, handshakes, executed, responses, answered>>
  BY DEF HostCommand, Send, deviceVars
<1>2. /\ frame.from = h /\ frame.type = "message" /\ frame.key = host[h].key
      /\ frame.chain = host[h].chain /\ frame.counter = host[h].counter
      /\ frame.command = n /\ frame.closes \in BOOLEAN /\ Carries(frame)
  BY DEF Carries
<1> HIDE DEF frame
<1>3. /\ Live(h) /\ Len(answered[h]) \in Nat /\ n \in Nat /\ n # 0
      /\ host[h] \in [ state : {"authenticating", "open", "waiting", "closing"},
                       sid : Sids, key : Keys, chain : Seq(Nat), counter : Nat ]
      /\ First(h) <= n
  BY <1>1, HostTyped, FirstTyped DEF Live
<1>4. /\ host[h].counter = n /\ host[h].chain = Upto(h, n)
      /\ host[h].key[1] = h /\ host[h].key[2] <= handshakes
      /\ ~Sent(h, n)
      /\ \A sid \in DOMAIN sessions : sessions[sid].key = host[h].key =>
           sid = host[h].sid /\ sessions[sid].counter = n
  BY <1>1, <1>3 DEF Inv, StepInv, HostInStep
<1>5. Append(host[h].chain, n) = Upto(h, n + 1) /\ Upto(h, n + 1) \in Seq(Nat)
  <2>1. n + 1 \in Nat /\ First(h) <= n + 1
    BY <1>3, FirstTyped
  <2>2. Append(Upto(h, n), n) = Upto(h, n + 1)
    BY <1>3, UptoGrows
  <2>3. Upto(h, n + 1) \in Seq(Nat)
    BY <2>1, UptoGrows
  <2> QED  BY <1>4, <2>2, <2>3
<1>6. /\ host'[h] = [host[h] EXCEPT !.state = to, !.chain = Append(host[h].chain, n)]
      /\ \A g \in Hosts : g # h => host'[g] = host[g]
  BY <1>1 DEF Inv, HistoryInv
<1>7. /\ host'[h].state = to /\ host'[h].sid = host[h].sid
      /\ host'[h].key = host[h].key /\ host'[h].chain = Upto(h, n + 1)
      /\ host'[h].counter = n
      /\ host'[h] \in HostStates
      /\ to \in {"waiting", "closing"}
  <2>1. to \in {"waiting", "closing"}
    OBVIOUS
  <2> DEFINE chain == Upto(h, n + 1)
  <2>2. host'[h] = [host[h] EXCEPT !.state = to, !.chain = chain] /\ chain \in Seq(Nat)
    BY <1>5, <1>6
  <2> HIDE DEF to, chain
  <2>3. /\ host'[h].state = to /\ host'[h].sid = host[h].sid
        /\ host'[h].key = host[h].key /\ host'[h].chain = chain
        /\ host'[h].counter = host[h].counter
    BY <1>3, <2>2
  <2>4. host'[h] \in HostStates
    BY <1>3, <2>1, <2>2 DEF HostStates
  <2> QED  BY <1>4, <2>1, <2>3, <2>4 DEF chain
<1> HIDE DEF to
<1>8. host' \in [Hosts -> HostStates]
  BY <1>1, <1>6, <1>7 DEF Inv, HistoryInv
<1>9. /\ requests \subseteq requests' /\ \A m \in requests' : m \in requests \/ m = frame
      /\ \A m \in requests' : m \in requests \/ m.from = h
      /\ frame \in requests'
  BY <1>1, <1>2
<1>10. /\ EntryInv'
       /\ \A g \in Hosts : g # h => HostInStep(g)'
       /\ \A g \in Hosts : g # h =>
            /\ Live(g)' <=> Live(g)
            /\ \A k : Sent(g, k)' <=> Sent(g, k)
            /\ \A key : Uses(g, key)' <=> Uses(g, key)
  BY <1>1, <1>6, <1>9, HostStepKeeps
<1>11. /\ Live(h)' /\ \A key : Uses(h, key)' <=> Uses(h, key)
       /\ Sent(h, n)' /\ \A k : Sent(h, k) => Sent(h, k)'
  <2>1. Live(h)'
    BY <1>7 DEF Live
  <2>2. \A key : Uses(h, key)' <=> Uses(h, key)
    BY <1>2, <1>3, <1>7, <1>9, <2>1 DEF Uses
  <2>3. Sent(h, n)' /\ \A k : Sent(h, k) => Sent(h, k)'
    BY <1>1, <1>2, <1>9 DEF Sent, Message
  <2> QED  BY <2>1, <2>2, <2>3
<1>12. HistoryInv'
  <2>1. \A g \in Hosts : \A k : Sent(g, k) => Sent(g, k)'
    BY <1>10, <1>11
  <2> QED  BY <1>1, <1>8, <2>1 DEF Inv, HistoryInv
<1>13. RequestInv'
  <2>1. \A m \in requests : Carries(m) /\ m.from = h => m.key = host[h].key
    BY <1>3 DEF Inv, RequestInv
  <2>2. \A g \in Hosts : g # h => host'[g] = host[g] /\ (Live(g)' <=> Live(g))
    BY <1>6, <1>10
  <2>3. \A m \in requests' : m.from \in Hosts /\ m.type \in {"create", "auth", "message"}
    BY <1>2, <1>9 DEF Inv, RequestInv
  <2>4. \A m \in requests' : Carries(m) =>
          /\ m.key \in Keys /\ m.key[1] = m.from /\ m.key[2] <= handshakes'
          /\ Live(m.from)' => m.key = host'[m.from].key
          /\ host'[m.from].state \notin {"idle", "creating"}
    <3>1. \A m \in requests : Carries(m) => m.key \in Keys /\ m.key[1] = m.from
            /\ m.key[2] <= handshakes
            /\ (Live(m.from) => m.key = host[m.from].key)
            /\ host[m.from].state \notin {"idle", "creating"} /\ m.from \in Hosts
      BY DEF Inv, RequestInv
    <3>2. host[h].key \in Keys /\ host'[h].state \notin {"idle", "creating"}
      BY <1>3, <1>7
    <3> QED  BY <1>1, <1>2, <1>4, <1>7, <1>9, <2>1, <2>2, <3>1, <3>2
  <2>5. \A m, k \in requests' :
          Carries(m) /\ Carries(k) /\ m.from = k.from => m.key = k.key
    BY <1>2, <1>9, <2>1 DEF Inv, RequestInv
  <2>6. \A m \in requests' : m.type = "auth" => m.from \notin Asymmetric /\ m.chain = << >>
    BY <1>2, <1>9 DEF Inv, RequestInv
  <2>7. ASSUME NEW m \in requests', m.type = "message"
        PROVE  /\ m.command \in 1..MaxCommands /\ m.counter = m.command
               /\ m.command <= Len(answered'[m.from]) + 1
               /\ m.chain = Upto(m.from, m.command) /\ m.closes \in BOOLEAN
               /\ host'[m.from].state # "authenticating"
    <3>1. CASE m = frame
      <4>1. n \in 1..MaxCommands /\ n <= Len(answered'[h]) + 1
        BY <1>1, <1>3, ChannelAssumption
      <4> QED  BY <1>2, <1>4, <1>7, <3>1, <4>1
    <3>2. CASE m \in requests
      <4>1. /\ m.command \in 1..MaxCommands /\ m.counter = m.command
            /\ m.command <= Len(answered[m.from]) + 1
            /\ m.chain = Upto(m.from, m.command) /\ m.closes \in BOOLEAN
            /\ host[m.from].state # "authenticating" /\ m.from \in Hosts
        BY <2>7, <3>2 DEF Inv, RequestInv
      <4>2. host'[m.from].state # "authenticating"
        BY <1>6, <1>7, <4>1
      <4> QED  BY <1>1, <4>1, <4>2
    <3> QED  BY <1>9, <3>1, <3>2
  <2> QED  BY <2>3, <2>4, <2>5, <2>6, <2>7 DEF RequestInv
<1>14. ResponseInv'
  <2>1. ASSUME NEW q \in responses, q.type = "authenticated" PROVE AuthenticatedHolds(q)'
    <3>1. AuthenticatedHolds(q) /\ q.to \in Hosts
      BY <2>1 DEF Inv, ResponseInv, AuthenticatedHolds, RequestInv
    <3> QED  BY <1>1, <1>9, <1>10, <1>11, <3>1 DEF AuthenticatedHolds
  <2> QED  BY <1>1, <2>1 DEF Inv, ResponseInv, CreatedHolds, AnswerHolds
<1>15. HostInStep(h)'
  <2>1. \A sid \in DOMAIN sessions : Uses(h, sessions[sid].key) =>
         /\ sessions[sid].counter = 0 => Len(executed[h]) = 0
         /\ sessions[sid].counter # 0 => sessions[sid].counter = Len(executed[h]) + 1
    BY DEF Inv, StepInv, HostInStep
  <2> QED  BY <1>1, <1>4, <1>7, <1>11, <2>1 DEF HostInStep
<1>16. StepInv'
  BY <1>10, <1>15 DEF StepInv
<1>17. Len(answered[h]) < MaxCommands
  BY <1>1, <1>3, ChannelAssumption
<1>18. Message(h, frame, n)
  BY <1>2 DEF Message
<1> QED  BY <1>1, <1>4, <1>9, <1>10, <1>12, <1>13, <1>14, <1>16, <1>17, <1>18 DEF Inv

\* An answer the host accepts is the one to the command it sent last, which
\* has been executed.
LEMMA HostAcceptKeeps ==
  ASSUME Inv, NEW h \in Hosts, NEW r \in responses, HostAccept(h, r)
  PROVE  /\ Inv' /\ UNCHANGED <<executed, requests>>
         /\ Len(answered[h]) < Len(executed[h])
         /\ answered' = [answered EXCEPT ![h] = Append(@, Len(@) + 1)]
<1> DEFINE n == Len(answered[h]) + 1
           to == IF host[h].state = "closing" THEN "done" ELSE "open"
<1>1. /\ host[h].state \in {"waiting", "closing"} /\ r.to = h /\ r.type = "answer"
      /\ r.key = host[h].key /\ r.chain = host[h].chain /\ r.counter = host[h].counter
      /\ answered' = [answered EXCEPT ![h] = Append(@, r.result)]
      /\ host' = [host EXCEPT ![h].state = to, ![h].counter = @ + 1]
      /\ UNCHANGED <<sessions, handshakes, executed, responses, requests>>
  BY DEF HostAccept, deviceVars
<1>2. /\ Live(h) /\ Len(answered[h]) \in Nat /\ Len(executed[h]) \in Nat /\ n \in Nat /\ n # 0
      /\ host[h] \in [ state : {"authenticating", "open", "waiting", "closing"},
                       sid : Sids, key : Keys, chain : Seq(Nat), counter : Nat ]
  BY <1>1, HostTyped DEF Live
<1>3. /\ host[h].counter = n /\ host[h].chain = Upto(h, n + 1)
      /\ host[h].key[1] = h /\ host[h].key[2] <= handshakes
      /\ \A sid \in DOMAIN sessions : sessions[sid].key = host[h].key =>
           sid = host[h].sid /\ sessions[sid].counter \in {n, n + 1}
  BY <1>1, <1>2 DEF Inv, StepInv, HostInStep
<1>4. /\ r.result = n /\ n \in 1..Len(executed[h])
      /\ \A sid \in DOMAIN sessions :
           sessions[sid].key = host[h].key => n < sessions[sid].counter
  BY <1>1, <1>3 DEF Inv, ResponseInv, AnswerHolds
<1>5. Len(answered[h]) < Len(executed[h]) /\ Sent(h, n) /\ n \in 0..MaxCommands
  BY <1>2, <1>4, ChannelAssumption DEF Inv, HistoryInv
<1>6. /\ answered'[h] = Count(n) /\ Len(answered'[h]) = n /\ DOMAIN answered' = Hosts
      /\ \A g \in Hosts : g # h => answered'[g] = answered[g]
      /\ answered' = [answered EXCEPT ![h] = Append(@, Len(@) + 1)]
  <2>1. DOMAIN answered = Hosts /\ answered[h] = Count(Len(answered[h]))
    BY DEF Inv, HistoryInv
  <2>2. Append(answered[h], n) = Count(n) /\ Len(Count(n)) = n
    BY <1>2, <2>1, CountGrows
  <2>3. answered'[h] = Append(answered[h], n) /\ DOMAIN answered' = Hosts
    BY <1>1, <1>4, <2>1
  <2>4. \A g \in Hosts : g # h => answered'[g] = answered[g]
    BY <1>1, <2>1
  <2>5. answered' = [answered EXCEPT ![h] = Append(@, Len(@) + 1)]
    BY <1>1, <1>4
  <2> QED  BY <2>2, <2>3, <2>4, <2>5
<1>7. /\ host'[h] = [host[h] EXCEPT !.state = to, !.counter = host[h].counter + 1]
      /\ \A g \in Hosts : g # h => host'[g] = host[g]
  BY <1>1, Zenon DEF Inv, HistoryInv
<1>8. /\ host'[h].state = to /\ host'[h].sid = host[h].sid
      /\ host'[h].key = host[h].key /\ host'[h].chain = host[h].chain
      /\ host'[h].counter = n + 1
      /\ host'[h] \in HostStates
      /\ to \in {"open", "done"}
  <2>1. to \in {"open", "done"} /\ host[h].counter + 1 = n + 1 /\ n + 1 \in Nat
    BY <1>2, <1>3
  <2> DEFINE counter == host[h].counter + 1
  <2>2. host'[h] = [host[h] EXCEPT !.state = to, !.counter = counter] /\ counter \in Nat
    BY <1>2, <1>7
  <2> HIDE DEF to, counter
  <2>3. /\ host'[h].state = to /\ host'[h].sid = host[h].sid
        /\ host'[h].key = host[h].key /\ host'[h].chain = host[h].chain
        /\ host'[h].counter = counter
    BY <1>2, <2>2
  <2>4. host'[h] \in HostStates
    BY <1>2, <2>1, <2>2 DEF HostStates
  <2> QED  BY <2>1, <2>3, <2>4 DEF counter
<1> HIDE DEF to
<1>9. host' \in [Hosts -> HostStates]
  <2>1. host' = [g \in Hosts |-> host'[g]]
    BY <1>1 DEF Inv, HistoryInv
  <2>2. \A g \in Hosts : host'[g] \in HostStates
    BY <1>7, <1>8 DEF Inv, HistoryInv
  <2> QED  BY <2>1, <2>2
<1>10. /\ EntryInv'
       /\ \A g \in Hosts : g # h => HostInStep(g)'
       /\ \A g \in Hosts : g # h =>
            /\ Live(g)' <=> Live(g)
            /\ \A k : Sent(g, k)' <=> Sent(g, k)
            /\ \A key : Uses(g, key)' <=> Uses(g, key)
  <2>1. /\ UNCHANGED <<sessions, handshakes, executed, responses>>
        /\ requests \subseteq requests' /\ \A m \in requests' : m \in requests \/ m.from = h
    BY <1>1
  <2>2. \A g \in Hosts : g # h => host'[g] = host[g] /\ answered'[g] = answered[g]
    BY <1>6, <1>7
  <2> QED  BY <2>1, <2>2, HostStepKeeps
<1>11. /\ \A key : Uses(h, key)' => Uses(h, key)
       /\ \A k : Sent(h, k)' <=> Sent(h, k)
  BY <1>1, <1>2, <1>8 DEF Uses, Sent
<1>12. HistoryInv'
  <2>1. \A k \in 1..n : Sent(h, k)
    <3>1. \A k \in 1..n : k = n \/ k \in 1..Len(answered[h])
      BY <1>2
    <3> QED  BY <1>5, <3>1 DEF Inv, HistoryInv
  <2>2. ASSUME NEW g \in Hosts
        PROVE  /\ Len(answered'[g]) \in 0..MaxCommands
               /\ answered'[g] = Count(Len(answered'[g]))
               /\ \A k \in 1..Len(answered'[g]) : Sent(g, k)'
    <3> HIDE DEF n
    <3>1. CASE g = h
      BY <1>5, <1>6, <1>11, <2>1, <3>1
    <3>2. CASE g # h
      BY <1>6, <1>10, <3>2 DEF Inv, HistoryInv
    <3> QED  BY <3>1, <3>2
  <2>3. \A g \in Hosts : \A k : Sent(g, k) => Sent(g, k)'
    BY <1>10, <1>11
  <2> QED  BY <1>1, <1>6, <1>9, <2>2, <2>3 DEF Inv, HistoryInv
<1>13. RequestInv'
  <2>1. \A g \in Hosts : /\ Live(g)' => Live(g) /\ host'[g].key = host[g].key
                         /\ host[g].state \notin {"idle", "creating"} =>
                              host'[g].state \notin {"idle", "creating"}
                         /\ host[g].state # "authenticating" =>
                              host'[g].state # "authenticating"
    BY <1>2, <1>7, <1>8, <1>10
  <2>2. \A g \in Hosts : Len(answered[g]) \in Nat /\ Len(answered'[g]) \in Nat
                         /\ Len(answered[g]) <= Len(answered'[g])
    BY <1>2, <1>6, HostTyped
  <2>3. \A m \in requests : m.type = "message" => m.command <= Len(answered'[m.from]) + 1
    <3>1. \A m \in requests : m.type = "message" =>
            /\ m.from \in Hosts /\ m.command \in 1..MaxCommands
            /\ m.command <= Len(answered[m.from]) + 1
      BY DEF Inv, RequestInv
    <3> QED  BY <2>2, <3>1, ChannelAssumption
  <2> QED  BY <1>1, <2>1, <2>3 DEF Inv, RequestInv
<1>14. ResponseInv'
  <2>1. ASSUME NEW q \in responses, q.type = "authenticated" PROVE AuthenticatedHolds(q)'
    <3>1. AuthenticatedHolds(q) /\ q.to \in Hosts
      BY <2>1 DEF Inv, ResponseInv, AuthenticatedHolds, RequestInv
    <3> QED  BY <1>1, <1>10, <1>11, <3>1 DEF AuthenticatedHolds
  <2> QED  BY <1>1, <2>1 DEF Inv, ResponseInv, CreatedHolds, AnswerHolds
<1>15. HostInStep(h)'
  <2>1. \A sid \in DOMAIN sessions : Uses(h, sessions[sid].key) =>
         /\ sessions[sid].counter = 0 => Len(executed[h]) = 0
         /\ sessions[sid].counter # 0 => sessions[sid].counter = Len(executed[h]) + 1
    BY DEF Inv, StepInv, HostInStep
  <2>2. ~Sent(h, n + 1)
    BY <1>2 DEF Sent, Message, Inv, RequestInv
  <2>3. \A sid \in DOMAIN sessions : sessions[sid].key = host[h].key =>
          sid = host[h].sid /\ sessions[sid].counter = n + 1
    BY <1>2, <1>3, <1>4
  <2> HIDE DEF n
  <2>4. host'[h].state \in {"open", "done"}
    BY <1>8
  <2>5. \A sid \in DOMAIN sessions' : Uses(h, sessions[sid].key)' =>
         /\ sessions'[sid].counter = 0 => Len(executed'[h]) = 0
         /\ sessions'[sid].counter # 0 => sessions'[sid].counter = Len(executed'[h]) + 1
    BY <1>1, <1>11, <2>1
  <2>6. ~Sent(h, Len(answered[h]) + 1)'
    BY <1>6, <1>11, <2>2
  <2>7. /\ host'[h].key[1] = h /\ host'[h].key[2] <= handshakes'
        /\ host'[h].counter = Len(answered'[h]) + 1
        /\ host'[h].chain = Upto(h, host'[h].counter)
    BY <1>1, <1>3, <1>6, <1>8
  <2>8. \A sid \in DOMAIN sessions' : sessions'[sid].key = host'[h].key =>
          sid = host'[h].sid /\ sessions'[sid].counter = host'[h].counter
    BY <1>1, <1>8, <2>3
  <2> QED  BY <2>4, <2>5, <2>6, <2>7, <2>8 DEF HostInStep, Live
<1>16. StepInv'
  BY <1>10, <1>15 DEF StepInv
<1> QED  BY <1>1, <1>5, <1>6, <1>10, <1>12, <1>13, <1>14, <1>16 DEF Inv

-----------------------------------------------------------------------------
(* The invariant, and what it says about sessions *)

\* The commands a host has sent, as the abstract specification counts them.
Commands(h) ==
  {m.command : m \in {n \in requests : n.type = "message" /\ n.from = h}}

\* The kinds of step, as the abstract specification sees them.
Silent ==
  UNCHANGED <<executed, answered>> /\ \A h \in Hosts : Commands(h)' = Commands(h)

Submits(h) ==
  /\ UNCHANGED <<executed, answered>>
  /\ ~Sent(h, Len(answered[h]) + 1) /\ Sent(h, Len(answered[h]) + 1)'
  /\ Len(answered[h]) < MaxCommands
  /\ \A g \in Hosts : g # h => Commands(g)' = Commands(g)

Executes(h) ==
  /\ Sent(h, Len(executed[h]) + 1)
  /\ executed' = [executed EXCEPT ![h] = Append(@, Len(@) + 1)]
  /\ UNCHANGED <<requests, answered>>

Answers(h) ==
  /\ Len(answered[h]) < Len(executed[h])
  /\ answered' = [answered EXCEPT ![h] = Append(@, Len(@) + 1)]
  /\ UNCHANGED <<requests, executed>>

\* Frames that are no commands do not change the commands sent.
LEMMA SameCommands ==
  ASSUME NEW h, requests \subseteq requests',
         \A m \in requests' : m \in requests \/ m.type # "message" \/ m.from # h
  PROVE  Commands(h)' = Commands(h)
<1>1. {n \in requests' : n.type = "message" /\ n.from = h}
        = {n \in requests : n.type = "message" /\ n.from = h}
  OBVIOUS
<1> QED  BY <1>1 DEF Commands

LEMMA NextKeeps ==
  ASSUME Inv, [Next]_vars
  PROVE  /\ Inv'
         /\ Silent \/ \E h \in Hosts : Submits(h) \/ Executes(h) \/ Answers(h)
<1>1. ASSUME NEW m \in requests, HandleFrame(m)
      PROVE  Inv' /\ (Silent \/ \E h \in Hosts : Executes(h))
  <2>1. CASE CreateSession(m)
    BY <2>1, CreateSessionKeeps, SameCommands DEF Silent
  <2>2. CASE SessionsFull(m) \/ RejectFrame(m) \/ UnknownSession(m)
    <3>1. UNCHANGED <<requests, executed, answered>>
      BY <2>2 DEF SessionsFull, RejectFrame, UnknownSession, Respond, hostVars, deviceVars
    <3> QED  BY <2>2, <3>1, RefusalKeeps, SameCommands DEF Silent
  <2>3. CASE AuthenticateSession(m)
    BY <2>3, AuthenticateSessionKeeps, SameCommands DEF Silent
  <2>4. CASE SessionMessage(m)
    <3>1. /\ Inv' /\ UNCHANGED <<requests, answered>>
          /\ executed' = [executed EXCEPT ![m.from] = Append(@, Len(@) + 1)]
      BY <2>4, SessionMessageKeeps
    <3>2. m.type = "message" /\ m.command = Len(executed[m.from]) + 1 /\ m.from \in Hosts
      BY <2>4, SessionMessageFacts DEF SessionMessage
    <3>3. Sent(m.from, Len(executed[m.from]) + 1)
      BY <3>2 DEF Sent, Message
    <3> QED  BY <3>1, <3>2, <3>3 DEF Executes
  <2> QED  BY <1>1, <2>1, <2>2, <2>3, <2>4 DEF HandleFrame
<1>2. CASE DropSessions
  <2>1. UNCHANGED <<requests, executed, answered>>
    BY <1>2 DEF DropSessions, hostVars
  <2> QED  BY <1>2, <2>1, DropKeeps, SameCommands DEF Silent
<1>3. ASSUME NEW h \in Hosts, HostCreate(h) PROVE Inv' /\ Silent
  BY <1>3, HostCreateKeeps, SameCommands DEF Silent
<1>4. ASSUME NEW h \in Hosts, HostGivesUp(h) PROVE Inv' /\ Silent
  BY <1>4, HostGivesUpKeeps, SameCommands DEF Silent
<1>5. ASSUME NEW h \in Hosts, NEW closes \in BOOLEAN, HostCommand(h, closes)
      PROVE  Inv' /\ Submits(h)
  <2>1. /\ Inv' /\ UNCHANGED <<executed, answered>>
        /\ ~Sent(h, Len(answered[h]) + 1) /\ Len(answered[h]) < MaxCommands
        /\ requests \subseteq requests'
        /\ \A m \in requests' : m \in requests \/ Message(h, m, Len(answered[h]) + 1)
        /\ \E m \in requests' : Message(h, m, Len(answered[h]) + 1)
    BY <1>5, HostCommandKeeps
  <2>2. Sent(h, Len(answered[h]) + 1)'
    BY <2>1 DEF Sent
  <2>3. \A g \in Hosts : g # h => Commands(g)' = Commands(g)
    BY <2>1, SameCommands DEF Message
  <2> QED  BY <2>1, <2>2, <2>3 DEF Submits
<1>6. ASSUME NEW h \in Hosts, NEW r \in responses, HostAuthenticate(h, r)
      PROVE  Inv' /\ Silent
  BY <1>6, HostAuthenticateKeeps, SameCommands DEF Silent
<1>7. ASSUME NEW h \in Hosts, NEW r \in responses, HostOpen(h, r)
      PROVE  Inv' /\ Silent
  BY <1>7, HostOpenKeeps, SameCommands DEF Silent
<1>8. ASSUME NEW h \in Hosts, NEW r \in responses, HostAccept(h, r)
      PROVE  Inv' /\ Answers(h)
  BY <1>8, HostAcceptKeeps DEF Answers
<1>9. CASE UNCHANGED vars
  <2>1. /\ DOMAIN sessions' \subseteq DOMAIN sessions
        /\ \A sid \in DOMAIN sessions' : sessions'[sid] = sessions[sid]
        /\ \A r \in responses' : r \in responses
        /\ UNCHANGED <<handshakes, host, requests, executed, answered>>
    BY <1>9 DEF vars
  <2> QED  BY <2>1, ShrinksKeeps, SameCommands DEF Silent
<1> QED  BY <1>1, <1>2, <1>3, <1>4, <1>5, <1>6, <1>7, <1>8, <1>9 DEF Next

\* The histories are sequences of numbers.
HistoriesTyped == executed \in [Hosts -> Seq(Nat)] /\ answered \in [Hosts -> Seq(Nat)]

LEMMA Invariance == Spec => [](Inv /\ HistoriesTyped)
<1>1. Init => Inv /\ HistoriesTyped
  BY InitInv DEF Init, HistoriesTyped
<1>2. Inv /\ HistoriesTyped /\ [Next]_vars => Inv' /\ HistoriesTyped'
  <2> SUFFICES ASSUME Inv, HistoriesTyped, [Next]_vars PROVE Inv' /\ HistoriesTyped'
    OBVIOUS
  <2>1. Inv' /\ (Silent \/ \E h \in Hosts : Submits(h) \/ Executes(h) \/ Answers(h))
    BY NextKeeps
  <2>2. CASE Silent \/ \E h \in Hosts : Submits(h)
    BY <2>1, <2>2 DEF Silent, Submits, HistoriesTyped
  <2>3. ASSUME NEW h \in Hosts, Executes(h) PROVE HistoriesTyped'
    BY <2>3 DEF Executes, HistoriesTyped
  <2>4. ASSUME NEW h \in Hosts, Answers(h) PROVE HistoriesTyped'
    BY <2>4 DEF Answers, HistoriesTyped
  <2> QED  BY <2>1, <2>2, <2>3, <2>4
<1> QED  BY <1>1, <1>2, PTL DEF Spec

LEMMA UptoIsChain ==
  ASSUME NEW h, NEW c \in First(h) .. MaxCommands + 1
  PROVE  Upto(h, c) \in Chains
<1>1. First(h) \in {0, 1} /\ MaxCommands \in Nat /\ c \in Nat
  BY FirstTyped, ChannelAssumption
<1>2. c - First(h) \in 0 .. MaxCommands + 1
  BY <1>1
<1>3. Upto(h, c) \in [1 .. c - First(h) -> 0..MaxCommands]
  <2>1. \A i \in 1 .. c - First(h) : i - 1 + First(h) \in 0..MaxCommands
    BY <1>1
  <2> QED  BY <2>1 DEF Upto
<1> QED  BY <1>2, <1>3 DEF Chains

LEMMA InvTypes ==
  ASSUME Inv, HistoriesTyped
  PROVE  TypeOK
<1>1. DOMAIN sessions \subseteq 0 .. MaxSessions - 1 /\ handshakes \in 0..MaxHandshakes
  BY DEF Inv, EntryInv, HistoryInv, Sids
<1>2. ASSUME NEW sid \in DOMAIN sessions
      PROVE  sessions[sid] \in [ key : Keys, authenticated : BOOLEAN,
                                 chain : Chains, counter : Nat ]
  <2>1. sessions[sid] \in SessionEntry
    BY DEF Inv, EntryInv
  <2>2. sessions[sid].chain \in Chains
    BY UptoIsChain DEF Inv, EntryInv
  <2> QED  BY <2>1, <2>2 DEF SessionEntry
<1>3. ASSUME NEW n \in 0..MaxCommands PROVE Count(n) \in Seq(1..MaxCommands)
  <2>1. n \in Nat /\ n <= MaxCommands /\ MaxCommands \in Nat
    BY <1>3, ChannelAssumption
  <2> QED  BY <2>1 DEF Count
<1>4. \A h \in Hosts : executed[h] \in Seq(1..MaxCommands)
                       /\ answered[h] \in Seq(1..MaxCommands)
  BY <1>3 DEF Inv, HistoryInv
<1>5. executed \in [Hosts -> Seq(1..MaxCommands)] /\ answered \in [Hosts -> Seq(1..MaxCommands)]
  BY <1>4 DEF HistoriesTyped
<1> QED  BY <1>1, <1>2, <1>5 DEF TypeOK

\* Host and device never drift apart: in every state of every behaviour, with
\* any losses, repetitions and reorderings, the device's entry of a session
\* its host still uses is the host's, with or without the one request under
\* way (SecureSession of session.rs, session_message_with of device.rs).
THEOREM InStep == Spec => []SessionsInStep
<1>1. Inv /\ HistoriesTyped => SessionsInStep
  <2> SUFFICES ASSUME Inv, HistoriesTyped PROVE SessionsInStep
    OBVIOUS
  <2>1. ASSUME NEW sid \in DOMAIN sessions, NEW h \in Hosts, Live(h),
               sessions[sid].key = host[h].key
        PROVE  /\ sid = host[h].sid
               /\ sessions[sid].chain \in {host[h].chain, Settled(h)}
               /\ sessions[sid].authenticated /\ sessions[sid].chain = Settled(h) =>
                    sessions[sid].counter = host[h].counter
    <3> DEFINE e == sessions[sid].counter
               c == host[h].counter
    <3>1. /\ c \in Nat /\ First(h) <= c /\ c # 0 /\ e \in Nat /\ First(h) <= e
          /\ sessions[sid].chain = Upto(h, e) /\ (sessions[sid].authenticated => e # 0)
      BY <2>1, HostTyped, EntryTyped DEF Inv, EntryInv, StepInv, HostInStep
    <3>2. /\ sid = host[h].sid
          /\ host[h].state = "authenticating" =>
               e \in {0, 1} /\ c = 1 /\ h \notin Asymmetric
          /\ host[h].state = "open" => e = c
          /\ host[h].state \in {"waiting", "closing"} => e \in {c, c + 1}
          /\ host[h].chain = Upto(h, IF host[h].state \in {"waiting", "closing"}
                                       THEN c + 1 ELSE c)
      BY <2>1 DEF Inv, StepInv, HostInStep
    <3> HIDE DEF e, c
    <3>3. CASE host[h].state = "open"
      BY <3>1, <3>2, <3>3 DEF Settled, e, c
    <3>4. CASE host[h].state \in {"waiting", "closing"}
      <4>1. host[h].chain = Upto(h, c + 1) /\ Settled(h) = Upto(h, c)
        BY <3>1, <3>2, <3>4, UptoSteps DEF Settled
      <4>2. Upto(h, e) = Upto(h, c) => e = c
        BY <3>1, UptoSteps
      <4>3. Upto(h, e) \in {Upto(h, c + 1), Upto(h, c)}
        BY <3>2, <3>4
      <4> QED  BY <3>1, <3>2, <4>1, <4>2, <4>3 DEF e, c
    <3>5. CASE host[h].state = "authenticating"
      <4>1. First(h) = 0 /\ c = 0 + 1
        BY <3>2, <3>5 DEF First
      <4>2. host[h].chain = Upto(h, 0 + 1) /\ Settled(h) = Upto(h, 0)
        <5>1. host[h].chain = Upto(h, 0 + 1)
          BY <3>2, <3>5, <4>1
        <5>2. SubSeq(Upto(h, 0 + 1), 1, Len(Upto(h, 0 + 1)) - 1) = Upto(h, 0)
          BY <4>1, UptoSteps
        <5> QED  BY <3>5, <5>1, <5>2 DEF Settled
      <4>3. Upto(h, e) = Upto(h, 0) => e = 0
        BY <3>1, <4>1, UptoSteps
      <4>4. Upto(h, e) \in {Upto(h, 0 + 1), Upto(h, 0)}
        BY <3>2, <3>5
      <4> QED  BY <3>1, <3>2, <4>1, <4>2, <4>3, <4>4 DEF e, c
    <3> QED  BY <2>1, <3>3, <3>4, <3>5 DEF Live
  <2> QED  BY <2>1, InvTypes DEF SessionsInStep
<1> QED  BY <1>1, Invariance, PTL

-----------------------------------------------------------------------------
(* The channel implements CommandOrder *)

\* Commands are numbered from 1 without gaps, and at most one of them is
\* unanswered.
Counted ==
  \A h \in Hosts :
    /\ Cardinality(Commands(h)) \in Nat
    /\ Sent(h, Len(answered[h]) + 1) => Cardinality(Commands(h)) = Len(answered[h]) + 1
    /\ ~Sent(h, Len(answered[h]) + 1) => Cardinality(Commands(h)) = Len(answered[h])
    /\ \A n : Sent(h, n) => n \in Nat /\ n <= Cardinality(Commands(h))

LEMMA CommandsCounted == Inv => Counted
<1> SUFFICES ASSUME Inv, NEW h \in Hosts
             PROVE  /\ Cardinality(Commands(h)) \in Nat
                    /\ Sent(h, Len(answered[h]) + 1) =>
                         Cardinality(Commands(h)) = Len(answered[h]) + 1
                    /\ ~Sent(h, Len(answered[h]) + 1) =>
                         Cardinality(Commands(h)) = Len(answered[h])
                    /\ \A n : Sent(h, n) => n \in Nat /\ n <= Cardinality(Commands(h))
  BY DEF Counted
<1> DEFINE a == Len(answered[h])
<1>1. a \in Nat /\ a + 1 \in Nat
  BY HostTyped
<1>2. \A n : n \in Commands(h) <=> Sent(h, n)
  BY DEF Commands, Sent, Message
<1>3. \A n \in 1..a : Sent(h, n)
  BY DEF Inv, HistoryInv
<1>4. \A n : Sent(h, n) => n \in 1 .. a + 1
  BY <1>1, ChannelAssumption DEF Sent, Message, Inv, RequestInv
<1> HIDE DEF a
<1>5. \A n \in Nat : Cardinality(1..n) = n
  BY FS_Interval
<1>6. CASE Sent(h, a + 1)
  <2>1. Commands(h) = 1 .. a + 1
    <3>1. \A n \in 1 .. a + 1 : n \in 1..a \/ n = a + 1
      BY <1>1
    <3> QED  BY <1>2, <1>3, <1>4, <1>6, <3>1
  <2> QED  BY <1>1, <1>4, <1>5, <1>6, <2>1 DEF a
<1>7. CASE ~Sent(h, a + 1)
  <2>1. \A n : Sent(h, n) => n \in 1..a
    BY <1>1, <1>4, <1>7
  <2>2. Commands(h) = 1..a
    BY <1>2, <1>3, <2>1
  <2> QED  BY <1>1, <1>5, <1>7, <2>1, <2>2 DEF a
<1> QED  BY <1>6, <1>7

\* The refinement mapping of KeepsOrder.
Submitted == [h \in Hosts |-> Cardinality(Commands(h))]

\* The channel keeps its promise for every number of hosts, sessions and
\* commands: every step of the device and the hosts is a step of CommandOrder
\* or changes nothing it can see, so commands run at most once and in order
\* and answers match them (session_message_with of device.rs, decrypt_request
\* and encrypt_response of session.rs).
THEOREM ChannelKeepsOrder == Spec => KeepsOrder
<1>1. Init => Order!Init
  <2> SUFFICES ASSUME Init PROVE Order!Init
    OBVIOUS
  <2>1. \A h \in Hosts : Commands(h) = {}
    BY DEF Init, Commands
  <2>2. Submitted = [h \in Hosts |-> 0]
    BY <2>1, FS_EmptySet DEF Submitted
  <2> QED  BY <2>2 DEF Init, Order!Init, Submitted, Commands
<1>2. Inv /\ Counted /\ Counted' /\ [Next]_vars
        => [Order!Next]_<<Submitted, executed, answered>>
  <2> SUFFICES ASSUME Inv, Counted, Counted', [Next]_vars
               PROVE  Order!Next \/ UNCHANGED <<Submitted, executed, answered>>
    OBVIOUS
  <2>1. Silent \/ \E h \in Hosts : Submits(h) \/ Executes(h) \/ Answers(h)
    BY NextKeeps
  <2>2. CASE Silent
    BY <2>2 DEF Silent, Submitted
  <2>3. ASSUME NEW h \in Hosts, Submits(h) PROVE Order!Submit(h)
    <3>1. /\ Submitted[h] = Len(answered[h]) /\ Submitted[h] < MaxCommands
          /\ UNCHANGED <<executed, answered>>
      BY <2>3 DEF Submits, Submitted, Counted
    <3>2. Submitted'[h] = Submitted[h] + 1
      <4>1. Cardinality(Commands(h))' = Len(answered[h]) + 1
        BY <2>3 DEF Submits, Counted
      <4> QED  BY <3>1, <4>1 DEF Submitted, Counted
    <3>3. \A g \in Hosts : g # h => Submitted'[g] = Submitted[g]
      BY <2>3 DEF Submits, Submitted
    <3>4. Submitted' = [Submitted EXCEPT ![h] = Submitted[h] + 1]
      BY <3>2, <3>3 DEF Submitted
    <3> QED  BY <3>1, <3>4 DEF Order!Submit, Submitted, Commands
  <2>4. ASSUME NEW h \in Hosts, Executes(h) PROVE Order!Execute(h)
    <3>1. Len(executed[h]) < Submitted[h]
      <4>1. Sent(h, Len(executed[h]) + 1) /\ Len(executed[h]) \in Nat
        BY <2>4, HostTyped DEF Executes
      <4>2. Len(executed[h]) + 1 <= Cardinality(Commands(h))
        BY <4>1 DEF Counted
      <4>3. Cardinality(Commands(h)) \in Nat
        BY DEF Counted
      <4> QED  BY <4>1, <4>2, <4>3 DEF Submitted
    <3>2. UNCHANGED Submitted
      BY <2>4 DEF Executes, Submitted, Commands
    <3> QED  BY <2>4, <3>1, <3>2 DEF Executes, Order!Execute, Submitted, Commands
  <2>5. ASSUME NEW h \in Hosts, Answers(h) PROVE Order!Answer(h)
    <3>1. UNCHANGED Submitted
      BY <2>5 DEF Answers, Submitted, Commands
    <3> QED  BY <2>5, <3>1 DEF Answers, Order!Answer, Submitted, Commands
  <2> QED  BY <2>1, <2>2, <2>3, <2>4, <2>5 DEF Order!Next
<1> QED  BY <1>1, <1>2, Invariance, CommandsCounted, PTL DEF Spec, KeepsOrder, Order!Spec, Submitted, Commands

=============================================================================

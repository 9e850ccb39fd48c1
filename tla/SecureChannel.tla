--------------------------- MODULE SecureChannel ----------------------------
(***************************************************************************)
(* Secure sessions on the wire: crates/virtual-yubihsm-core/src/session.rs *)
(* and the three session handlers of device.rs, against hosts that share   *)
(* the device over a transport that may lose, delay, reorder and repeat    *)
(* frames in both directions.                                              *)
(*                                                                         *)
(* Cryptography is symbolic.  Session keys are the pair of challenges (or  *)
(* ephemeral keys) they are derived from.  The MAC chaining value is the   *)
(* sequence of requests absorbed so far, and a MAC verifies exactly when   *)
(* key and chain agree.  The counter is the IV: data decrypts to a frame   *)
(* exactly when the counters agree.                                        *)
(***************************************************************************)
EXTENDS Naturals, Sequences, FiniteSets

CONSTANTS
  Hosts,          \* host processes; each opens one session
  Asymmetric,     \* the ones that hold an asymmetric Authentication Key
  MaxSessions,    \* MAX_SESSIONS, 16 in the code
  MaxHandshakes,  \* bound: CreateSession frames that arrive
  MaxCommands     \* bound: commands per host

ASSUME ChannelAssumption ==
  /\ Asymmetric \subseteq Hosts
  /\ MaxSessions \in Nat \ {0}
  /\ MaxHandshakes \in Nat
  /\ MaxCommands \in Nat

VARIABLES
  sessions,     \* the device's table: sid -> entry, partial
  handshakes,   \* fresh device challenges drawn so far
  host,         \* what each host knows of its session
  requests,     \* every frame a host ever sent; any may arrive, repeatedly
  responses,    \* every frame the device ever answered with
  executed,     \* history: commands executed per host
  answered      \* history: answers accepted per host

vars == <<sessions, handshakes, host, requests, responses, executed, answered>>

deviceVars == <<sessions, handshakes, executed>>
hostVars == <<host, answered>>

Sids == 0 .. MaxSessions - 1

\* The session keys of challenge (or ephemeral key) pair <<h, c>>.
Keys == Hosts \X (1..MaxHandshakes)

\* What a chain can absorb: 0 is the host cryptogram, n the n-th command.
Chains == UNION {[1..n -> 0..MaxCommands] : n \in 0..MaxCommands + 1}

Init ==
  /\ sessions = [sid \in {} |-> {}]
  /\ handshakes = 0
  /\ host = [h \in Hosts |-> [state |-> "idle"]]
  /\ requests = {}
  /\ responses = {}
  /\ executed = [h \in Hosts |-> << >>]
  /\ answered = [h \in Hosts |-> << >>]

-----------------------------------------------------------------------------
(* The device *)

\* Insert or replace one entry of a partial function, or drop one.
With(f, x, y) == [z \in DOMAIN f \cup {x} |-> IF z = x THEN y ELSE f[z]]
Without(f, x) == [z \in DOMAIN f \ {x} |-> f[z]]

LowestFree(sid) ==
  /\ sid \in Sids \ DOMAIN sessions
  /\ \A other \in Sids \ DOMAIN sessions : sid <= other

Respond(response) ==
  /\ responses' = responses \cup {response}
  /\ UNCHANGED <<hostVars, requests>>

Error(h) == [to |-> h, type |-> "error"]

\* Mutant: the asymmetric handshake forgets its first increment_counter.
BeginAtZero(key) ==
  [ key |-> key, authenticated |-> key[1] \in Asymmetric, chain |-> << >>,
    counter |-> 0 ]

\* begin_symmetric: nothing absorbed, counter 0, the host has yet to show its
\* cryptogram.  begin_asymmetric: open at once, the receipt starts the chain,
\* counter 1.
BeginSession(key) ==
  [ key |-> key, authenticated |-> key[1] \in Asymmetric, chain |-> << >>,
    counter |-> IF key[1] \in Asymmetric THEN 1 ELSE 0 ]

CreateSession(m) ==
  \E sid \in Sids :
    LET key == <<m.from, handshakes + 1>> IN
    /\ m.type = "create"
    /\ handshakes < MaxHandshakes
    /\ LowestFree(sid)
    /\ handshakes' = handshakes + 1
    /\ sessions' = With(sessions, sid, BeginSession(key))
    /\ Respond([to |-> m.from, type |-> "created", sid |-> sid, key |-> key])
    /\ UNCHANGED executed

SessionsFull(m) ==
  /\ m.type = "create"
  /\ Sids \subseteq DOMAIN sessions
  /\ Respond(Error(m.from))
  /\ UNCHANGED deviceVars

\* verify_request_mac under the entry's keys and chaining value.
MacVerifies(entry, m) == m.key = entry.key /\ m.chain = entry.chain

\* decrypt_request: the MAC, then the IV.
Decrypts(entry, m) == MacVerifies(entry, m) /\ m.counter = entry.counter

\* Mutant: the entry put back is the one taken out, its chain not advanced.
NotAdvanced(entry, item) == entry

\* verify_request_mac keeps the MAC as the new chaining value, and
\* encrypt_response (or authenticate_symmetric) increments the counter.
Advanced(entry, item) ==
  [entry EXCEPT !.chain = Append(@, item), !.counter = @ + 1]

AuthenticateSession(m) ==
  LET entry == sessions[m.sid] IN
  /\ m.type = "auth"
  /\ m.sid \in DOMAIN sessions
  /\ ~entry.authenticated
  /\ MacVerifies(entry, m)
  /\ sessions' = With(sessions, m.sid,
                      [Advanced(entry, 0) EXCEPT !.authenticated = TRUE])
  /\ Respond([to |-> m.from, type |-> "authenticated"])
  /\ UNCHANGED <<handshakes, executed>>

\* encrypt_response: MAC over the chain that ends in this very request, IV
\* from the counter the request was read with.
EncryptResponse(entry, m) ==
  [ to |-> m.from, type |-> "answer", key |-> entry.key,
    chain |-> Append(entry.chain, m.command), counter |-> entry.counter,
    result |-> m.command ]

\* session_message_with for a frame that decrypts: the inner command is
\* executed, the answer is protected and the entry goes back into the table
\* unless the command closed the session.
SessionMessage(m) ==
  LET entry == sessions[m.sid] IN
  /\ m.type = "message"
  /\ m.sid \in DOMAIN sessions
  /\ entry.authenticated
  /\ Decrypts(entry, m)
  /\ executed' = [executed EXCEPT ![entry.key[1]] = Append(@, m.command)]
  /\ sessions' = IF m.closes THEN Without(sessions, m.sid)
                 ELSE With(sessions, m.sid, Advanced(entry, m.command))
  /\ Respond(EncryptResponse(entry, m))
  /\ UNCHANGED handshakes

\* Either handler takes the entry out of the table first and returns early
\* on anything it does not like, so the session is gone: also when the frame
\* belongs to an earlier session that had the same sid.
RejectFrame(m) ==
  /\ m.type \in {"auth", "message"}
  /\ m.sid \in DOMAIN sessions
  /\ LET entry == sessions[m.sid] IN
       \/ m.type = "auth" /\ (entry.authenticated \/ ~MacVerifies(entry, m))
       \/ m.type = "message" /\ ~(entry.authenticated /\ Decrypts(entry, m))
  /\ sessions' = Without(sessions, m.sid)
  /\ Respond(Error(m.from))
  /\ UNCHANGED <<handshakes, executed>>

UnknownSession(m) ==
  /\ m.type \in {"auth", "message"}
  /\ m.sid \notin DOMAIN sessions
  /\ Respond(Error(m.from))
  /\ UNCHANGED deviceVars

\* handle_frame_with_hooks
HandleFrame(m) ==
  \/ CreateSession(m) \/ SessionsFull(m)
  \/ AuthenticateSession(m) \/ SessionMessage(m)
  \/ RejectFrame(m) \/ UnknownSession(m)

\* expire_inactive_sessions drops any set of sessions, clear_sessions all.
DropSessions ==
  /\ \E kept \in SUBSET DOMAIN sessions :
       /\ kept # DOMAIN sessions
       /\ sessions' = [sid \in kept |-> sessions[sid]]
  /\ UNCHANGED <<handshakes, executed, hostVars, requests, responses>>

-----------------------------------------------------------------------------
(* The hosts: external, as a client library uses a session *)

Send(h, request, knows) ==
  /\ requests' = requests \cup {request}
  /\ host' = [host EXCEPT ![h] = knows]
  /\ UNCHANGED <<deviceVars, responses>>

HostCreate(h) ==
  /\ host[h].state = "idle"
  /\ Send(h, [from |-> h, type |-> "create"], [state |-> "creating"])
  /\ UNCHANGED answered

\* The first response decides the session keys, whichever of the host's
\* repeated requests it answers.
HostAuthenticate(h, r) ==
  /\ host[h].state = "creating"
  /\ r.to = h /\ r.type = "created"
  /\ IF h \in Asymmetric
       THEN /\ host' = [host EXCEPT ![h] =
                 [ state |-> "open", sid |-> r.sid, key |-> r.key,
                   chain |-> << >>, counter |-> 1 ]]
            /\ UNCHANGED <<deviceVars, requests, responses>>
       ELSE Send(h, [ from |-> h, type |-> "auth", sid |-> r.sid,
                      key |-> r.key, chain |-> << >> ],
                    [ state |-> "authenticating", sid |-> r.sid,
                      key |-> r.key, chain |-> <<0>>, counter |-> 1 ])
  /\ UNCHANGED answered

HostOpen(h, r) ==
  /\ host[h].state = "authenticating"
  /\ r.to = h /\ r.type = "authenticated"
  /\ host' = [host EXCEPT ![h].state = "open"]
  /\ UNCHANGED <<deviceVars, requests, responses, answered>>

\* One command at a time; any of them may be CloseSession.
HostCommand(h, closes) ==
  LET next == Len(answered[h]) + 1 IN
  /\ host[h].state = "open"
  /\ next <= MaxCommands
  /\ Send(h, [ from |-> h, type |-> "message", sid |-> host[h].sid,
               key |-> host[h].key, chain |-> host[h].chain,
               counter |-> host[h].counter, command |-> next,
               closes |-> closes ],
             [ host[h] EXCEPT !.state = IF closes THEN "closing" ELSE "waiting",
                              !.chain = Append(@, next) ])
  /\ UNCHANGED answered

HostAccept(h, r) ==
  /\ host[h].state \in {"waiting", "closing"}
  /\ r.to = h /\ r.type = "answer"
  /\ <<r.key, r.chain, r.counter>>
       = <<host[h].key, host[h].chain, host[h].counter>>
  /\ answered' = [answered EXCEPT ![h] = Append(@, r.result)]
  /\ host' = [host EXCEPT
       ![h].state = IF @ = "closing" THEN "done" ELSE "open",
       ![h].counter = @ + 1]
  /\ UNCHANGED <<deviceVars, requests, responses>>

\* A timeout, an error, or an answer that does not verify.
HostGivesUp(h) ==
  /\ host[h].state \notin {"idle", "done"}
  /\ host' = [host EXCEPT ![h] = [state |-> "done"]]
  /\ UNCHANGED <<deviceVars, requests, responses, answered>>

-----------------------------------------------------------------------------

Next ==
  \/ \E m \in requests : HandleFrame(m)
  \/ DropSessions
  \/ \E h \in Hosts :
       \/ HostCreate(h) \/ HostGivesUp(h)
       \/ \E closes \in BOOLEAN : HostCommand(h, closes)
       \/ \E r \in responses :
            HostAuthenticate(h, r) \/ HostOpen(h, r) \/ HostAccept(h, r)

Spec == Init /\ [][Next]_vars

-----------------------------------------------------------------------------
(* Properties *)

\* Types of the device's table and of the histories; part of SessionsInStep.
TypeOK ==
  /\ DOMAIN sessions \subseteq 0 .. MaxSessions - 1
  /\ \A sid \in DOMAIN sessions :
       sessions[sid] \in [ key : Keys, authenticated : BOOLEAN,
                           chain : Chains, counter : Nat ]
  /\ handshakes \in 0..MaxHandshakes
  /\ executed \in [Hosts -> Seq(1..MaxCommands)]
  /\ answered \in [Hosts -> Seq(1..MaxCommands)]

Live(h) == host[h].state \in {"authenticating", "open", "waiting", "closing"}

\* The host's chain without the request it has sent last.
Settled(h) ==
  IF host[h].state \in {"authenticating", "waiting", "closing"}
    THEN SubSeq(host[h].chain, 1, Len(host[h].chain) - 1)
    ELSE host[h].chain

\* Host and device never drift apart within a session: while the device
\* holds the session of a host that still uses it, under whatever losses and
\* repetitions, it holds it at the host's sid, its chain is the host's with or
\* without the one request under way, and that request, when it arrives, meets
\* the counter it was sent with (SecureSession of session.rs).
SessionsInStep ==
  /\ TypeOK
  /\ \A sid \in DOMAIN sessions, h \in Hosts :
    LET entry == sessions[sid] IN
    Live(h) /\ entry.key = host[h].key =>
      /\ sid = host[h].sid
      /\ entry.chain \in {host[h].chain, Settled(h)}
      /\ entry.authenticated /\ entry.chain = Settled(h) =>
           entry.counter = host[h].counter

Order ==
  INSTANCE CommandOrder WITH
    submitted <- [h \in Hosts |->
                    Cardinality({m.command : m \in
                      {n \in requests : n.type = "message" /\ n.from = h}})]

\* The channel keeps its promise over the unreliable transport: commands are
\* executed at most once, in order, and only while the host waits for them;
\* a host accepts only the answer to the command it sent last.
KeepsOrder == Order!Spec

=============================================================================

-------------------------- MODULE DeviceProperties --------------------------
(***************************************************************************)
(* What makes the device of Device.tla correct.                            *)
(***************************************************************************)
EXTENDS Device

AuditEntries ==
  [ number      : 1..MaxNumber,
    command     : CommandCodes,
    session_key : Ids,
    ok          : BOOLEAN,
    digest      : 1..MaxAppends ]

AuditStates ==
  [ entries                 : SUBSET AuditEntries,
    next_number             : 1..MaxNumber,
    previous_digest         : 0..MaxAppends,
    unlogged_authentication : 0..MaxUnlogged ]

SessionEntries ==
  [ authorization : Authorizations,
    authenticated : BOOLEAN,
    idle          : 0..Timeout ]

StoreTypeOK ==
  /\ DOMAIN objects \subseteq Keys
  /\ \A key \in DOMAIN objects : objects[key] \in ObjectInfo
  /\ DOMAIN sequence_history \subseteq Ids
  /\ \A id \in DOMAIN sequence_history : sequence_history[id] \in 0..MaxGeneration

OptionsTypeOK ==
  /\ algorithm_toggle \in [Algorithms -> OptionValues]
  /\ fips_mode \in OptionValues
  /\ force_audit \in OptionValues
  /\ command_audit \in [Commands -> OptionValues]

SessionsTypeOK ==
  /\ DOMAIN sessions \subseteq Sids
  /\ \A sid \in DOMAIN sessions : sessions[sid] \in SessionEntries

\* Every variable has the type of the field of `Device' (device.rs) it models.
TypeOK ==
  /\ StoreTypeOK
  /\ OptionsTypeOK
  /\ audit \in AuditStates
  /\ SessionsTypeOK
  /\ persistent_change \in BOOLEAN

-----------------------------------------------------------------------------
(* Authority *)

AuthenticationKeys == {key \in DOMAIN objects : key[1] = "AuthenticationKey"}

\* Everything somebody can still hand on: through an open or pending session,
\* or through a key that can open one.
DelegableCapabilities ==
  { c \in Capabilities :
      \/ \E key \in AuthenticationKeys : c \in objects[key].delegated
      \/ \E sid \in DOMAIN sessions : c \in sessions[sid].authorization.delegated }

ReachableDomains ==
  { d \in Domains :
      \/ \E key \in AuthenticationKeys : d \in objects[key].domains
      \/ \E sid \in DOMAIN sessions : d \in sessions[sid].authorization.domains }

\* ResetDevice is the one command that restores the factory key.
FactoryReset == /\ objects' = FactoryObjects
                /\ sequence_history' = FactoryHistory
                /\ DOMAIN sessions' = {}

\* Creating, importing, changing and deleting objects and opening sessions
\* (authorization.rs authorize_create, authorize_wrapped_creation; device.rs
\* create_session) never widen what the device as a whole can delegate or
\* reach: authority that was deleted comes back only with a factory reset.
AuthorityNeverGrows ==
  [][ \/ FactoryReset
      \/ /\ DelegableCapabilities' \subseteq DelegableCapabilities
         /\ ReachableDomains' \subseteq ReachableDomains ]_vars

\* No write to the store gives an object, or the object that replaces it, a
\* capability or a domain nobody could delegate or reach; an object that keeps
\* its key keeps its capabilities and domains (device.rs put_opaque,
\* change_authentication_key).
ObjectsStayBelowCeiling ==
  [][ \/ FactoryReset
      \/ \A key \in DOMAIN objects' :
           IF key \in DOMAIN objects
             THEN /\ objects'[key].capabilities = objects[key].capabilities
                  /\ objects'[key].delegated = objects[key].delegated
                  /\ objects'[key].domains = objects[key].domains
             ELSE /\ objects'[key].capabilities \subseteq DelegableCapabilities
                  /\ objects'[key].delegated \subseteq DelegableCapabilities
                  /\ objects'[key].domains \subseteq ReachableDomains
    ]_vars

\* README: "Using an existing object requires the command capability on the
\* session, the operation capability on the object, and at least one shared
\* domain", with deletion as the exception.  Checked for every command that
\* takes a capability and an existing object (device.rs
\* authorize_command_request).
UseNeedsObjectCapability ==
  \A sid \in DOMAIN sessions : sessions[sid].authenticated =>
    \A command \in (KeyUses \cup ObjectReads) \cap Commands :
      \A key \in DOMAIN objects :
        UseAllowed(sessions[sid].authorization, command, key) =>
          RequiredCapability(command) \subseteq objects[key].capabilities

-----------------------------------------------------------------------------
(* Generations *)

\* Objects that share a numeric id have different sequence numbers, none ahead
\* of the id's generation, until the id has been written as often as the low
\* byte can count (device.rs write_object, next_generation).
SequencesIdentifyWrites ==
  \A key \in DOMAIN objects :
    /\ key[2] \in DOMAIN sequence_history
    /\ sequence_history[key[2]] < SequenceModulus =>
         /\ objects[key].sequence <= sequence_history[key[2]]
         /\ \A other \in DOMAIN objects \ {key} :
              other[2] = key[2] => objects[other].sequence # objects[key].sequence

\* Short of a factory reset a generation is never forgotten or taken back, and
\* every object that appears or changes has just received the next one, also
\* when its id was deleted before (device.rs write_object, DeleteObject).
GenerationsAdvance ==
  [][ \/ FactoryReset
      \/ /\ \A id \in DOMAIN sequence_history :
              /\ id \in DOMAIN sequence_history'
              /\ sequence_history'[id] >= sequence_history[id]
         /\ \A key \in DOMAIN objects' :
              \/ key \in DOMAIN objects /\ objects'[key] = objects[key]
              \/ sequence_history'[key[2]] = NextGeneration(key[2])
    ]_vars

-----------------------------------------------------------------------------
(* Options *)

\* An algorithm that is switched off, or banned by FIPS mode, has no keys on
\* the device other than wrapped imports and the key in the factory slot: the
\* options move only on a fresh device and every put and generate looks them
\* up (device.rs require_fresh_device_for_algorithm_options,
\* require_algorithm_enabled).
DisabledAlgorithmsHaveNoKeys ==
  \A key \in DOMAIN objects :
    \/ AlgorithmEnabled(objects[key].algorithm)
    \/ "wrapped" \in objects[key].origin
    \/ key = FactoryKey

\* What is fixed stays fixed until the device is reset (device.rs set_option,
\* set_option_value), whichever option of a multi-valued request is concerned.
FixedOptionsStay ==
  [][ \/ FactoryReset
      \/ /\ force_audit = FIX => force_audit' = FIX
         /\ fips_mode = FIX => fips_mode' = FIX
         /\ \A c \in Commands : command_audit[c] = FIX => command_audit'[c] = FIX
         /\ \A a \in Algorithms :
              algorithm_toggle[a] = FIX => algorithm_toggle'[a] = FIX ]_vars

-----------------------------------------------------------------------------
(* Audit *)

\* The number that belongs to a place in the chain: they are handed out from 1
\* to MaxNumber, lap after lap, and zero is left out.
Numbered(number, digest) ==
  /\ number \in 1..MaxNumber
  /\ \E lap \in 0..digest : digest = lap * MaxNumber + number

\* The log never outgrows its capacity; every entry has a place of its own in
\* the hash chain and the number of that place, also after the numbers have
\* wrapped; and until they wrap the log is the unbroken tail of the chain,
\* whatever was acknowledged (device.rs append_audit_entry, set_log_index).
LogIsChainTail ==
  /\ Cardinality(audit.entries) <= LogCapacity
  /\ Numbered(audit.next_number, audit.previous_digest + 1)
  /\ \A entry \in audit.entries :
       /\ entry.digest \in 1 .. audit.previous_digest
       /\ Numbered(entry.number, entry.digest)
       /\ \A other \in audit.entries : other.digest = entry.digest => other = entry
       /\ audit.previous_digest <= MaxNumber =>
            \A d \in entry.digest .. audit.previous_digest :
              \E later \in audit.entries : later.digest = d

Audits(commands) ==
  \A command \in commands \cap Commands : command_audit[command] # OFF

ForcedFor(commands) == force_audit # OFF /\ Audits(commands)

\* Under force audit, with the commands that change durable state audited, no
\* durable change escapes the log: the step that makes it appends its own entry
\* to the chain, the reset that empties the log included (device.rs
\* execute_inner_with_session).
AuditedChangesAreLogged ==
  [][ ForcedFor(ChangesPersistentState) /\ <<objects, sequence_history, optionVars>>'
                                # <<objects, sequence_history, optionVars>>
      => \E entry \in audit'.entries :
           /\ entry.ok
           /\ entry.command \in ChangesPersistentState
           /\ entry.digest = audit'.previous_digest
           /\ \/ FactoryReset
              \/ entry.digest = audit.previous_digest + 1 ]_vars

IsOpen(table, sid) == sid \in DOMAIN table /\ table[sid].authenticated

\* Under force audit, with both handshake commands audited, a session that
\* becomes authenticated leaves a successful entry or a count of one more
\* unlogged authentication, whichever handshake it used (device.rs
\* create_session, authenticate_session).
AuthenticationsAreAccounted ==
  [][ ForcedFor({"CreateSession", "AuthenticateSession"})
        /\ (\E sid \in Sids : IsOpen(sessions', sid) /\ ~IsOpen(sessions, sid))
      => \/ \E entry \in audit'.entries \ audit.entries :
              entry.ok /\ entry.command \in {"CreateSession", "AuthenticateSession"}
         \/ audit'.unlogged_authentication = audit.unlogged_authentication + 1
         \/ audit.unlogged_authentication = MaxUnlogged ]_vars

\* Whatever changes in the state that is persisted is announced to the
\* persistence layer in the same step (device.rs execute_inner_with_session,
\* append_audit_entry, record_unlogged_authentication_if_full), or it would be
\* gone after a restart.
DurableChangesAreAnnounced ==
  [][ durable' # durable => persistent_change' ]_vars

-----------------------------------------------------------------------------
(* Sessions *)

\* Objects, generations and options move only on behalf of a session that is
\* open and has not been idle for the timeout.  The command that moves them
\* renews the deadline of that session and of no other, and no session outlives
\* it that was idle for too long; a reset ends them all (device.rs
\* handle_frame_with_hooks, session_message_with).
OnlyLiveSessionsChangeState ==
  [][ <<objects, sequence_history, optionVars>>'
        # <<objects, sequence_history, optionVars>>
      => \E sid \in DOMAIN sessions :
           /\ sessions[sid].authenticated
           /\ sessions[sid].idle < Timeout
           /\ \/ FactoryReset
              \/ /\ sid \in DOMAIN sessions' /\ sessions'[sid].idle = 0
                 /\ \A other \in DOMAIN sessions' \ {sid} :
                      /\ other \in DOMAIN sessions
                      /\ sessions[other].idle < Timeout
                      /\ sessions'[other] = sessions[other] ]_vars

=============================================================================

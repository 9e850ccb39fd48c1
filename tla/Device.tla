------------------------------- MODULE Device -------------------------------
(***************************************************************************)
(* The device state machine of crates/virtual-yubihsm-core/src/device.rs:  *)
(* one action per frame handle_frame_with_hooks may be given, composed of  *)
(* the object store, the audit log and the session table.  Every frame     *)
(* first drops the sessions that were idle for too long, and everything a  *)
(* frame does happens in one step: callers hold the device's mutex.        *)
(*                                                                         *)
(* The cryptography of the secure channel is abstracted to its verdict: a  *)
(* frame for a session is genuine or it is broken (SecureChannel.tla looks *)
(* inside).  Any command may be malformed, so any command may fail.        *)
(***************************************************************************)
EXTENDS ObjectStore, AuditLog

CONSTANTS
  MaxSessions,          \* MAX_SESSIONS, 16 in the code
  Timeout,              \* SESSION_INACTIVITY_TIMEOUT, in ticks
  CommandAuditUpdates,  \* command-audit requests hosts send
  AlgorithmUpdates,     \* algorithm-toggle requests hosts send
  FipsUpdates,          \* FIPS-mode values hosts send
  ForceAuditUpdates     \* force-audit values hosts send

ASSUME DeviceAssumption ==
  /\ MaxSessions \in Nat \ {0}
  /\ Timeout \in Nat \ {0}
  /\ \A update \in CommandAuditUpdates :
       /\ DOMAIN update \subseteq Commands
       /\ \A c \in DOMAIN update : update[c] \in OptionValues
  /\ \A update \in AlgorithmUpdates :
       /\ DOMAIN update \subseteq Algorithms
       /\ \A a \in DOMAIN update : update[a] \in OptionValues
  /\ FipsUpdates \subseteq OptionValues
  /\ ForceAuditUpdates \subseteq OptionValues

VARIABLES
  sessions,           \* sid -> SessionEntry, partial
  persistent_change   \* durable state differs from the last one handed over

optionVars == <<algorithm_toggle, fips_mode, force_audit, command_audit>>
durable == <<objects, sequence_history, optionVars, audit>>
vars == <<objects, sequence_history, algorithm_toggle, fips_mode,
          force_audit, command_audit, audit, sessions, persistent_change>>

Sids == 0 .. MaxSessions - 1

Authorizations ==
  [ key          : Ids,
    capabilities : SUBSET Capabilities,
    delegated    : SUBSET Capabilities,
    domains      : SUBSET Domains ]

Init ==
  /\ StoreInit
  /\ AuditInit
  /\ sessions = [sid \in {} |-> {}]
  /\ persistent_change = FALSE

-----------------------------------------------------------------------------
(* The session table *)

\* Time passes; idle saturates at the timeout.
Tick ==
  /\ \E sid \in DOMAIN sessions : sessions[sid].idle < Timeout
  /\ sessions' = [sid \in DOMAIN sessions |->
       [sessions[sid] EXCEPT !.idle = IF @ = Timeout THEN @ ELSE @ + 1]]
  /\ UNCHANGED <<durable, persistent_change>>

\* Mutant: nothing expires.
EverLive == sessions

\* expire_inactive_sessions, the first thing every frame does.
Live ==
  [sid \in {s \in DOMAIN sessions : sessions[s].idle < Timeout} |->
     sessions[sid]]

SessionAuthorization(id) ==
  LET info == objects[<<"AuthenticationKey", id>>] IN
  [ key          |-> id,
    capabilities |-> info.capabilities,
    delegated    |-> info.delegated,
    domains      |-> info.domains ]

FreeSids == Sids \ DOMAIN Live

LowestFree(sid) == sid \in FreeSids /\ \A other \in FreeSids : sid <= other

\* Mutant: entries do not count as a durable change.
AppendsSilently(log, command) == FALSE

\* An entry is appended when auditing is on for the command and room is left.
Appends(log, command) == ShouldAudit(command) /\ ~Full(log)

\* CreateSession naming an existing Authentication Key.  The symmetric
\* handshake leaves a pending session, the asymmetric one an open session.
OpenSession(id) ==
  LET key        == <<"AuthenticationKey", id>>
      asymmetric == objects[key].algorithm = "EcP256Auth"
      log        == IF asymmetric THEN RecordUnloggedAuthentication(audit)
                                  ELSE audit IN
  /\ key \in DOMAIN objects
  /\ \E sid \in Sids :
       /\ LowestFree(sid)
       /\ sessions' = Insert(Live, sid,
            [ authorization |-> SessionAuthorization(id),
              authenticated |-> asymmetric,
              idle          |-> 0 ])
  /\ audit' = Logged(log, ShouldAudit("CreateSession"), id, "CreateSession",
                     TRUE)
  /\ audit'.previous_digest <= MaxAppends
  /\ persistent_change' = ( \/ persistent_change
                            \/ asymmetric /\ CountsUnlogged(audit)
                            \/ Appends(audit, "CreateSession") )
  /\ UNCHANGED <<objects, sequence_history, optionVars>>

\* A handshake that finds the key and then fails: no session is free, or the
\* challenge or public key is unacceptable.
FailToOpenSession(id) ==
  /\ <<"AuthenticationKey", id>> \in DOMAIN objects
  /\ sessions' = Live
  /\ audit' = Logged(audit, ShouldAudit("CreateSession"), id, "CreateSession",
                     FALSE)
  /\ audit'.previous_digest <= MaxAppends
  /\ persistent_change' = (persistent_change \/ Appends(audit, "CreateSession"))
  /\ UNCHANGED <<objects, sequence_history, optionVars>>

\* The second half of the symmetric handshake.
AuthenticateSession(sid) ==
  LET log == RecordUnloggedAuthentication(audit) IN
  /\ sid \in DOMAIN Live
  /\ ~Live[sid].authenticated
  /\ sessions' = [Live EXCEPT ![sid].authenticated = TRUE, ![sid].idle = 0]
  /\ audit' = Logged(log, ShouldAudit("AuthenticateSession"),
                     Live[sid].authorization.key, "AuthenticateSession", TRUE)
  /\ audit'.previous_digest <= MaxAppends
  /\ persistent_change' = ( \/ persistent_change
                            \/ CountsUnlogged(audit)
                            \/ Appends(audit, "AuthenticateSession") )
  /\ UNCHANGED <<objects, sequence_history, optionVars>>

\* A wrong cryptogram, or an AuthenticateSession for a session that is open
\* already: the entry was taken out of the table and is not put back.
FailAuthentication(sid) ==
  /\ sid \in DOMAIN Live
  /\ sessions' = Remove(Live, sid)
  /\ audit' = Logged(audit, ShouldAudit("AuthenticateSession"),
                     Live[sid].authorization.key, "AuthenticateSession", FALSE)
  /\ audit'.previous_digest <= MaxAppends
  /\ persistent_change' = ( \/ persistent_change
                            \/ Appends(audit, "AuthenticateSession") )
  /\ UNCHANGED <<objects, sequence_history, optionVars>>

\* A SessionMessage that does not verify, or for a pending session.
BrokenMessage(sid) ==
  /\ sid \in DOMAIN Live
  /\ sessions' = Remove(Live, sid)
  /\ UNCHANGED <<durable, persistent_change>>

\* Plain commands and frames refused before they reach a session.
OtherFrame ==
  /\ sessions # Live
  /\ sessions' = Live
  /\ UNCHANGED <<durable, persistent_change>>

\* The transport drops every session (bind, unbind, disable).
ClearSessions ==
  /\ sessions' = [sid \in {} |-> {}]
  /\ UNCHANGED <<durable, persistent_change>>

-----------------------------------------------------------------------------
(* Commands inside a session *)

Auth(sid) == Live[sid].authorization

Arrives(sid) == sid \in DOMAIN Live /\ Live[sid].authenticated

\* The session's own capability is looked at before anything else, so such a
\* refusal leaves no trace in the log.
Executes(sid, command) ==
  /\ Arrives(sid)
  /\ RequiredCapability(command) \subseteq Auth(sid).capabilities
  /\ ~RejectsForFullLog(command)

Refreshed(sid) == [Live EXCEPT ![sid].idle = 0]

\* Trailing half of execute_inner_with_session for a successful command:
\* `log' is the audit state the command left, should_audit is from before it.
Succeeds(sid, command, log) ==
  /\ Executes(sid, command)
  /\ audit' = Logged(log, ShouldAudit(command), Auth(sid).key, command, TRUE)
  /\ audit'.previous_digest <= MaxAppends
  /\ persistent_change' = ( \/ persistent_change
                            \/ command \in ChangesPersistentState
                            \/ Appends(log, command) )

\* Dispatch of the commands that write the object store.
Dispatch(auth, command, header) ==
  \/ command = "PutOpaque" /\ PutOpaque(auth, header)
  \/ command = "PutAuthenticationKey" /\ PutAuthenticationKey(auth, header)
  \/ command = "PutAsymmetricKey" /\ PutAsymmetricKey(auth, header, FALSE)
  \/ command = "GenerateAsymmetricKey" /\ PutAsymmetricKey(auth, header, TRUE)
  \/ command = "PutHmacKey" /\ PutHmacKey(auth, header, FALSE)
  \/ command = "GenerateHmacKey" /\ PutHmacKey(auth, header, TRUE)
  \/ command = "PutSymmetricKey" /\ PutSymmetricKey(auth, header, FALSE)
  \/ command = "GenerateSymmetricKey" /\ PutSymmetricKey(auth, header, TRUE)
  \/ command = "PutWrapKey" /\ PutWrapKey(auth, header, FALSE)
  \/ command = "GenerateWrapKey" /\ PutWrapKey(auth, header, TRUE)
  \/ command = "PutPublicWrapKey" /\ PutPublicWrapKey(auth, header)
  \/ command = "PutOtpAeadKey" /\ PutOtpAeadKey(auth, header, FALSE)
  \/ command = "GenerateOtpAeadKey" /\ PutOtpAeadKey(auth, header, TRUE)
  \/ command = "PutTemplate" /\ PutTemplate(auth, header)
  \/ /\ command = "ImportWrapped"
     /\ \E wrapId \in Ids : ImportWrapped(auth, wrapId, header)
  \/ /\ command = "ImportRsaWrapped"
     /\ \E wrapId \in Ids : ImportRsaWrapped(auth, wrapId, header)
  \/ /\ command = "PutRsaWrappedKey"
     /\ \E wrapId \in Ids, type \in ObjectTypes :
          PutRsaWrappedKey(auth, wrapId, type, header)

CreateCommand(sid, command, header) ==
  /\ Succeeds(sid, command, audit)
  /\ Dispatch(Auth(sid), command, header)
  /\ sessions' = Refreshed(sid)
  /\ UNCHANGED optionVars

ChangeKeyCommand(sid, algorithm) ==
  /\ Succeeds(sid, "ChangeAuthenticationKey", audit)
  /\ ChangeAuthenticationKey(Auth(sid), algorithm)
  /\ sessions' = Refreshed(sid)
  /\ UNCHANGED optionVars

\* Sessions of a deleted Authentication Key stay open.
DeleteCommand(sid, key) ==
  /\ Succeeds(sid, "DeleteObject", audit)
  /\ DeleteObject(Auth(sid), key)
  /\ sessions' = Refreshed(sid)
  /\ UNCHANGED optionVars

\* What a successful command that changes no durable state requires.
ReadAllowed(auth, command) ==
  \/ command \in DeviceReads \cup PlainCommands
  \/ /\ command \in KeyUses \cup ObjectReads
     /\ \E key \in DOMAIN objects : UseAllowed(auth, command, key)
  \/ /\ command \in Exports
     /\ \E wrapId \in Ids, target \in DOMAIN objects :
          ExportAllowed(auth, command, wrapId, target)
  \/ /\ command = "RewrapOtpAead"
     /\ \E from, to \in Ids : RewrapAllowed(auth, from, to)
  \/ /\ command = "SignAttestationCertificate"
     /\ \E target, attesting \in Ids \cup {AnyId} :
          AttestAllowed(auth, target, attesting)

ReadCommand(sid, command) ==
  /\ Succeeds(sid, command, audit)
  /\ ReadAllowed(Auth(sid), command)
  /\ sessions' = Refreshed(sid)
  /\ UNCHANGED <<objects, sequence_history, optionVars>>

SetLogIndexCommand(sid, index) ==
  /\ Succeeds(sid, "SetLogIndex", RetainAfter(audit, index))
  /\ sessions' = Refreshed(sid)
  /\ UNCHANGED <<objects, sequence_history, optionVars>>

SetForceAuditCommand(sid, value) ==
  /\ Succeeds(sid, "SetOption", audit)
  /\ SetForceAudit(value)
  /\ sessions' = Refreshed(sid)
  /\ UNCHANGED <<objects, sequence_history, algorithmVars>>

SetCommandAuditCommand(sid, update) ==
  /\ Succeeds(sid, "SetOption", audit)
  /\ SetCommandAudit(update)
  /\ sessions' = Refreshed(sid)
  /\ UNCHANGED <<objects, sequence_history, algorithmVars>>

SetAlgorithmToggleCommand(sid, update) ==
  /\ Succeeds(sid, "SetOption", audit)
  /\ SetAlgorithmToggle(update)
  /\ sessions' = Refreshed(sid)
  /\ UNCHANGED auditOptions

SetFipsModeCommand(sid, value) ==
  /\ Succeeds(sid, "SetOption", audit)
  /\ SetFipsMode(value)
  /\ sessions' = Refreshed(sid)
  /\ UNCHANGED auditOptions

\* Everything goes, the caller's session included; the entry for the reset
\* itself opens the new log if the old options asked for it.
ResetCommand(sid) ==
  /\ Succeeds(sid, "ResetDevice", FreshLog)
  /\ ResetStore
  /\ ResetAuditOptions
  /\ sessions' = [s \in {} |-> {}]

\* Closing succeeds or fails on its data, and closes in either case.
CloseCommand(sid) ==
  /\ Arrives(sid)
  /\ sessions' = Remove(Live, sid)
  /\ UNCHANGED <<durable, persistent_change>>

\* Mutant: the pairs before the one a SetOption is refused for take effect.
FailedCommandPartly(sid, command) ==
  /\ command # "CloseSession"
  /\ Executes(sid, command)
  /\ audit' = Logged(audit, ShouldAudit(command), Auth(sid).key, command, FALSE)
  /\ audit'.previous_digest <= MaxAppends
  /\ persistent_change' = (persistent_change \/ Appends(audit, command))
  /\ sessions' = Refreshed(sid)
  /\ command_audit' \in {command_audit} \cup
       { [command_audit EXCEPT ![c] = ON] :
           c \in {d \in Commands : command = "SetOption" /\ command_audit[d] = OFF} }
  /\ UNCHANGED <<objects, sequence_history, algorithm_toggle, fips_mode, force_audit>>

\* Any command may be malformed or refused once it is being executed.
FailedCommand(sid, command) ==
  /\ command # "CloseSession"
  /\ Executes(sid, command)
  /\ audit' = Logged(audit, ShouldAudit(command), Auth(sid).key, command, FALSE)
  /\ audit'.previous_digest <= MaxAppends
  /\ persistent_change' = (persistent_change \/ Appends(audit, command))
  /\ sessions' = Refreshed(sid)
  /\ UNCHANGED <<objects, sequence_history, optionVars>>

\* Refused for a missing session capability or for a full forced log.
RefusedCommand(sid, command) ==
  /\ command # "CloseSession"
  /\ Arrives(sid)
  /\ \/ ~(RequiredCapability(command) \subseteq Auth(sid).capabilities)
     \/ RejectsForFullLog(command)
  /\ sessions' = Refreshed(sid)
  /\ UNCHANGED <<durable, persistent_change>>

\* take_persistent_change: the runtime collects the change for its snapshot.
TakePersistentChange ==
  /\ persistent_change
  /\ persistent_change' = FALSE
  /\ UNCHANGED <<durable, sessions>>

-----------------------------------------------------------------------------

SessionFrame ==
  \/ \E id \in Ids : OpenSession(id) \/ FailToOpenSession(id)
  \/ \E sid \in DOMAIN sessions :
       AuthenticateSession(sid) \/ FailAuthentication(sid) \/ BrokenMessage(sid)
  \/ OtherFrame

StoreCommand(sid) ==
  \/ \E command \in Commands \cap (Creations \cup Imports), header \in Headers :
       CreateCommand(sid, command, header)
  \/ /\ "ChangeAuthenticationKey" \in Commands
     /\ \E algorithm \in Algorithms : ChangeKeyCommand(sid, algorithm)
  \/ /\ "DeleteObject" \in Commands
     /\ \E key \in DOMAIN objects : DeleteCommand(sid, key)

OptionCommand(sid) ==
  /\ "SetOption" \in Commands
  /\ \/ \E value \in ForceAuditUpdates : SetForceAuditCommand(sid, value)
     \/ \E update \in CommandAuditUpdates : SetCommandAuditCommand(sid, update)
     \/ \E update \in AlgorithmUpdates : SetAlgorithmToggleCommand(sid, update)
     \/ \E value \in FipsUpdates : SetFipsModeCommand(sid, value)

OtherCommand(sid) ==
  \/ \E command \in Commands :
       ReadCommand(sid, command) \/ FailedCommand(sid, command)
         \/ RefusedCommand(sid, command)
  \/ /\ "SetLogIndex" \in Commands
     /\ \E index \in 0..MaxNumber : SetLogIndexCommand(sid, index)
  \/ "ResetDevice" \in Commands /\ ResetCommand(sid)
  \/ CloseCommand(sid)

Next ==
  \/ Tick
  \/ SessionFrame
  \/ ClearSessions
  \/ \E sid \in DOMAIN sessions :
       StoreCommand(sid) \/ OptionCommand(sid) \/ OtherCommand(sid)
  \/ TakePersistentChange

Spec == Init /\ [][Next]_vars

=============================================================================

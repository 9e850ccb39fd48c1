------------------------------ MODULE AuditLog ------------------------------
(***************************************************************************)
(* The audit log of crates/virtual-yubihsm-core/src/device.rs: the force-  *)
(* audit and command-audit options and AuditState.                         *)
(*                                                                         *)
(* The Vec of entries is a set: every entry carries its place in the hash  *)
(* chain in `digest', which orders it.  The truncated SHA-256 over an entry*)
(* and the previous digest is injective for the model's purposes, so it is *)
(* represented by how many entries the chain has absorbed; systick, which  *)
(* advances in step with it, is left out.                                  *)
(***************************************************************************)
EXTENDS DeviceOptions, Protocol, FiniteSets

CONSTANTS
  Commands,        \* the command codes hosts send in a model
  LogCapacity,     \* DeviceConfig::log_capacity
  MaxNumber,       \* largest entry number (u16::MAX in the code)
  MaxUnlogged,     \* where the unlogged counters saturate (u16::MAX)
  MaxAppends       \* bound on the entries appended since a reset in a model

ASSUME AuditAssumption ==
  /\ Commands \subseteq CommandCodes
  /\ {"CreateSession", "AuthenticateSession"} \subseteq Commands
  /\ LogCapacity \in Nat \ {0}
  /\ MaxNumber \in Nat \ {0}
  /\ MaxUnlogged \in Nat
  /\ MaxAppends \in Nat

VARIABLES
  force_audit,     \* option value
  command_audit,   \* command -> option value
  audit            \* AuditState

auditOptions == <<force_audit, command_audit>>

FreshLog ==
  [entries |-> {}, next_number |-> 1, previous_digest |-> 0,
   unlogged_authentication |-> 0]

AuditInit ==
  /\ force_audit = OFF
  /\ command_audit = [c \in Commands |-> OFF]
  /\ audit = FreshLog

-----------------------------------------------------------------------------

\* Mutant: one entry more than the capacity fits.
Overfull(log) == Cardinality(log.entries) > LogCapacity

Full(log) == Cardinality(log.entries) >= LogCapacity

ShouldAudit(command) ==
  CanBeAudited(command) /\ command_audit[command] # OFF

\* Mutant: administration is let through, as reading the log is.
RejectsOnlyObjectCommands(command) ==
  /\ Ordinary(command) /\ command \notin {"SetOption", "ResetDevice"}
  /\ force_audit # OFF
  /\ Full(audit)

\* execute_inner_with_session refuses ordinary commands when nothing more
\* can be logged under force audit.
RejectsForFullLog(command) ==
  Ordinary(command) /\ force_audit # OFF /\ Full(audit)

\* Mutant: the number after the last one is zero.
NextNumberOrZero(number) == IF number = MaxNumber THEN 0 ELSE number + 1

\* u16::wrapping_add(1).max(1)
NextNumber(number) == IF number = MaxNumber THEN 1 ELSE number + 1

\* A full log drops the entry without a trace.
AppendEntry(log, key, command, ok) ==
  IF Full(log) THEN log ELSE
    [log EXCEPT
       !.entries = @ \cup {[number |-> log.next_number, command |-> command,
                            session_key |-> key, ok |-> ok,
                            digest |-> log.previous_digest + 1]},
       !.next_number = NextNumber(@),
       !.previous_digest = @ + 1]

\* What the log is after a command: should_audit is the caller's, taken
\* before the command ran.
Logged(log, shouldAudit, key, command, ok) ==
  IF shouldAudit THEN AppendEntry(log, key, command, ok) ELSE log

\* Mutant: a fixed option is not seen as on.
CountsUnloggedWhenOn(log) == force_audit = ON /\ Full(log)

\* A successful authentication the log has no room for is counted instead.
CountsUnlogged(log) == force_audit # OFF /\ Full(log)

RecordUnloggedAuthentication(log) ==
  IF CountsUnlogged(log)
    THEN [log EXCEPT !.unlogged_authentication =
            IF @ = MaxUnlogged THEN @ ELSE @ + 1]
    ELSE log

\* set_log_index
RetainAfter(log, index) ==
  [log EXCEPT !.entries = {entry \in @ : entry.number > index}]

SetForceAudit(value) ==
  /\ MaySet(force_audit, value)
  /\ force_audit' = value
  /\ UNCHANGED command_audit

\* Mutant: the pair that is fixed is skipped over by a request for another.
SetCommandAuditLeniently(update) ==
  /\ \E c \in DOMAIN update : MaySet(command_audit[c], update[c])
  /\ command_audit' = [c \in Commands |->
       IF c \in DOMAIN update THEN update[c] ELSE command_audit[c]]
  /\ UNCHANGED force_audit

\* All pairs of a request are checked on a copy before any takes effect.  A
\* request that names a command twice ends as one that names it once, with the
\* last value, or is refused.
SetCommandAudit(update) ==
  /\ \A c \in DOMAIN update : MaySet(command_audit[c], update[c])
  /\ "SessionMessage" \in DOMAIN update => update["SessionMessage"] = OFF
  /\ command_audit' = [c \in Commands |->
       IF c \in DOMAIN update THEN update[c] ELSE command_audit[c]]
  /\ UNCHANGED force_audit

ResetAuditOptions ==
  /\ force_audit' = OFF
  /\ command_audit' = [c \in Commands |-> OFF]

=============================================================================

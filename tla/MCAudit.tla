------------------------------ MODULE MCAudit ------------------------------
(***************************************************************************)
(* Device instance for the audit log: a log of two entries whose numbers   *)
(* wrap, force audit, per-command audit, an algorithm toggle and FIPS mode *)
(* switched at any time, and resets.  The one key the device has can be    *)
(* changed, which decides between the symmetric and asymmetric handshake.  *)
(***************************************************************************)
EXTENDS DeviceProperties

AuditCommands ==
  { "CreateSession", "AuthenticateSession", "SetOption", "GetLogEntries",
    "SetLogIndex", "ChangeAuthenticationKey", "ResetDevice" }

AuditCapabilities ==
  { "SetOption", "GetLogEntries", "ChangeAuthenticationKey", "ResetDevice" }

\* Switch everything on, fix one command, or try to switch two off together.
AuditUpdates ==
  { [c \in AuditCommands |-> ON],
    [c \in {"ChangeAuthenticationKey"} |-> FIX],
    [c \in {"ChangeAuthenticationKey", "SetOption"} |-> OFF] }

\* Switch one algorithm off, or fix it together with the factory key's.
ToggleUpdates ==
  { [a \in {"EcK256"} |-> OFF],
    [a \in {"EcK256", "Aes128Auth"} |-> FIX] }

=============================================================================

---------------------------- MODULE MCAuthority ----------------------------
(***************************************************************************)
(* Device instance for authority and generations: two ids, an             *)
(* administrator, a limited operator and a wrap key; hosts create, import, *)
(* change and delete keys and open sessions with whatever keys exist.      *)
(***************************************************************************)
EXTENDS DeviceProperties

AuthorityCommands ==
  { "CreateSession", "AuthenticateSession", "PutAuthenticationKey",
    "PutWrapKey", "ImportWrapped", "ChangeAuthenticationKey",
    "DeleteObject", "ResetDevice" }

AuthorityCapabilities ==
  { "PutAuthenticationKey", "PutWrapKey", "ImportWrapped",
    "DeleteAuthenticationKey", "ChangeAuthenticationKey", "ResetDevice" }

Header(id, capabilities, delegated, domains, algorithm) ==
  [ requested |-> id, capabilities |-> capabilities, delegated |-> delegated,
    domains |-> domains, algorithm |-> algorithm ]

OperatorCapabilities ==
  {"PutAuthenticationKey", "ImportWrapped", "DeleteAuthenticationKey"}

AuthorityHeaders ==
  { Header(1, AuthorityCapabilities, AuthorityCapabilities, {1, 2}, "EcP256Auth"),
    Header(1, {"ImportWrapped"}, AuthorityCapabilities, {2}, "Aes128Auth"),
    Header(2, OperatorCapabilities, {"ImportWrapped"}, {2}, "EcP256Auth"),
    Header(2, {"ImportWrapped"}, {"ImportWrapped"}, {1, 2}, "Aes128CcmWrap") }

=============================================================================

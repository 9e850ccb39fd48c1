---------------------------- MODULE MCCommands -----------------------------
(***************************************************************************)
(* Device instance with the whole command set: one session of the factory  *)
(* key creates, imports, exports, uses and deletes objects of every type   *)
(* under one id, with most algorithms switched off, FIPS mode on, or both. *)
(***************************************************************************)
EXTENDS DeviceProperties

HostCommands == CommandCodes \ {"SetLogIndex"}

SomeCapabilities ==
  UNION {RequiredCapability(command) : command \in CommandCodes}
    \cup {DeletionCapability(type) : type \in ObjectTypes}
    \cup {"RewrapFromOtpAeadKey", "RewrapToOtpAeadKey", "ExportableUnderWrap"}

\* The RSA key serves as asymmetric, wrap and public wrap key; EcK256 is the
\* one FIPS mode bans.
Wanted ==
  { "OpaqueData", "Aes128Auth", "EcK256", "Rsa2048", "MlKem512",
    "HybridMlKem768X25519", "Aes128CcmWrap", "HmacSha256", "TemplateSsh",
    "Aes128YubicoOtp", "Aes128" }

HostHeaders ==
  { [ requested |-> 2, capabilities |-> SomeCapabilities,
      delegated |-> SomeCapabilities, domains |-> {1},
      algorithm |-> algorithm ] : algorithm \in Wanted }
    \cup { [ requested |-> AnyId, capabilities |-> {}, delegated |-> {},
             domains |-> {1}, algorithm |-> "OpaqueX509Certificate" ] }

\* Everything but the two wrapping algorithms, so that imports go on.
SwitchMostOff ==
  { [a \in Algorithms \ {"Aes128CcmWrap", "Rsa2048"} |-> OFF] }

=============================================================================

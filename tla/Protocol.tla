------------------------------ MODULE Protocol ------------------------------
(***************************************************************************)
(* The command codes (crates/virtual-yubihsm-core/src/protocol.rs) and the *)
(* tables of device.rs that classify them.                                 *)
(***************************************************************************)

\* Commands that use one existing object under the session's and the
\* object's capability, by the family of keys they use.
SignatureUses == {"SignPkcs1", "SignPss", "SignEcdsa", "SignEddsa", "SignMlDsa"}
KemUses ==
  { "EncapsulateMlKem", "DecapsulateMlKem", "EncapsulateHybridKem",
    "DecapsulateHybridKem" }
EcdhUses == {"DeriveEcdh", "DeriveEcdhKdf"}
DecryptionUses == {"DecryptPkcs1", "DecryptOaep"}
HmacUses == {"SignHmac", "VerifyHmac"}
WrapUses == {"WrapData", "UnwrapData"}
AesUses == {"EncryptEcb", "DecryptEcb", "EncryptCbc", "DecryptCbc"}
OtpUses == {"CreateOtpAead", "RandomizeOtpAead", "DecryptOtp"}

KeyUses ==
  SignatureUses \cup KemUses \cup EcdhUses \cup DecryptionUses \cup HmacUses
    \cup WrapUses \cup AesUses \cup OtpUses \cup {"GetTemplate"}

ObjectReads == {"GetOpaque", "GetObjectInfo", "GetPublicKey"}

Exports == {"ExportWrapped", "ExportRsaWrapped", "GetRsaWrappedKey"}

\* Reads that look at no single object.
DeviceReads ==
  { "GetStorageInfo", "GetPseudoRandom", "ListObjects", "GetOption",
    "BlinkDevice", "GetLogEntries", "SessionObject" }

\* Commands accepted both in the clear and inside a session.
PlainCommands == {"Echo", "GetDeviceInfo", "GetDevicePublicKey"}

\* Commands whose handlers write the object store.
Creations ==
  { "PutOpaque", "PutAuthenticationKey", "PutAsymmetricKey",
    "GenerateAsymmetricKey", "PutWrapKey", "GenerateWrapKey", "PutHmacKey",
    "GenerateHmacKey", "PutTemplate", "PutOtpAeadKey", "GenerateOtpAeadKey",
    "PutSymmetricKey", "GenerateSymmetricKey", "PutPublicWrapKey" }
Imports == {"ImportWrapped", "ImportRsaWrapped", "PutRsaWrappedKey"}
StoreWrites == Creations \cup Imports \cup {"ChangeAuthenticationKey", "DeleteObject"}

\* Commands that administer the device.
Administration == {"SetOption", "SetLogIndex", "ResetDevice"}

\* command_changes_persistent_state: a list of its own in the code, which
\* nothing but review keeps in step with the handlers.
ChangesPersistentState ==
  { "PutOpaque", "PutAuthenticationKey", "PutAsymmetricKey",
    "GenerateAsymmetricKey", "ImportWrapped", "PutWrapKey", "SetOption",
    "PutHmacKey", "GenerateHmacKey", "GenerateWrapKey", "DeleteObject",
    "PutTemplate", "PutOtpAeadKey", "GenerateOtpAeadKey", "SetLogIndex",
    "ChangeAuthenticationKey", "PutSymmetricKey", "GenerateSymmetricKey",
    "PutPublicWrapKey", "PutRsaWrappedKey", "ImportRsaWrapped", "ResetDevice" }

\* command_is_meta
MetaCommands ==
  PlainCommands \cup
    {"CreateSession", "AuthenticateSession", "SessionMessage", "CloseSession"}

\* A known code without a handler: it passes the capability check and is
\* then always refused, so it is only ever a FailedCommand.
Unhandled == {"SignSshCertificate"}

CommandCodes ==
  KeyUses \cup ObjectReads \cup Exports \cup DeviceReads \cup StoreWrites
    \cup Administration \cup MetaCommands \cup Unhandled
    \cup {"RewrapOtpAead", "SignAttestationCertificate"}

\* command_can_be_audited
CanBeAudited(command) ==
  \/ command \notin MetaCommands
  \/ command \in {"CreateSession", "AuthenticateSession"}

\* Refused while a forced audit log is full.
Ordinary(command) ==
  command \notin MetaCommands \cup {"GetLogEntries", "SetLogIndex"}

\* required_session_capability: the capability named like the command, a
\* shared one, or none.
RequiredCapability(command) ==
  CASE command \in MetaCommands \cup
         { "RewrapOtpAead", "DeleteObject", "GetStorageInfo", "ListObjects",
           "GetObjectInfo", "GetPublicKey", "BlinkDevice" } -> {}
    [] command = "SignPkcs1" -> {"SignPkcs"}
    [] command = "DecryptPkcs1" -> {"DecryptPkcs"}
    [] command \in Exports -> {"ExportWrapped"}
    [] command \in Imports -> {"ImportWrapped"}
    [] command = "SetLogIndex" -> {"SetOption"}
    [] command = "PutHmacKey" -> {"PutMacKey"}
    [] command = "SessionObject" -> {"SessionObjects"}
    [] OTHER -> {command}

=============================================================================

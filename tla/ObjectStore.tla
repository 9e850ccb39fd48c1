---------------------------- MODULE ObjectStore ----------------------------
(***************************************************************************)
(* The object store of crates/virtual-yubihsm-core/src/device.rs: the      *)
(* objects, the generation counter kept per numeric id, and the options    *)
(* that enable algorithms.  Every command that creates, imports, replaces, *)
(* changes or deletes objects is an operator on `objects' and              *)
(* `sequence_history', taking the authorization snapshot of the session it *)
(* runs in; Device.tla puts sessions and the audit log around them.        *)
(*                                                                         *)
(* A command is modelled by its success: the code validates before it      *)
(* changes anything, so a rejected command leaves the store as it was.     *)
(* Key material, labels and lengths are abstracted away; what a request    *)
(* asks for is a header drawn from Headers.                                *)
(***************************************************************************)
EXTENDS Authorization, DeviceOptions, Protocol

CONSTANTS
  Ids,              \* numeric object ids in use
  Capabilities,     \* CapabilitySet::ALL
  Domains,          \* the set bits of domain mask 0xFFFF
  Headers,          \* object headers hosts send
  SequenceModulus,  \* sequences are generations modulo this (2^8 in the code)
  MaxGeneration     \* bound on the writes to one id in a model

AnyId == 0        \* requested id 0: the device chooses
LastId == 65534   \* 0xFFFF is no id

ObjectTypes ==
  { "Opaque", "AuthenticationKey", "AsymmetricKey", "WrapKey", "HmacKey",
    "Template", "OtpAeadKey", "SymmetricKey", "PublicWrapKey" }

\* One representative of each kind of algorithm the code tells apart.
AsymmetricAlgorithms ==
  {"EcP256", "EcK256", "Rsa2048", "Ed25519", "MlDsa44", "MlKem512", "HybridMlKem768X25519"}

AlgorithmsOf(type) ==
  CASE type = "Opaque"            -> {"OpaqueData", "OpaqueX509Certificate"}
    [] type = "AuthenticationKey" -> {"Aes128Auth", "EcP256Auth"}
    [] type = "AsymmetricKey"     -> AsymmetricAlgorithms
    [] type = "WrapKey"           -> {"Aes128CcmWrap", "Rsa2048"}
    [] type = "PublicWrapKey"     -> {"Rsa2048"}
    [] type = "HmacKey"           -> {"HmacSha256"}
    [] type = "Template"          -> {"TemplateSsh"}
    [] type = "OtpAeadKey"        -> {"Aes128YubicoOtp"}
    [] type = "SymmetricKey"      -> {"Aes128"}

\* KEM keys have no PKCS #8 form, so they neither leave nor enter wrapped.
WrappedAlgorithms(type) ==
  AlgorithmsOf(type) \ {"MlKem512", "HybridMlKem768X25519"}

Algorithms ==
  AsymmetricAlgorithms \cup
    { "OpaqueData", "OpaqueX509Certificate", "Aes128Auth", "EcP256Auth",
      "Aes128CcmWrap", "HmacSha256", "TemplateSsh", "Aes128YubicoOtp", "Aes128" }

\* put_opaque takes whatever algorithm is enabled as a tag.
CreatableAlgorithms(type) ==
  IF type = "Opaque" THEN Algorithms ELSE AlgorithmsOf(type)

FipsDisallowed == {"EcK256"}

\* Origin byte: 1 generated, 2 imported, 0x10 added by a wrapped import.
Origins == SUBSET {"generated", "imported", "wrapped"}

\* A wrapped object brings its own origin, any that lacks the wrapped mark.
CarriedOrigins == SUBSET {"generated", "imported"}

Keys == ObjectTypes \X Ids

HeaderSet ==
  [ requested    : Ids \cup {AnyId},
    capabilities : SUBSET Capabilities,
    delegated    : SUBSET Capabilities,
    domains      : SUBSET Domains,
    algorithm    : Algorithms ]

ObjectInfo ==
  [ capabilities : SUBSET Capabilities,
    delegated    : SUBSET Capabilities,
    domains      : SUBSET Domains,
    algorithm    : Algorithms,
    origin       : Origins,
    sequence     : 0 .. SequenceModulus - 1 ]

ASSUME StoreAssumption ==
  /\ Ids \subseteq 1..LastId
  /\ 1 \in Ids
  /\ Domains # {}
  /\ Headers \subseteq HeaderSet
  /\ SequenceModulus \in Nat \ {0}
  /\ MaxGeneration \in Nat

VARIABLES
  objects,           \* [type, id] -> ObjectInfo, partial
  sequence_history,  \* id -> latest generation, partial; survives deletion
  algorithm_toggle,  \* algorithm -> option value
  fips_mode          \* option value

storeVars == <<objects, sequence_history>>
algorithmVars == <<algorithm_toggle, fips_mode>>

-----------------------------------------------------------------------------
(* Algorithm options *)

AlgorithmEnabled(algorithm) ==
  /\ algorithm_toggle[algorithm] # OFF
  /\ ~(fips_mode # OFF /\ algorithm \in FipsDisallowed)

FactoryKey == <<"AuthenticationKey", 1>>

\* Mutant: other objects beside the factory key are overlooked.
RequireFactoryKey == FactoryKey \in DOMAIN objects

\* Algorithm options change only while the factory key's slot is all there is.
RequireFreshDevice == DOMAIN objects = {FactoryKey}

SetAlgorithmToggle(update) ==
  /\ RequireFreshDevice
  /\ \A a \in DOMAIN update : MaySet(algorithm_toggle[a], update[a])
  /\ algorithm_toggle' = [a \in Algorithms |->
       IF a \in DOMAIN update THEN update[a] ELSE algorithm_toggle[a]]
  /\ UNCHANGED <<objects, sequence_history, fips_mode>>

SetFipsMode(value) ==
  /\ RequireFreshDevice
  /\ MaySet(fips_mode, value)
  /\ fips_mode' = value
  /\ UNCHANGED <<objects, sequence_history, algorithm_toggle>>

-----------------------------------------------------------------------------
(* Writing objects *)

\* Id 0 draws an id no object of any type uses; others must be free for type.
ResolveId(type, requested, id) ==
  IF requested = AnyId
    THEN \A key \in DOMAIN objects : key[2] # id
    ELSE id = requested /\ <<type, id>> \notin DOMAIN objects

\* Mutant: the latest generation is handed out again.
LatestGeneration(id) ==
  IF id \in DOMAIN sequence_history THEN sequence_history[id] ELSE 0

NextGeneration(id) ==
  IF id \in DOMAIN sequence_history THEN sequence_history[id] + 1 ELSE 0

\* Mutant: the generation is not narrowed to the sequence byte.
WriteObjectUnnarrowed(key, info) ==
  LET generation == NextGeneration(key[2]) IN
  /\ generation <= MaxGeneration
  /\ sequence_history' = Insert(sequence_history, key[2], generation)
  /\ objects' = Insert(objects, key, [info EXCEPT !.sequence = generation])

WriteObject(key, info) ==
  LET generation == NextGeneration(key[2]) IN
  /\ generation <= MaxGeneration
  /\ sequence_history' = Insert(sequence_history, key[2], generation)
  /\ objects' = Insert(objects, key,
                  [info EXCEPT !.sequence = generation % SequenceModulus])

Requested(header, delegated, origin) ==
  [ capabilities |-> header.capabilities,
    delegated    |-> delegated,
    domains      |-> header.domains,
    algorithm    |-> header.algorithm,
    origin       |-> origin,
    sequence     |-> 0 ]

\* The common course of put_* and generate_*: algorithm, id, ceiling, write.
CreateObject(auth, type, capability, header, delegated, origin) ==
  LET info == Requested(header, delegated, origin) IN
  /\ header.algorithm \in CreatableAlgorithms(type)
  /\ AlgorithmEnabled(header.algorithm)
  /\ AuthorizeCreate(auth, info, capability)
  /\ \E id \in Ids : /\ ResolveId(type, header.requested, id)
                     /\ WriteObject(<<type, id>>, info)

Origin(generate) == IF generate THEN {"generated"} ELSE {"imported"}

PutAuthenticationKey(auth, header) ==
  CreateObject(auth, "AuthenticationKey", "PutAuthenticationKey",
               header, header.delegated, {"imported"})

PutAsymmetricKey(auth, header, generate) ==
  CreateObject(auth, "AsymmetricKey",
               IF generate THEN "GenerateAsymmetricKey" ELSE "PutAsymmetricKey",
               header, {}, Origin(generate))

PutHmacKey(auth, header, generate) ==
  CreateObject(auth, "HmacKey",
               IF generate THEN "GenerateHmacKey" ELSE "PutMacKey",
               header, {}, Origin(generate))

PutSymmetricKey(auth, header, generate) ==
  CreateObject(auth, "SymmetricKey",
               IF generate THEN "GenerateSymmetricKey" ELSE "PutSymmetricKey",
               header, {}, Origin(generate))

PutWrapKey(auth, header, generate) ==
  CreateObject(auth, "WrapKey",
               IF generate THEN "GenerateWrapKey" ELSE "PutWrapKey",
               header, header.delegated, Origin(generate))

PutPublicWrapKey(auth, header) ==
  CreateObject(auth, "PublicWrapKey", "PutPublicWrapKey",
               header, header.delegated, {"imported"})

PutOtpAeadKey(auth, header, generate) ==
  CreateObject(auth, "OtpAeadKey",
               IF generate THEN "GenerateOtpAeadKey" ELSE "PutOtpAeadKey",
               header, {}, Origin(generate))

PutTemplate(auth, header) ==
  CreateObject(auth, "Template", "PutTemplate", header, {}, {"imported"})

\* An existing Opaque object is replaced in place when the metadata agrees.
ReplaceOpaque(auth, header) ==
  LET key == <<"Opaque", header.requested>> IN
  /\ key \in DOMAIN objects
  /\ AuthorizeUse(auth, objects[key], "PutOpaque")
  /\ AlgorithmEnabled(header.algorithm)
  /\ header.capabilities = objects[key].capabilities
  /\ header.domains = objects[key].domains
  /\ header.algorithm = objects[key].algorithm
  /\ WriteObject(key, objects[key])

PutOpaque(auth, header) ==
  \/ ReplaceOpaque(auth, header)
  \/ CreateObject(auth, "Opaque", "PutOpaque", header, {}, {"imported"})

-----------------------------------------------------------------------------
(* Wrapped objects *)

\* The wrap key an import names: visible, usable for import, right kind.
ImportingKey(auth, id, algorithm) ==
  LET key == <<"WrapKey", id>> IN
  /\ key \in DOMAIN objects
  /\ AuthorizeUse(auth, objects[key], "ImportWrapped")
  /\ objects[key].algorithm = algorithm
  /\ AlgorithmEnabled(algorithm)

\* What a wrapped blob decrypts to is any well-formed object: whoever knows
\* the wrapping key can make one.  Its own algorithm is not looked up in the
\* algorithm options.
WrappedCreation(auth, wrapId, algorithm, header) ==
  /\ ImportingKey(auth, wrapId, algorithm)
  /\ header.requested # AnyId
  /\ \E type \in ObjectTypes, origin \in CarriedOrigins :
       LET info == Requested(header, header.delegated, origin \cup {"wrapped"}) IN
       /\ header.algorithm \in WrappedAlgorithms(type)
       /\ AuthorizeWrappedCreation(auth, info, objects[<<"WrapKey", wrapId>>])
       /\ \E id \in Ids : /\ ResolveId(type, header.requested, id)
                          /\ WriteObject(<<type, id>>, info)

ImportWrapped(auth, wrapId, header) ==
  WrappedCreation(auth, wrapId, "Aes128CcmWrap", header)

ImportRsaWrapped(auth, wrapId, header) ==
  WrappedCreation(auth, wrapId, "Rsa2048", header)

\* Key material alone travels wrapped; the metadata comes with the request.
PutRsaWrappedKey(auth, wrapId, type, header) ==
  LET info == Requested(header, {}, {"imported", "wrapped"}) IN
  /\ type \in {"AsymmetricKey", "SymmetricKey"}
  /\ header.algorithm \in WrappedAlgorithms(type)
  /\ AlgorithmEnabled(header.algorithm)
  /\ ImportingKey(auth, wrapId, "Rsa2048")
  /\ AuthorizeWrappedCreation(auth, info, objects[<<"WrapKey", wrapId>>])
  /\ \E id \in Ids : /\ ResolveId(type, header.requested, id)
                     /\ WriteObject(<<type, id>>, info)

-----------------------------------------------------------------------------
(* Changing and deleting objects *)

\* Only the session's own key; capabilities and domains stay.
ChangeAuthenticationKey(auth, algorithm) ==
  LET key == <<"AuthenticationKey", auth.key>> IN
  /\ key \in DOMAIN objects
  /\ AuthorizeUse(auth, objects[key], "ChangeAuthenticationKey")
  /\ algorithm \in AlgorithmsOf("AuthenticationKey")
  /\ AlgorithmEnabled(algorithm)
  /\ WriteObject(key, [objects[key] EXCEPT !.algorithm = algorithm])

DeletionCapability(type) ==
  CASE type = "Opaque"            -> "DeleteOpaque"
    [] type = "AuthenticationKey" -> "DeleteAuthenticationKey"
    [] type = "AsymmetricKey"     -> "DeleteAsymmetricKey"
    [] type = "WrapKey"           -> "DeleteWrapKey"
    [] type = "HmacKey"           -> "DeleteHmacKey"
    [] type = "Template"          -> "DeleteTemplate"
    [] type = "OtpAeadKey"        -> "DeleteOtpAeadKey"
    [] type = "SymmetricKey"      -> "DeleteSymmetricKey"
    [] type = "PublicWrapKey"     -> "DeletePublicWrapKey"

\* Mutant: the generation goes with the object.
DeleteObjectAndHistory(auth, key) ==
  /\ key \in DOMAIN objects
  /\ AuthorizeDelete(auth, objects[key], DeletionCapability(key[1]))
  /\ objects' = Remove(objects, key)
  /\ sequence_history' = Remove(sequence_history, key[2])

\* The generation of the id outlives the object.
DeleteObject(auth, key) ==
  /\ key \in DOMAIN objects
  /\ AuthorizeDelete(auth, objects[key], DeletionCapability(key[1]))
  /\ objects' = Remove(objects, key)
  /\ UNCHANGED sequence_history

FactoryInfo ==
  [ capabilities |-> Capabilities,
    delegated    |-> Capabilities,
    domains      |-> Domains,
    algorithm    |-> "Aes128Auth",
    origin       |-> {"imported"},
    sequence     |-> 0 ]

FactoryObjects == [key \in {FactoryKey} |-> FactoryInfo]
FactoryHistory == [id \in {1} |-> 0]

\* A factory-default store, and what ResetDevice leaves behind.
StoreInit ==
  /\ objects = FactoryObjects
  /\ sequence_history = FactoryHistory
  /\ algorithm_toggle = [a \in Algorithms |-> ON]
  /\ fips_mode = OFF

ResetStore ==
  /\ objects' = FactoryObjects
  /\ sequence_history' = FactoryHistory
  /\ algorithm_toggle' = [a \in Algorithms |-> ON]
  /\ fips_mode' = OFF

-----------------------------------------------------------------------------
(* Using objects: what authorize_command_request and the handlers demand *)

UseType(command) ==
  CASE command \in HmacUses -> "HmacKey"
    [] command \in WrapUses -> "WrapKey"
    [] command \in AesUses -> "SymmetricKey"
    [] command \in OtpUses -> "OtpAeadKey"
    [] command = "GetTemplate" -> "Template"
    [] OTHER -> "AsymmetricKey"

\* The algorithms whose keys can carry out a command.
UseAlgorithms(command) ==
  CASE command \in {"SignPkcs1", "SignPss"} \cup DecryptionUses -> {"Rsa2048"}
    [] command \in {"SignEcdsa"} \cup EcdhUses -> {"EcP256", "EcK256"}
    [] command = "SignEddsa" -> {"Ed25519"}
    [] command = "SignMlDsa" -> {"MlDsa44"}
    [] command \in {"EncapsulateMlKem", "DecapsulateMlKem"} -> {"MlKem512"}
    [] command \in {"EncapsulateHybridKem", "DecapsulateHybridKem"} ->
         {"HybridMlKem768X25519"}
    [] command \in WrapUses -> {"Aes128CcmWrap"}
    [] OTHER -> AlgorithmsOf(UseType(command))

\* get_public_key: visible, and of a kind that has a public half.
PublicKeyAllowed(auth, key) ==
  /\ key[1] \in {"AsymmetricKey", "AuthenticationKey", "WrapKey", "PublicWrapKey"}
  /\ objects[key].algorithm \notin {"Aes128Auth", "Aes128CcmWrap"}
  /\ CanSee(auth, objects[key])

UseAllowed(auth, command, key) ==
  /\ key \in DOMAIN objects
  /\ CASE command \in KeyUses ->
            /\ key[1] = UseType(command)
            /\ \A capability \in RequiredCapability(command) :
                 AuthorizeUse(auth, objects[key], capability)
            /\ objects[key].algorithm \in UseAlgorithms(command)
            /\ command # "GetTemplate" =>
                 AlgorithmEnabled(objects[key].algorithm)
       [] command = "GetOpaque" ->
            /\ key[1] = "Opaque"
            /\ "GetOpaque" \in auth.capabilities
            /\ CanSee(auth, objects[key])
       [] command = "GetObjectInfo" -> CanSee(auth, objects[key])
       [] command = "GetPublicKey" -> PublicKeyAllowed(auth, key)

\* Export leaves the store alone; target and wrap key are both looked up.
ExportAllowed(auth, command, wrapId, target) ==
  LET wrapType == IF command = "ExportWrapped" THEN "WrapKey"
                                               ELSE "PublicWrapKey"
      wrapKey  == <<wrapType, wrapId>> IN
  /\ {wrapKey, target} \subseteq DOMAIN objects
  /\ AuthorizeWrappedExport(auth, objects[target], objects[wrapKey])
  /\ AlgorithmEnabled(objects[wrapKey].algorithm)
  /\ objects[target].algorithm \in WrappedAlgorithms(target[1])
  /\ command = "ExportWrapped" => objects[wrapKey].algorithm = "Aes128CcmWrap"
  /\ command = "GetRsaWrappedKey" =>
       target[1] \in {"AsymmetricKey", "SymmetricKey"}

\* Two OTP keys, each under its own capability.
RewrapAllowed(auth, from, to) ==
  /\ {<<"OtpAeadKey", from>>, <<"OtpAeadKey", to>>} \subseteq DOMAIN objects
  /\ AuthorizeUse(auth, objects[<<"OtpAeadKey", from>>], "RewrapFromOtpAeadKey")
  /\ AuthorizeUse(auth, objects[<<"OtpAeadKey", to>>], "RewrapToOtpAeadKey")
  /\ AlgorithmEnabled(objects[<<"OtpAeadKey", from>>].algorithm)
  /\ AlgorithmEnabled(objects[<<"OtpAeadKey", to>>].algorithm)

\* Attestation: the target's origin must say it was generated and its public
\* key must have a certificate form; id 0 stands for the device's own key on
\* either side.
AttestAllowed(auth, target, attesting) ==
  LET attested == <<"AsymmetricKey", target>>
      signer   == <<"AsymmetricKey", attesting>>
      issuer   == <<"Opaque", attesting>> IN
  /\ target # AnyId =>
       /\ attested \in DOMAIN objects
       /\ CanSee(auth, objects[attested])
       /\ "generated" \in objects[attested].origin
       /\ objects[attested].algorithm \notin {"MlDsa44", "MlKem512"}
       /\ AlgorithmEnabled(objects[attested].algorithm)
  /\ attesting # AnyId =>
       /\ signer \in DOMAIN objects
       /\ AuthorizeUse(auth, objects[signer], "SignAttestationCertificate")
       /\ objects[signer].algorithm = "EcP256"
       /\ AlgorithmEnabled("EcP256")
       /\ issuer \in DOMAIN objects =>
            /\ CanSee(auth, objects[issuer])
            /\ objects[issuer].algorithm = "OpaqueX509Certificate"

=============================================================================

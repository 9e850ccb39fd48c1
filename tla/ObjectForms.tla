----------------------------- MODULE ObjectForms -----------------------------
(***************************************************************************)
(* The forms an object's material takes and the lengths that describe it:  *)
(* what a host supplies, what the running device holds                     *)
(* (crates/virtual-yubihsm-core/src/object.rs), what the state file holds, *)
(* and what a wrapped object holds (device.rs).  Every handler computes    *)
(* the reported length by itself, three algorithm tables describe key      *)
(* sizes, and the state file is read by a validator stricter than a save,  *)
(* so a form one of them lets through can stop the next start.             *)
(*                                                                         *)
(* Bytes are abstracted to how many there are; a parsed key to its kind,   *)
(* the size of the encoding it retains, and whether the RSA validation of  *)
(* imports would accept it.  Authorization, generations and the algorithm  *)
(* options are in ObjectStore.tla.                                         *)
(***************************************************************************)
EXTENDS KeyLengths, FiniteSets, Functions

CONSTANTS
  HostAlgorithms,  \* algorithms the requests of a model name
  Sizes,           \* sizes of the byte strings hosts supply
  Serials,         \* serial numbers processes are configured with
  LogCapacity,     \* DeviceConfig::log_capacity
  MaxObjects       \* bound on the objects of a model

ObjectTypes ==
  { "Opaque", "AuthenticationKey", "AsymmetricKey", "WrapKey", "HmacKey",
    "Template", "OtpAeadKey", "SymmetricKey", "PublicWrapKey" }

ASSUME FormsAssumption ==
  /\ HostAlgorithms \subseteq Algorithms
  /\ Sizes \subseteq Nat
  /\ LogCapacity \in Nat
  /\ MaxObjects \in Nat

VARIABLES
  power,    \* "on" while a process serves the device
  serial,   \* serial number of the last process that did
  objects,  \* its objects; while the power is off, those it had
  file      \* the state file it left; not looked at while the power is on

vars == <<power, serial, objects, file>>

-----------------------------------------------------------------------------
(* Material *)

Material(form, kind, size, sound) ==
  [form |-> form, kind |-> kind, size |-> size, sound |-> sound]
Bytes(form, size) == Material(form, "bytes", size, TRUE)

\* ObjectMaterial::len
MaterialLength(material) ==
  CASE material.form = "SigningKey" -> KindLength(material.kind)
    [] material.form = "MlKemKey" -> 64
    [] material.form = "HybridKemKey" -> 32
    [] OTHER -> material.size

HoldsPrivateKey(type, a) == type = "AsymmetricKey" \/ (type = "WrapKey" /\ a \in Rsa)

FormOf(a) ==
  CASE a \in MlKem -> "MlKemKey"
    [] a \in HybridKem -> "HybridKemKey"
    [] a \in Montgomery -> "MontgomeryKey"
    [] OTHER -> "SigningKey"

\* typed_private_material of an encoding that fits.
TypedPrivateMaterial(a, size, sound) ==
  Material(FormOf(a), a, Retained(a, size), sound)

-----------------------------------------------------------------------------
(* ObjectRecord *)

ExpectedInfoLength(type, object) ==
  LET a == object.algorithm
      length == MaterialLength(object.material) IN
  CASE type \in {"AuthenticationKey", "PublicWrapKey"} -> length + 8
    [] type = "AsymmetricKey" -> AsymmetricObjectLength(a)
    [] type = "WrapKey" -> IF a \in Rsa THEN AsymmetricObjectLength(a) + 8
                           ELSE IF a \in CcmWrap THEN length + 8 ELSE None
    [] type = "HmacKey" -> HmacObjectLength(a)
    [] type = "OtpAeadKey" -> length + 4
    [] OTHER -> length

NormalizeInfoLength(type, object) ==
  [object EXCEPT !.length = ExpectedInfoLength(type, object)]

MaxLength == 65535   \* u16::MAX, the largest length that can be recorded

Valid(type, object) ==
  /\ HoldsPrivateKey(type, object.algorithm) =>
       AsymmetricKeyLength(object.algorithm) = MaterialLength(object.material)
  /\ object.length \in 0..MaxLength
  /\ object.length = ExpectedInfoLength(type, object)

\* RSA keys are stored as two factors of half the modulus each.
Storable(object) ==
  object.material.kind \in Rsa /\ object.material.form = "SigningKey"
    => object.material.sound

ToStored(object) ==
  [object EXCEPT !.material =
     IF @.kind = "bytes" THEN @ ELSE Material("Secret", "bytes", @.size, @.sound)]

FromStoredFits(type, stored) ==
  stored.material.form = "Secret" /\ HoldsPrivateKey(type, stored.algorithm)
    => stored.material.size \in EncodedLengths(stored.algorithm)

FromStored(type, stored) ==
  IF stored.material.form = "Secret" /\ HoldsPrivateKey(type, stored.algorithm)
    THEN [stored EXCEPT !.material =
            TypedPrivateMaterial(stored.algorithm, @.size, @.sound)]
    ELSE stored

-----------------------------------------------------------------------------
(* Writing objects *)

WriteObject(key, object) ==
  /\ Valid(key[1], object)
  /\ key[1] = "PublicWrapKey" =>
       object.algorithm \in Rsa /\ object.material.form = "Public" /\ object.material.sound
  /\ objects' = [k \in DOMAIN objects \cup {key} |->
                   IF k = key THEN object ELSE objects[k]]
  /\ UNCHANGED <<power, serial, file>>

\* Mutant: imported RSA keys are written as parsed.
WriteImportedUnchecked(key, object) == WriteObject(key, object)

\* The full RSA validation only imports go through.
WriteImportedObject(key, object) ==
  /\ object.material.form = "SigningKey" /\ object.material.kind \in Rsa =>
       object.material.sound
  /\ WriteObject(key, object)

\* Which of its ids an object takes makes no difference here.
Slot(type) == <<type, 1>>

FreeSlot(type) ==
  /\ Slot(type) \notin DOMAIN objects
  /\ Cardinality(DOMAIN objects) < MaxObjects

Object(a, origin, length, material) ==
  [algorithm |-> a, origin |-> origin, length |-> length, material |-> material]

Origin(generate) == IF generate THEN 1 ELSE 2

PutOpaque(a, size) ==
  LET key == Slot("Opaque")
      material == Bytes("Opaque", size) IN
  /\ a # "OpaqueData" => size > 0
  /\ \/ /\ key \in DOMAIN objects
        /\ objects[key].algorithm = a
        /\ WriteObject(key, [objects[key] EXCEPT !.length = size, !.material = material])
     \/ /\ FreeSlot("Opaque")
        /\ WriteObject(key, Object(a, 2, size, material))

AuthenticationMaterial(a, size) ==
  Bytes(IF a = "Aes128YubicoAuthentication" THEN "Symmetric" ELSE "Asymmetric", size)

PutAuthenticationKey(a, size) ==
  /\ FreeSlot("AuthenticationKey")
  /\ size = AuthenticationKeyLength(a)
  /\ WriteObject(Slot("AuthenticationKey"), Object(a, 2, size + 8, AuthenticationMaterial(a, size)))

ChangeAuthenticationKey(a, size) ==
  LET key == Slot("AuthenticationKey") IN
  /\ key \in DOMAIN objects
  /\ size = AuthenticationKeyLength(a)
  /\ WriteObject(key, [objects[key] EXCEPT !.algorithm = a, !.length = size + 8,
                                           !.material = AuthenticationMaterial(a, size)])

\* asymmetric_key_material: a generated key knows its seed; an RSA key given
\* as two halves of the modulus' length has factors that fit.
SuppliedFits(a, generate, size) ==
  IF generate THEN size = 0 ELSE size \in EncodedLengths(a)
AsymmetricKeyMaterial(a, generate, size) ==
  Material(FormOf(a), a,
             IF generate THEN AsymmetricKeyLength(a) ELSE Retained(a, size), TRUE)

PutAsymmetricKey(a, generate, size) ==
  LET object == Object(a, Origin(generate), AsymmetricObjectLength(a),
                       AsymmetricKeyMaterial(a, generate, size)) IN
  /\ FreeSlot("AsymmetricKey")
  /\ AsymmetricKeyLength(a) # None
  /\ SuppliedFits(a, generate, size)
  /\ MaterialLength(object.material) = AsymmetricKeyLength(a)
  /\ IF generate THEN WriteObject(Slot("AsymmetricKey"), object) ELSE WriteImportedObject(Slot("AsymmetricKey"), object)

PutHmacKey(a, generate, size) ==
  /\ FreeSlot("HmacKey")
  /\ HmacLength(a) # None
  /\ IF generate THEN size = 0 ELSE size \in 1..128
  /\ WriteObject(Slot("HmacKey"), Object(a, Origin(generate), HmacObjectLength(a),
       Bytes("Secret", IF generate THEN HmacLength(a) ELSE size)))

PutSymmetricKey(a, generate, size) ==
  /\ FreeSlot("SymmetricKey")
  /\ a \in Aes
  /\ size = IF generate THEN 0 ELSE AesKeyLength(a)
  /\ WriteObject(Slot("SymmetricKey"), Object(a, Origin(generate), AesKeyLength(a),
                             Bytes("Secret", AesKeyLength(a))))

PutWrapKey(a, generate, size) ==
  /\ FreeSlot("WrapKey")
  /\ \/ /\ a \in CcmWrap
        /\ size = IF generate THEN 0 ELSE AesKeyLength(a)
        /\ WriteObject(Slot("WrapKey"), Object(a, Origin(generate), AesKeyLength(a) + 8,
                                   Bytes("Secret", AesKeyLength(a))))
     \/ /\ a \in Rsa
        /\ SuppliedFits(a, generate, size)
        /\ LET object == Object(a, Origin(generate), AsymmetricObjectLength(a) + 8,
                                AsymmetricKeyMaterial(a, generate, size)) IN
           IF generate THEN WriteObject(Slot("WrapKey"), object) ELSE WriteImportedObject(Slot("WrapKey"), object)

\* Hosts supply any modulus of the right length; only a proper one is written.
PutPublicWrapKey(a, size, sound) ==
  /\ FreeSlot("PublicWrapKey")
  /\ a \in Rsa
  /\ size = AsymmetricKeyLength(a)
  /\ WriteObject(Slot("PublicWrapKey"), Object(a, 2, size + 8, [Bytes("Public", size) EXCEPT !.sound = sound]))

PutOtpAeadKey(a, generate, size) ==
  /\ FreeSlot("OtpAeadKey")
  /\ a \in YubicoOtp
  /\ size = IF generate THEN 0 ELSE AesKeyLength(a)
  /\ WriteObject(Slot("OtpAeadKey"), Object(a, Origin(generate), AesKeyLength(a) + 4,
                             Bytes("OtpAeadKey", AesKeyLength(a))))

PutTemplate(a, size) ==
  /\ FreeSlot("Template")
  /\ a = "TemplateSsh"
  /\ size > 0
  /\ WriteObject(Slot("Template"), Object(a, 2, size, Bytes("Opaque", size)))

DeleteObject(key) ==
  /\ key \in DOMAIN objects
  /\ objects' = Restrict(objects, DOMAIN objects \ {key})
  /\ UNCHANGED <<power, serial, file>>

-----------------------------------------------------------------------------
(* Wrapped objects *)

ValidWrapped(type, object) ==
  LET a == object.algorithm
      m == object.material IN
  /\ Valid(type, object)
  /\ \/ type = "Opaque" /\ m.form = "Opaque" /\ a \in OpaqueForms
     \/ type = "Template" /\ m.form = "Opaque" /\ a = "TemplateSsh"
     \/ /\ type = "AuthenticationKey"
        /\ m = AuthenticationMaterial(a, AuthenticationKeyLength(a))
     \/ /\ type = "AsymmetricKey"
        /\ m.kind = a /\ m.form = FormOf(a)
     \/ type = "WrapKey" /\ a \in Rsa /\ m.form = "SigningKey"
     \/ type = "WrapKey" /\ a \in CcmWrap /\ m = Bytes("Secret", AesKeyLength(a))
     \/ type = "HmacKey" /\ a \in Hmac /\ m.form = "Secret" /\ m.size \in 1..128
     \/ type = "OtpAeadKey" /\ a \in YubicoOtp /\ m = Bytes("OtpAeadKey", AesKeyLength(a))
     \/ type = "SymmetricKey" /\ a \in Aes /\ m = Bytes("Secret", AesKeyLength(a))
     \/ /\ type = "PublicWrapKey"
        /\ a \in Rsa /\ m.form = "Public" /\ m.size = AsymmetricKeyLength(a)

\* The material variant an object is wrapped as; ML-KEM and hybrid keys have
\* none.
WrappedVariant(type, form) ==
  CASE type \in {"AsymmetricKey", "WrapKey"} /\ form = "SigningKey" -> "pkcs8"
    [] type = "AsymmetricKey" /\ form = "MontgomeryKey" -> "pkcs8"
    [] type \in {"WrapKey", "HmacKey", "SymmetricKey"} /\ form = "Secret" -> "secret"
    [] type \in {"Opaque", "Template"} /\ form = "Opaque" -> "opaque"
    [] type = "PublicWrapKey" /\ form = "Public" -> "public"
    [] type = "AuthenticationKey" /\ form = "Symmetric" -> "symmetric"
    [] type = "AuthenticationKey" /\ form = "Asymmetric" -> "asymmetric"
    [] type = "OtpAeadKey" /\ form = "OtpAeadKey" -> "otp_aead"
    [] OTHER -> "none"

Encodes(type, object) ==
  ValidWrapped(type, object) /\ WrappedVariant(type, object.material.form) # "none"

\* Mutant: the mark of an earlier import travels along.
WholeOrigin(origin) == origin

LowNibble(origin) == origin % 16

EncodeWrappedObject(type, object) ==
  [ type |-> type, algorithm |-> object.algorithm, origin |-> LowNibble(object.origin),
    variant |-> WrappedVariant(type, object.material.form),
    kind |-> object.material.kind, size |-> object.material.size,
    sound |-> object.material.sound, canonical |-> TRUE ]

\* asymmetric_material_from_pkcs8 knows no ML-KEM or hybrid key.
Pkcs8Fits(a, kind, size) ==
  /\ a \in Rsa \cup Weierstrass \cup Edwards \cup Montgomery \cup MlDsa
  /\ kind = a
  /\ size \in EncodedLengths(a)

MaterialDecodes(blob) ==
  \/ /\ blob.variant = "secret"
     /\ blob.type \in {"WrapKey", "HmacKey", "SymmetricKey"}
     /\ ~HoldsPrivateKey(blob.type, blob.algorithm)
  \/ /\ blob.variant = "pkcs8"
     /\ HoldsPrivateKey(blob.type, blob.algorithm)
     /\ Pkcs8Fits(blob.algorithm, blob.kind, blob.size)
  \/ blob.variant = "opaque" /\ blob.type \in {"Opaque", "Template"}
  \/ blob.variant = "public" /\ blob.type = "PublicWrapKey"
  \/ blob.variant \in {"symmetric", "asymmetric"} /\ blob.type = "AuthenticationKey"
  \/ blob.variant = "otp_aead" /\ blob.type = "OtpAeadKey"

WrappedForm(blob) ==
  CASE blob.variant = "secret" -> "Secret"
    [] blob.variant = "opaque" -> "Opaque"
    [] blob.variant = "public" -> "Public"
    [] blob.variant = "symmetric" -> "Symmetric"
    [] blob.variant = "asymmetric" -> "Asymmetric"
    [] blob.variant = "otp_aead" -> "OtpAeadKey"

Decoded(blob) ==
  NormalizeInfoLength(blob.type,
    Object(blob.algorithm, blob.origin, 0,
      IF blob.variant = "pkcs8"
        THEN TypedPrivateMaterial(blob.algorithm, blob.size, blob.sound)
        ELSE Material(WrappedForm(blob), blob.kind, blob.size, blob.sound)))

\* decode_wrapped_object: what was decoded must encode to the very input.
Decodes(blob) ==
  /\ blob.origin < 16
  /\ MaterialDecodes(blob)
  /\ Valid(blob.type, Decoded(blob))
  /\ Encodes(blob.type, Decoded(blob))
  /\ EncodeWrappedObject(blob.type, Decoded(blob)) = blob

Variants == {"secret", "opaque", "public", "symmetric", "asymmetric", "otp_aead"}

\* What a wrapped object may decrypt to: any record, well formed or not.
\* PKCS #8 holds a key of its own kind, in an encoding of its kind.
RawBlobs(type, a) ==
  [ type : {type}, algorithm : {a}, origin : {1, 2, 17}, variant : Variants,
    kind : {"bytes"}, size : Sizes, sound : {TRUE}, canonical : {TRUE} ]
Pkcs8Blobs(type, a, kind) ==
  [ type : {type}, algorithm : {a}, origin : {1, 2, 17}, variant : {"pkcs8"},
    kind : {kind}, size : EncodedLengths(kind), sound : BOOLEAN, canonical : BOOLEAN ]
Blobs(type, a) ==
  RawBlobs(type, a) \cup
    UNION { Pkcs8Blobs(type, a, kind) : kind \in HostAlgorithms \ HybridKem }

Decodable ==
  UNION { {blob \in Blobs(type, a) : Decodes(blob)} :
            type \in ObjectTypes, a \in HostAlgorithms }

\* import_wrapped and import_rsa_wrapped: one codec under two ciphers.
Marked(origin) == IF origin < 16 THEN origin + 16 ELSE origin

ImportWrapped(blob) ==
  /\ FreeSlot(blob.type)
  /\ WriteImportedObject(Slot(blob.type), [Decoded(blob) EXCEPT !.origin = Marked(@)])

\* put_rsa_wrapped_key: PKCS #8 or raw AES bytes, metadata with the request.
PutRsaWrappedKey(a, kind, size, sound) ==
  \/ LET material == TypedPrivateMaterial(a, size, sound) IN
     /\ FreeSlot("AsymmetricKey")
     /\ Pkcs8Fits(a, kind, size)
     /\ MaterialLength(material) = AsymmetricKeyLength(a)
     /\ WriteImportedObject(Slot("AsymmetricKey"),
                            Object(a, 18, AsymmetricObjectLength(a), material))
  \/ /\ FreeSlot("SymmetricKey")
     /\ a \in Aes /\ kind = "bytes" /\ sound
     /\ size = AesKeyLength(a)
     /\ WriteImportedObject(Slot("SymmetricKey"), Object(a, 18, size, Bytes("Secret", size)))

-----------------------------------------------------------------------------
(* The state file *)

CurrentVersion == 3

\* The length an older release recorded (external): the stored bytes, then
\* the physical device's sizes, with Ed25519 still unmeasured and without the
\* bytes that delegated capabilities and nonce ids take.
RecordedLength(version, type, object) ==
  CASE version = CurrentVersion -> object.length
    [] version = 1 -> ToStored(object).material.size
    [] version = 2 /\ HoldsPrivateKey(type, object.algorithm) ->
         IF object.algorithm = "Ed25519" THEN 64
           ELSE AsymmetricObjectLength(object.algorithm)
    [] OTHER -> MaterialLength(object.material)

\* persistent_state, as this release or an older one writes it.
PersistentState(version, entries) ==
  [ version |-> version, serial |-> serial, entries |-> entries,
    objects |-> [key \in DOMAIN objects |->
      [ToStored(objects[key]) EXCEPT
         !.length = RecordedLength(version, key[1], objects[key])]] ]

VersionTwoObjectLength(type, object) ==
  IF type = "AsymmetricKey" /\ object.algorithm = "Ed25519" THEN 64
  ELSE IF HoldsPrivateKey(type, object.algorithm)
    THEN AsymmetricObjectLength(object.algorithm)
    ELSE MaterialLength(object.material)

PreviousLength(version, type, stored) ==
  IF version = 1 THEN stored.material.size
                 ELSE VersionTwoObjectLength(type, FromStored(type, stored))

Restored(version, type, stored) ==
  IF version < CurrentVersion
    THEN NormalizeInfoLength(type, FromStored(type, stored))
    ELSE FromStored(type, stored)

LogFits(entries) == entries <= LogCapacity

\* Mutant: any file of the format will do.
AnySerial(image, config) == TRUE

SameSerial(image, config) == image.serial = config

\* from_persistent_state of a process configured with a serial number.
Loads(image, config) ==
  /\ image.version \in {1, 2, CurrentVersion}
  /\ SameSerial(image, config)
  /\ LogFits(image.entries)
  /\ \A key \in DOMAIN image.objects :
       LET stored == image.objects[key] IN
       /\ FromStoredFits(key[1], stored)
       /\ image.version < CurrentVersion =>
            stored.length = PreviousLength(image.version, key[1], stored)
       /\ Valid(key[1], Restored(image.version, key[1], stored))

FactoryObjects ==
  [key \in {<<"AuthenticationKey", 1>>} |->
     Object("Aes128YubicoAuthentication", 2, 40, Bytes("Symmetric", 32))]

NoFile == [version |-> 0]

Init ==
  /\ power = "on"
  /\ serial \in Serials
  /\ objects = FactoryObjects
  /\ file = NoFile

\* The process ends after a save; a device with an object that cannot be
\* stored never gets this far.
Stop(version, entries) ==
  /\ power = "on"
  /\ \A key \in DOMAIN objects : Storable(objects[key])
  /\ power' = "off"
  /\ file' = PersistentState(version, entries)
  /\ UNCHANGED <<serial, objects>>

\* A refused file leaves everything as it is: no factory reset.
Start(config) ==
  /\ power = "off"
  /\ Loads(file, config)
  /\ power' = "on"
  /\ serial' = config
  /\ objects' = [key \in DOMAIN file.objects |->
                   Restored(file.version, key[1], file.objects[key])]
  /\ file' = NoFile

-----------------------------------------------------------------------------

Put(a, size) ==
  \/ PutOpaque(a, size)
  \/ PutAuthenticationKey(a, size)
  \/ ChangeAuthenticationKey(a, size)
  \/ PutTemplate(a, size)
  \/ \E sound \in BOOLEAN : PutPublicWrapKey(a, size, sound)
  \/ \E generate \in BOOLEAN :
       \/ PutAsymmetricKey(a, generate, size)
       \/ PutHmacKey(a, generate, size)
       \/ PutSymmetricKey(a, generate, size)
       \/ PutWrapKey(a, generate, size)
       \/ PutOtpAeadKey(a, generate, size)
  \/ \E kind \in {a, "bytes"}, sound \in BOOLEAN : PutRsaWrappedKey(a, kind, size, sound)

Next ==
  \/ /\ power = "on"
     /\ \/ \E a \in HostAlgorithms, size \in Sizes : Put(a, size)
        \/ \E blob \in Decodable : ImportWrapped(blob)
        \/ \E key \in DOMAIN objects : DeleteObject(key)
  \/ \E version \in 1..CurrentVersion, entries \in {0, LogCapacity} : Stop(version, entries)
  \/ \E config \in Serials : Start(config)

Spec == Init /\ [][Next]_vars

-----------------------------------------------------------------------------

Materials ==
  [ form : { "SigningKey", "MontgomeryKey", "MlKemKey", "HybridKemKey", "Secret",
             "Opaque", "Public", "OtpAeadKey", "Symmetric", "Asymmetric" },
    kind : Algorithms \cup {"bytes"}, size : Nat, sound : BOOLEAN ]
Records ==
  [algorithm : Algorithms, origin : {1, 2, 17, 18}, length : Nat, material : Materials]

\* Every variable has the type of what it models; a stored object is a record
\* of bytes (object.rs ObjectRecord, StoredObjectRecord); part of OwnFileLoads.
TypeOK ==
  /\ power \in {"on", "off"}
  /\ serial \in Serials
  /\ DOMAIN objects \subseteq {Slot(type) : type \in ObjectTypes}
  /\ \A key \in DOMAIN objects : objects[key] \in Records
  /\ power = "off" =>
       \A key \in DOMAIN file.objects :
         /\ file.objects[key] \in Records
         /\ file.objects[key].material.kind = "bytes"

\* No request leads to an object that the next save cannot encode, since one
\* such object would keep the whole device from being saved; and the file a
\* process leaves is one the same configuration can start from, whichever
\* release wrote it and however full its log: the checks of a start never turn
\* against the device's own state (object.rs to_stored, device.rs
\* write_imported_object, from_persistent_state, version_two_object_length).
OwnFileLoads ==
  /\ TypeOK
  /\ \A key \in DOMAIN objects : Storable(objects[key])
  /\ power = "off" => Loads(file, serial)

\* device.rs: "Corrupt, foreign, or unsupported images are rejected rather
\* than factory-reset."  A start gives back exactly the objects the device
\* had, with today's lengths, to the device they belong to.
ComesBackWhole ==
  [][power = "off" /\ power' = "on" => objects' = objects /\ serial' = serial]_vars

\* An object that can be exported can be imported: the receiver decodes the
\* same object, accepts its origin, and re-encodes it to the same bytes
\* (device.rs encode_wrapped_object, decode_wrapped_object).
ExportsImportBack ==
  \A key \in DOMAIN objects :
    LET object == objects[key]
        blob == EncodeWrappedObject(key[1], object) IN
    Encodes(key[1], object) =>
      /\ Decodes(blob)
      /\ Decoded(blob) = [object EXCEPT !.origin = @ % 16]

\* docs/object-info-lengths.md: 7n / 2 for RSA, 3c for Weierstrass curves, 2b
\* for HMAC, and 8 or 4 bytes on top of the material of keys with delegated
\* capabilities or a nonce id.
DocumentedLength(type, a, material) ==
  CASE type = "AsymmetricKey" /\ a \in Rsa -> (7 * AsymmetricKeyLength(a)) \div 2
    [] type = "WrapKey" /\ a \in Rsa -> (7 * AsymmetricKeyLength(a)) \div 2 + 8
    [] type = "AsymmetricKey" /\ a \in Weierstrass -> 3 * AsymmetricKeyLength(a)
    [] type = "AsymmetricKey" /\ a = "Ed25519" -> 128
    [] type = "AsymmetricKey" /\ a \in MlDsa \cup MlKem \cup HybridKem ->
         AsymmetricKeyLength(a)
    [] type = "HmacKey" -> 2 * (IF a \in {"HmacSha1", "HmacSha256"} THEN 64 ELSE 128)
    [] type = "WrapKey" /\ a \notin Rsa -> material.size + 8
    [] type \in {"AuthenticationKey", "PublicWrapKey"} -> material.size + 8
    [] type = "OtpAeadKey" -> material.size + 4
    [] type \in {"SymmetricKey", "Opaque", "Template"} -> material.size

\* Whichever way an object came to be (put, generated, unwrapped, changed,
\* migrated), its reported length is the documented one, and tells nothing
\* about the encoding a key retains (docs/object-info-lengths.md,
\* docs/virtual-extensions.md "Object metadata records the logical seed length
\* regardless of the stored representation").
LengthsAsDocumented ==
  \A key \in DOMAIN objects :
    objects[key].algorithm \notin Montgomery \cup {"Ed448"} \/ key[1] = "Opaque" =>
      objects[key].length =
        DocumentedLength(key[1], objects[key].algorithm, objects[key].material)

=============================================================================

------------------------- MODULE ObjectFormsProofs -------------------------
(***************************************************************************)
(* Theorems about ObjectForms.tla, for every set of algorithms, sizes and  *)
(* serial numbers and any number of objects.                               *)
(*                                                                         *)
(* The inductive invariant says of each object by itself that its material *)
(* has one of the shapes its type allows and its length is the one that    *)
(* goes with it (Shaped), and of the file that it is what the last process *)
(* saved.  What a save, a start, an export and the documentation ask of an *)
(* object is proved of the shapes, once, as facts about operators.         *)
(***************************************************************************)
EXTENDS ObjectForms, TLAPS

-----------------------------------------------------------------------------
(* The inductive invariant *)

Private ==
  Rsa \cup Weierstrass \cup Edwards \cup Montgomery \cup MlDsa \cup MlKem \cup HybridKem

\* A key pair, as a parsed key retains it.
PrivateShape(a, m) ==
  \E size \in EncodedLengths(a) : \E sound \in BOOLEAN :
    /\ m = TypedPrivateMaterial(a, size, sound)
    /\ a \in Rsa => sound

\* The material an object of a type may have, and the length that goes with it.
Shaped(type, a, length, m) ==
  \/ /\ type = "Opaque" \/ (type = "Template" /\ a = "TemplateSsh")
     /\ \E size \in Nat : m = Bytes("Opaque", size) /\ length = size
  \/ /\ type = "AuthenticationKey" /\ a \in Authentication
     /\ m = AuthenticationMaterial(a, AuthenticationKeyLength(a))
     /\ length = AuthenticationKeyLength(a) + 8
  \/ /\ type = "AsymmetricKey" /\ a \in Private /\ PrivateShape(a, m)
     /\ length = AsymmetricObjectLength(a)
  \/ /\ type = "WrapKey" /\ a \in Rsa /\ PrivateShape(a, m)
     /\ length = AsymmetricObjectLength(a) + 8
  \/ /\ type = "WrapKey" /\ a \in CcmWrap
     /\ m = Bytes("Secret", AesKeyLength(a)) /\ length = AesKeyLength(a) + 8
  \/ /\ type = "HmacKey" /\ a \in Hmac
     /\ \E size \in 1..128 : m = Bytes("Secret", size)
     /\ length = HmacObjectLength(a)
  \/ /\ type = "OtpAeadKey" /\ a \in YubicoOtp
     /\ m = Bytes("OtpAeadKey", AesKeyLength(a)) /\ length = AesKeyLength(a) + 4
  \/ /\ type = "SymmetricKey" /\ a \in Aes
     /\ m = Bytes("Secret", AesKeyLength(a)) /\ length = AesKeyLength(a)
  \/ /\ type = "PublicWrapKey" /\ a \in Rsa
     /\ m = Bytes("Public", AsymmetricKeyLength(a))
     /\ length = AsymmetricKeyLength(a) + 8

AllOrigins == {1, 2, 17, 18}

Sound(type, object) ==
  \E a \in Algorithms, origin \in AllOrigins, length \in Nat, m \in Materials :
    Shaped(type, a, length, m) /\ object = Object(a, origin, length, m)

ObjectsInv ==
  /\ objects = [key \in DOMAIN objects |-> objects[key]]
  /\ DOMAIN objects \subseteq {Slot(type) : type \in ObjectTypes}
  /\ \A key \in DOMAIN objects : Sound(key[1], objects[key])
  /\ \A key \in DOMAIN objects : objects[key].length <= MaxLength

\* While the power is off, the file is what the last process saved.
FileInv ==
  power = "off" =>
    \E version \in 1..CurrentVersion, entries \in {0, LogCapacity} :
      file = PersistentState(version, entries)

Inv ==
  /\ power \in {"on", "off"} /\ serial \in Serials
  /\ ObjectsInv /\ FileInv

-----------------------------------------------------------------------------
(* Records *)

LEMMA MaxLengthNat == MaxLength \in Nat
BY DEF MaxLength

LEMMA MaterialFields ==
  ASSUME NEW form, NEW kind, NEW size, NEW sound, NEW m,
         m = Material(form, kind, size, sound)
  PROVE  /\ m.form = form /\ m.kind = kind /\ m.size = size /\ m.sound = sound
BY DEF Material

LEMMA ObjectFields ==
  ASSUME NEW a, NEW origin, NEW length, NEW m, NEW object,
         object = Object(a, origin, length, m)
  PROVE  /\ object.algorithm = a /\ object.origin = origin
         /\ object.length = length /\ object.material = m
BY DEF Object

LEMMA ObjectChanges ==
  ASSUME NEW a, NEW origin, NEW length, NEW m, NEW object,
         object = Object(a, origin, length, m)
  PROVE  /\ \A v : [object EXCEPT !.length = v] = Object(a, origin, v, m)
         /\ \A v : [object EXCEPT !.origin = v] = Object(a, v, length, m)
         /\ \A v : [object EXCEPT !.material = v] = Object(a, origin, length, v)
BY DEF Object

\* The two changes in place.
Refilled(object, v, w) == [object EXCEPT !.length = v, !.material = w]
Rekeyed(object, u, v, w) == [object EXCEPT !.algorithm = u, !.length = v, !.material = w]

LEMMA ObjectReplaced ==
  ASSUME NEW a, NEW origin, NEW length, NEW m, NEW object,
         object = Object(a, origin, length, m), NEW u, NEW v, NEW w
  PROVE  /\ Refilled(object, v, w) = Object(a, origin, v, w)
         /\ Rekeyed(object, u, v, w) = Object(u, origin, v, w)
<1>1. Refilled(object, v, w) = Object(a, origin, v, w)
  <2>1. PICK x : x = [object EXCEPT !.length = v]
    OBVIOUS
  <2>2. x = Object(a, origin, v, m)
    BY <2>1, ObjectChanges
  <2>3. [x EXCEPT !.material = w] = Object(a, origin, v, w)
    BY <2>2, ObjectChanges
  <2> QED  BY <2>1, <2>3, Zenon DEF Refilled
<1>2. Rekeyed(object, u, v, w) = Object(u, origin, v, w)
  <2>1. PICK x : x = [object EXCEPT !.algorithm = u]
    OBVIOUS
  <2>2. x = Object(u, origin, length, m)
    BY <2>1 DEF Object
  <2>3. PICK y : y = [x EXCEPT !.length = v]
    OBVIOUS
  <2>4. y = Object(u, origin, v, m)
    BY <2>2, <2>3, ObjectChanges
  <2>5. [y EXCEPT !.material = w] = Object(u, origin, v, w)
    BY <2>4, ObjectChanges
  <2> QED  BY <2>1, <2>3, <2>5, Zenon DEF Rekeyed
<1> QED  BY <1>1, <1>2

-----------------------------------------------------------------------------
(* Tables *)

\* The length tables agree on private keys.
LEMMA PrivateTable ==
  ASSUME NEW a \in Private
  PROVE  /\ a \in Algorithms
         /\ AsymmetricKeyLength(a) \in Nat \ {0} /\ AsymmetricKeyLength(a) # None
         /\ AsymmetricObjectLength(a) \in Nat
         /\ AsymmetricKeyLength(a) \in EncodedLengths(a)
         /\ EncodedLengths(a) \subseteq Nat
<1>1. a \in Algorithms
  BY DEF Private, Algorithms
<1>2. AsymmetricKeyLength(a) \in Nat \ {0} /\ AsymmetricKeyLength(a) # None
  <2>1. AsymmetricKeyLength(a) \in 1..512
    BY DEF Private, AsymmetricKeyLength, Rsa, Weierstrass, Edwards, Montgomery, MlDsa,
      MlKem, HybridKem
  <2> QED  BY <2>1 DEF None
<1>3. AsymmetricObjectLength(a) \in Nat
  BY DEF Private, AsymmetricObjectLength, Rsa, Weierstrass, Edwards, Montgomery, MlDsa,
    MlKem, HybridKem, None
<1>4. a \in MlDsa \cup MlKem => ExpandedLength(a) \in Nat
  BY DEF ExpandedLength, MlDsa, MlKem
<1> QED  BY <1>1, <1>2, <1>3, <1>4 DEF EncodedLengths

LEMMA OnlyPrivate ==
  ASSUME NEW a \in Algorithms, AsymmetricKeyLength(a) # None \/ EncodedLengths(a) # {}
  PROVE  a \in Private
<1>1. a \notin Private => AsymmetricKeyLength(a) = None
  BY DEF AsymmetricKeyLength, Private, Rsa, Weierstrass, Edwards, Montgomery, MlDsa,
    MlKem, HybridKem
<1>2. a \notin Private => EncodedLengths(a) = {}
  BY <1>1 DEF EncodedLengths, Private
<1> QED  BY <1>1, <1>2

LEMMA RetainedFacts ==
  ASSUME NEW a \in Private, NEW size \in EncodedLengths(a)
  PROVE  /\ Retained(a, size) \in EncodedLengths(a)
         /\ Retained(a, Retained(a, size)) = Retained(a, size)
         /\ Retained(a, AsymmetricKeyLength(a)) = AsymmetricKeyLength(a)
BY PrivateTable DEF Retained, EncodedLengths

\* A parsed key says of itself what the table of imports says.
LEMMA PrivateLength ==
  ASSUME NEW a \in Private, NEW size \in EncodedLengths(a), NEW sound,
         NEW m, m = TypedPrivateMaterial(a, size, sound)
  PROVE  /\ m.form = FormOf(a) /\ m.kind = a /\ m.size = Retained(a, size)
         /\ m.sound = sound
         /\ MaterialLength(m) = AsymmetricKeyLength(a)
<1>1. /\ m.form = FormOf(a) /\ m.kind = a /\ m.size = Retained(a, size) /\ m.sound = sound
  BY MaterialFields DEF TypedPrivateMaterial
<1>2. CASE a \in MlKem \cup HybridKem \cup Montgomery
  BY <1>1, <1>2 DEF MaterialLength, FormOf, AsymmetricKeyLength, MlKem, HybridKem,
    Montgomery, Retained, MlDsa
<1>3. CASE a \in Rsa \cup Weierstrass \cup Edwards \cup MlDsa
  <2>1. FormOf(a) = "SigningKey"
    BY <1>3 DEF FormOf, Rsa, Weierstrass, Edwards, MlDsa, MlKem, HybridKem, Montgomery
  <2>2. KindLength(a) = AsymmetricKeyLength(a)
    BY <1>3 DEF KindLength, AsymmetricKeyLength, Rsa, Weierstrass, Edwards, MlDsa,
      MlKem, HybridKem
  <2> QED  BY <1>1, <2>1, <2>2 DEF MaterialLength
<1> QED  BY <1>1, <1>2, <1>3 DEF Private

\* The tables of symmetric and authentication keys.
LEMMA SymmetricTables ==
  ASSUME NEW a \in Algorithms
  PROVE  /\ a \in CcmWrap \cup YubicoOtp \cup Aes => AesKeyLength(a) \in 1..32
         /\ a \in Hmac => HmacLength(a) \in 1..128 /\ HmacObjectLength(a) \in Nat
         /\ a \in Authentication => AuthenticationKeyLength(a) \in 1..64
         /\ a \notin Authentication => AuthenticationKeyLength(a) = None
         /\ a \notin Hmac => HmacLength(a) = None
<1>1. a \in CcmWrap \cup YubicoOtp \cup Aes => AesKeyLength(a) \in 1..32
  BY DEF AesKeyLength, CcmWrap, YubicoOtp, Aes
<1>2. a \in Hmac => HmacLength(a) \in 1..128 /\ HmacObjectLength(a) \in Nat
  BY DEF HmacLength, HmacObjectLength, Hmac
<1>3. /\ a \in Authentication => AuthenticationKeyLength(a) \in 1..64
      /\ a \notin Authentication => AuthenticationKeyLength(a) = None
  BY DEF AuthenticationKeyLength, Authentication
<1>4. a \notin Hmac => HmacLength(a) = None
  BY DEF HmacLength, Hmac
<1> QED  BY <1>1, <1>2, <1>3, <1>4

-----------------------------------------------------------------------------
(* What holds of a shape *)

\* An authentication key is the table's length and one of two forms.
LEMMA AuthenticationShape ==
  ASSUME NEW a \in Authentication, NEW m,
         m = AuthenticationMaterial(a, AuthenticationKeyLength(a))
  PROVE  /\ m.form \in {"Symmetric", "Asymmetric"} /\ m.kind = "bytes" /\ m.sound = TRUE
         /\ m.size = AuthenticationKeyLength(a) /\ m.size \in 1..64
         /\ m = Material(m.form, "bytes", m.size, TRUE)
<1>1. AuthenticationKeyLength(a) \in 1..64
  BY SymmetricTables DEF Authentication, Algorithms
<1> QED  BY <1>1 DEF AuthenticationMaterial, Bytes, Material

\* The shapes that are not parsed keys are byte strings.
ByteForms == {"Opaque", "Symmetric", "Asymmetric", "Secret", "OtpAeadKey", "Public"}

ByteForm(type, a, length, form, size) ==
  \/ type \in {"Opaque", "Template"} /\ form = "Opaque" /\ length = size
  \/ type = "AuthenticationKey" /\ form \in {"Symmetric", "Asymmetric"} /\ length = size + 8
  \/ type = "WrapKey" /\ a \in CcmWrap /\ form = "Secret" /\ length = size + 8
  \/ type = "HmacKey" /\ a \in Hmac /\ form = "Secret" /\ length = HmacObjectLength(a)
  \/ type = "OtpAeadKey" /\ form = "OtpAeadKey" /\ length = size + 4
  \/ type = "SymmetricKey" /\ form = "Secret" /\ length = size
  \/ type = "PublicWrapKey" /\ form = "Public" /\ length = size + 8

BytesShape(type, a, length, m) ==
  /\ ~HoldsPrivateKey(type, a)
  /\ \E form \in ByteForms, size \in Nat :
       m = Material(form, "bytes", size, TRUE) /\ ByteForm(type, a, length, form, size)

\* Every shape is a byte string or a parsed private key.
LEMMA TwoShapes ==
  ASSUME NEW type, NEW a \in Algorithms, NEW length, NEW m, Shaped(type, a, length, m)
  PROVE  \/ BytesShape(type, a, length, m)
         \/ /\ HoldsPrivateKey(type, a) /\ a \in Private /\ PrivateShape(a, m)
            /\ length = AsymmetricObjectLength(a) + (IF type = "WrapKey" THEN 8 ELSE 0)
<1>1. CASE type = "Opaque" \/ (type = "Template" /\ a = "TemplateSsh")
  BY <1>1 DEF Shaped, BytesShape, ByteForms, ByteForm, HoldsPrivateKey, Bytes
<1>2. CASE type = "AuthenticationKey"
  <2>1. /\ a \in Authentication /\ m = AuthenticationMaterial(a, AuthenticationKeyLength(a))
        /\ length = AuthenticationKeyLength(a) + 8
    BY <1>2 DEF Shaped
  <2>2. /\ m.form \in {"Symmetric", "Asymmetric"} /\ m.size \in Nat /\ length = m.size + 8
        /\ m = Material(m.form, "bytes", m.size, TRUE)
    <3>1. m.size \in 1..64
      BY <2>1, AuthenticationShape
    <3>2. m.form \in {"Symmetric", "Asymmetric"} /\ length = m.size + 8
      BY <2>1, AuthenticationShape
    <3>3. m = Material(m.form, "bytes", m.size, TRUE)
      BY <2>1, AuthenticationShape
    <3>4. m.size \in Nat
      BY <3>1
    <3> QED  BY <3>2, <3>3, <3>4, Zenon
  <2> QED  BY <1>2, <2>2 DEF BytesShape, ByteForms, ByteForm, HoldsPrivateKey
<1>3. CASE type = "AsymmetricKey"
  <2>1. a \in Private /\ PrivateShape(a, m) /\ length = AsymmetricObjectLength(a)
    BY <1>3 DEF Shaped
  <2>2. AsymmetricObjectLength(a) \in Nat
    BY <2>1, PrivateTable
  <2> QED  BY <1>3, <2>1, <2>2 DEF HoldsPrivateKey
<1>4. CASE type = "WrapKey" /\ a \in Rsa
  <2>1. PrivateShape(a, m) /\ length = AsymmetricObjectLength(a) + 8
    BY <1>4 DEF Shaped, Rsa, CcmWrap
  <2> QED  BY <1>4, <2>1 DEF HoldsPrivateKey, Private
<1>5. CASE type = "WrapKey" /\ a \notin Rsa
  <2>1. /\ a \in CcmWrap /\ m = Bytes("Secret", AesKeyLength(a))
        /\ length = AesKeyLength(a) + 8
    BY <1>5 DEF Shaped
  <2>2. AesKeyLength(a) \in Nat
    BY <2>1, SymmetricTables
  <2> QED  BY <1>5, <2>1, <2>2 DEF BytesShape, ByteForms, ByteForm, HoldsPrivateKey, Bytes
<1>6. CASE type = "HmacKey"
  <2>1. a \in Hmac /\ length = HmacObjectLength(a)
    BY <1>6 DEF Shaped
  <2>2. PICK size \in 1..128 : m = Bytes("Secret", size)
    BY <1>6 DEF Shaped
  <2>3. size \in Nat
    OBVIOUS
  <2> QED  BY <1>6, <2>1, <2>2, <2>3 DEF BytesShape, ByteForms, ByteForm, HoldsPrivateKey, Bytes
<1>7. CASE type = "OtpAeadKey"
  <2>1. /\ a \in YubicoOtp /\ m = Bytes("OtpAeadKey", AesKeyLength(a))
        /\ length = AesKeyLength(a) + 4
    BY <1>7 DEF Shaped
  <2>2. AesKeyLength(a) \in Nat
    BY <2>1, SymmetricTables
  <2> QED  BY <1>7, <2>1, <2>2 DEF BytesShape, ByteForms, ByteForm, HoldsPrivateKey, Bytes
<1>8. CASE type = "SymmetricKey"
  <2>1. /\ a \in Aes /\ m = Bytes("Secret", AesKeyLength(a)) /\ length = AesKeyLength(a)
    BY <1>8 DEF Shaped
  <2>2. AesKeyLength(a) \in Nat
    BY <2>1, SymmetricTables
  <2> QED  BY <1>8, <2>1, <2>2 DEF BytesShape, ByteForms, ByteForm, HoldsPrivateKey, Bytes
<1>9. CASE type = "PublicWrapKey"
  <2>1. /\ a \in Rsa /\ m = Bytes("Public", AsymmetricKeyLength(a))
        /\ length = AsymmetricKeyLength(a) + 8
    BY <1>9 DEF Shaped
  <2>2. AsymmetricKeyLength(a) \in Nat
    BY <2>1, PrivateTable DEF Private
  <2> QED  BY <1>9, <2>1, <2>2 DEF BytesShape, ByteForms, ByteForm, HoldsPrivateKey, Bytes
<1> QED  BY <1>1, <1>2, <1>3, <1>4, <1>5, <1>6, <1>7, <1>8, <1>9 DEF Shaped

\* The length a shape goes with is the one ObjectRecord expects, and the
\* validator accepts the record.
LEMMA ShapesAreValid ==
  ASSUME NEW type, NEW a \in Algorithms, NEW origin, NEW length \in 0..MaxLength, NEW m,
         Shaped(type, a, length, m)
  PROVE  /\ \A l : ExpectedInfoLength(type, Object(a, origin, l, m)) = length
         /\ Valid(type, Object(a, origin, length, m))
         /\ HoldsPrivateKey(type, a) => MaterialLength(m) = AsymmetricKeyLength(a)
         /\ ~HoldsPrivateKey(type, a) => MaterialLength(m) = m.size
<1>1. /\ \A l : ExpectedInfoLength(type, Object(a, origin, l, m)) = length
      /\ HoldsPrivateKey(type, a) => MaterialLength(m) = AsymmetricKeyLength(a)
      /\ ~HoldsPrivateKey(type, a) => MaterialLength(m) = m.size
  <2>1. CASE BytesShape(type, a, length, m)
    <3>1. PICK form \in ByteForms, size \in Nat :
            m = Material(form, "bytes", size, TRUE) /\ ByteForm(type, a, length, form, size)
      BY <2>1, Zenon DEF BytesShape
    <3>2. m.form = form /\ m.size = size
      <4>1. m = Material(form, "bytes", size, TRUE)
        BY <3>1, Zenon
      <4> QED  BY <4>1 DEF Material
    <3>3. MaterialLength(m) = size /\ ~HoldsPrivateKey(type, a)
      BY <2>1, <3>2 DEF MaterialLength, BytesShape, ByteForms
    <3>4. a \in CcmWrap => a \notin Rsa
      BY DEF CcmWrap, Rsa
    <3>5. ASSUME NEW l PROVE ExpectedInfoLength(type, Object(a, origin, l, m)) = length
      <4>1. PICK object : object = Object(a, origin, l, m)
        OBVIOUS
      <4>2. object.algorithm = a /\ object.material = m
        BY <4>1, ObjectFields
      <4>3. ExpectedInfoLength(type, object) = length
        BY <3>1, <3>3, <3>4, <4>2 DEF ExpectedInfoLength, ByteForm
      <4> QED  BY <4>1, <4>3
    <3> QED  BY <3>2, <3>3, <3>5
  <2>2. CASE /\ HoldsPrivateKey(type, a) /\ a \in Private /\ PrivateShape(a, m)
             /\ length = AsymmetricObjectLength(a) + (IF type = "WrapKey" THEN 8 ELSE 0)
    <3>1. MaterialLength(m) = AsymmetricKeyLength(a)
      BY <2>2, PrivateLength DEF PrivateShape
    <3>2. AsymmetricObjectLength(a) \in Nat
      BY <2>2, PrivateTable
    <3>3. ASSUME NEW l PROVE ExpectedInfoLength(type, Object(a, origin, l, m)) = length
      <4>1. PICK object : object = Object(a, origin, l, m)
        OBVIOUS
      <4>2. object.algorithm = a /\ object.material = m
        BY <4>1, ObjectFields
      <4>3. ExpectedInfoLength(type, object) = length
        BY <2>2, <3>2, <4>2 DEF ExpectedInfoLength, HoldsPrivateKey
      <4> QED  BY <4>1, <4>3
    <3> QED  BY <2>2, <3>1, <3>3
  <2> QED  BY <2>1, <2>2, TwoShapes
<1>2. Valid(type, Object(a, origin, length, m))
  <2>1. PICK object : object = Object(a, origin, length, m)
    OBVIOUS
  <2>2. object.algorithm = a /\ object.material = m /\ object.length = length
    BY <2>1, ObjectFields
  <2>3. ExpectedInfoLength(type, object) = length
    BY <1>1, <2>1
  <2>4. Valid(type, object)
    BY <1>1, <2>2, <2>3 DEF Valid
  <2> QED  BY <2>1, <2>4
<1> QED  BY <1>1, <1>2

-----------------------------------------------------------------------------
(* Saving and loading *)

\* What a save makes of the material.
StoredForm(m) ==
  IF m.kind = "bytes" THEN m ELSE Material("Secret", "bytes", m.size, m.sound)

\* A shape can be saved, and a private key comes back from its bytes as it was.
LEMMA StoredShapes ==
  ASSUME NEW type, NEW a \in Algorithms, NEW length, NEW m \in Materials,
         Shaped(type, a, length, m)
  PROVE  /\ m.kind \in Rsa /\ m.form = "SigningKey" => m.sound = TRUE
         /\ StoredForm(m) \in Materials
         /\ StoredForm(m).kind = "bytes" /\ StoredForm(m).size = m.size
         /\ HoldsPrivateKey(type, a) =>
              /\ StoredForm(m).form = "Secret"
              /\ m.size \in EncodedLengths(a)
              /\ TypedPrivateMaterial(a, StoredForm(m).size, StoredForm(m).sound) = m
         /\ ~HoldsPrivateKey(type, a) => StoredForm(m) = m
<1>1. CASE BytesShape(type, a, length, m)
  <2>1. m.kind = "bytes" /\ ~HoldsPrivateKey(type, a)
    <3>1. PICK form, size : m = Material(form, "bytes", size, TRUE)
      BY <1>1, Zenon DEF BytesShape
    <3> QED  BY <1>1, <3>1 DEF BytesShape, Material
  <2>2. StoredForm(m) = m
    BY <2>1 DEF StoredForm
  <2> QED  BY <2>1, <2>2 DEF Rsa
<1>2. CASE HoldsPrivateKey(type, a) /\ a \in Private /\ PrivateShape(a, m)
  <2>1. PICK size \in EncodedLengths(a), sound \in BOOLEAN :
          m = TypedPrivateMaterial(a, size, sound) /\ (a \in Rsa => sound)
    BY <1>2 DEF PrivateShape
  <2>2. m.kind = a /\ m.size = Retained(a, size) /\ m.sound = sound
    BY <1>2, <2>1, PrivateLength
  <2>3. a # "bytes"
    BY DEF Algorithms, Rsa, Weierstrass, Edwards, Montgomery, MlDsa, MlKem, HybridKem,
      CcmWrap, YubicoOtp, Aes, Hmac, Authentication, OpaqueForms
  <2>4. StoredForm(m) = Material("Secret", "bytes", m.size, m.sound)
    BY <2>2, <2>3 DEF StoredForm
  <2>5. /\ StoredForm(m).form = "Secret" /\ StoredForm(m).kind = "bytes"
        /\ StoredForm(m).size = m.size /\ StoredForm(m).sound = m.sound
    BY <2>4 DEF Material
  <2>6. Retained(a, m.size) = m.size /\ m.size \in EncodedLengths(a)
    BY <1>2, <2>2, RetainedFacts
  <2>7. TypedPrivateMaterial(a, m.size, m.sound) = m
    BY <2>1, <2>2, <2>6 DEF TypedPrivateMaterial
  <2>8. StoredForm(m) \in Materials
    BY <2>4 DEF Material, Materials
  <2>9. a \in Rsa => m.sound = TRUE
    BY <2>1, <2>2
  <2> QED  BY <1>2, <2>2, <2>5, <2>6, <2>7, <2>8, <2>9
<1> QED  BY <1>1, <1>2, TwoShapes

Saved(version, type, object) ==
  [ToStored(object) EXCEPT !.length = RecordedLength(version, type, object)]

\* Loading what was saved of an object gives the object, whichever release
\* saved it, and passes every check of the load.
LEMMA SavedLoads ==
  ASSUME NEW type, NEW a \in Algorithms, NEW origin \in AllOrigins,
         NEW length \in 0..MaxLength, NEW m \in Materials, Shaped(type, a, length, m),
         NEW object, object = Object(a, origin, length, m),
         NEW version \in 1..CurrentVersion, NEW stored,
         stored = Saved(version, type, object)
  PROVE  /\ Storable(object)
         /\ stored \in Records /\ stored.material.kind = "bytes"
         /\ FromStoredFits(type, stored)
         /\ version < CurrentVersion => stored.length = PreviousLength(version, type, stored)
         /\ Restored(version, type, stored) = object
         /\ Valid(type, object)
<1> DEFINE sm == StoredForm(m)
           recorded == RecordedLength(version, type, object)
<1>1. object.algorithm = a /\ object.length = length /\ object.material = m
  BY ObjectFields
<1>2. ToStored(object) = Object(a, origin, length, sm)
  BY <1>1, ObjectChanges DEF ToStored, StoredForm
<1>3. stored = Object(a, origin, recorded, sm)
  BY <1>2, ObjectChanges DEF Saved
<1>4. /\ m.kind \in Rsa /\ m.form = "SigningKey" => m.sound = TRUE
      /\ sm \in Materials /\ sm.kind = "bytes" /\ sm.size = m.size
      /\ HoldsPrivateKey(type, a) => /\ sm.form = "Secret"
                                     /\ m.size \in EncodedLengths(a)
                                     /\ TypedPrivateMaterial(a, sm.size, sm.sound) = m
      /\ ~HoldsPrivateKey(type, a) => sm = m
  BY StoredShapes
<1>5. /\ \A l : ExpectedInfoLength(type, Object(a, origin, l, m)) = length
      /\ Valid(type, object)
      /\ HoldsPrivateKey(type, a) => MaterialLength(m) = AsymmetricKeyLength(a)
      /\ ~HoldsPrivateKey(type, a) => MaterialLength(m) = m.size
  BY ShapesAreValid
<1> HIDE DEF sm, recorded
<1>6. stored.algorithm = a /\ stored.length = recorded /\ stored.material = sm
  BY <1>3, ObjectFields
<1>7. FromStoredFits(type, stored)
  BY <1>4, <1>6 DEF FromStoredFits
<1>8. FromStored(type, stored) = Object(a, origin, recorded, m)
  <2>1. CASE HoldsPrivateKey(type, a)
    <3>1. FromStored(type, stored) = [stored EXCEPT !.material = m]
      BY <1>4, <1>6, <2>1 DEF FromStored
    <3> QED  BY <1>3, <3>1, ObjectChanges
  <2>2. CASE ~HoldsPrivateKey(type, a)
    BY <1>3, <1>4, <1>6, <2>2 DEF FromStored
  <2> QED  BY <2>1, <2>2
<1>9. m.size \in Nat
  BY DEF Materials
<1>10. HoldsPrivateKey(type, a) => a \in Private /\ AsymmetricObjectLength(a) \in Nat
  <2>1. HoldsPrivateKey(type, a) => a \in Private
    BY <1>4, OnlyPrivate
  <2> QED  BY <2>1, PrivateTable
<1>11. recorded \in Nat
  <2>1. CASE version = 1
    <3>1. ToStored(object).material = sm
      BY <1>2, ObjectFields
    <3> QED  BY <1>4, <1>9, <2>1, <3>1 DEF recorded, RecordedLength, CurrentVersion
  <2>2. CASE version = 2 /\ HoldsPrivateKey(type, a)
    BY <1>1, <1>10, <2>2 DEF recorded, RecordedLength, CurrentVersion
  <2>3. CASE version = 2 /\ ~HoldsPrivateKey(type, a)
    BY <1>1, <1>5, <1>9, <2>3 DEF recorded, RecordedLength, CurrentVersion
  <2>4. CASE version = 3
    BY <1>1, <2>4 DEF recorded, RecordedLength, CurrentVersion
  <2> QED  BY <2>1, <2>2, <2>3, <2>4 DEF CurrentVersion
<1>12. version < CurrentVersion => recorded = PreviousLength(version, type, stored)
  <2>1. CASE version = 1
    <3>1. ToStored(object).material = sm
      BY <1>2, ObjectFields
    <3> QED  BY <1>6, <2>1, <3>1 DEF recorded, RecordedLength, CurrentVersion, PreviousLength
  <2>2. CASE version = 2
    <3>1. /\ FromStored(type, stored).algorithm = a
          /\ FromStored(type, stored).material = m
      BY <1>8, ObjectFields
    <3>2. PreviousLength(version, type, stored)
            = VersionTwoObjectLength(type, FromStored(type, stored))
      BY <2>2 DEF PreviousLength
    <3>3. type = "WrapKey" /\ HoldsPrivateKey(type, a) => a # "Ed25519"
      BY DEF HoldsPrivateKey, Rsa
    <3>4. type = "AsymmetricKey" => HoldsPrivateKey(type, a)
      BY DEF HoldsPrivateKey
    <3>5. HoldsPrivateKey(type, a) => type \in {"AsymmetricKey", "WrapKey"}
      BY DEF HoldsPrivateKey
    <3>6. CASE HoldsPrivateKey(type, a)
      <4>1. recorded = IF a = "Ed25519" THEN 64 ELSE AsymmetricObjectLength(a)
        BY <1>1, <2>2, <3>6 DEF recorded, RecordedLength, CurrentVersion
      <4>2. VersionTwoObjectLength(type, FromStored(type, stored))
              = IF a = "Ed25519" THEN 64 ELSE AsymmetricObjectLength(a)
        <5>1. PICK back : back = FromStored(type, stored)
          OBVIOUS
        <5>2. back.algorithm = a
          BY <3>1, <5>1
        <5>3. CASE a = "Ed25519"
          <6>1. type = "AsymmetricKey"
            BY <3>3, <3>5, <3>6, <5>3
          <6> QED  BY <5>1, <5>2, <5>3, <6>1 DEF VersionTwoObjectLength
        <5>4. CASE a # "Ed25519"
          BY <3>6, <5>1, <5>2, <5>4 DEF VersionTwoObjectLength
        <5> QED  BY <5>3, <5>4
      <4> QED  BY <3>2, <4>1, <4>2
    <3>7. CASE ~HoldsPrivateKey(type, a)
      <4>1. recorded = MaterialLength(m)
        BY <1>1, <2>2, <3>7 DEF recorded, RecordedLength, CurrentVersion
      <4>2. VersionTwoObjectLength(type, FromStored(type, stored)) = MaterialLength(m)
        BY <3>1, <3>4, <3>7 DEF VersionTwoObjectLength
      <4> QED  BY <3>2, <4>1, <4>2
    <3> QED  BY <3>6, <3>7
  <2> QED  BY <2>1, <2>2 DEF CurrentVersion
<1>13. Restored(version, type, stored) = object
  <2>1. CASE version < CurrentVersion
    <3>1. Restored(version, type, stored)
            = NormalizeInfoLength(type, FromStored(type, stored))
      BY <2>1 DEF Restored
    <3>2. NormalizeInfoLength(type, Object(a, origin, recorded, m))
            = Object(a, origin, length, m)
      BY <1>5, ObjectChanges DEF NormalizeInfoLength
    <3> QED  BY <1>8, <3>1, <3>2
  <2>2. CASE version = CurrentVersion
    <3>1. recorded = length
      BY <1>1, <2>2 DEF recorded, RecordedLength, CurrentVersion
    <3>2. Restored(version, type, stored) = FromStored(type, stored)
      BY <2>2 DEF Restored, CurrentVersion
    <3> QED  BY <1>8, <3>1, <3>2
  <2> QED  BY <2>1, <2>2 DEF CurrentVersion
<1>14. Storable(object)
  BY <1>1, <1>4 DEF Storable
<1>15. stored \in Records
  BY <1>3, <1>4, <1>11 DEF Records, Object, AllOrigins
<1> QED  BY <1>4, <1>5, <1>6, <1>7, <1>12, <1>13, <1>14, <1>15

-----------------------------------------------------------------------------
(* Lengths and exports *)

\* The length of a shape is the documented one.
LEMMA DocumentedShapes ==
  ASSUME NEW type, NEW a \in Algorithms, NEW length \in Nat, NEW m,
         Shaped(type, a, length, m),
         a \notin Montgomery \cup {"Ed448"} \/ type = "Opaque"
  PROVE  length = DocumentedLength(type, a, m)
<1>1. CASE BytesShape(type, a, length, m)
  <2>1. PICK form \in ByteForms, size \in Nat :
          m = Material(form, "bytes", size, TRUE) /\ ByteForm(type, a, length, form, size)
    BY <1>1, Zenon DEF BytesShape
  <2>2. m.size = size
    <3>1. m = Material(form, "bytes", size, TRUE)
      BY <2>1, Zenon
    <3> QED  BY <3>1 DEF Material
  <2>3. a \in Hmac => HmacObjectLength(a) = 2 * (IF a \in {"HmacSha1", "HmacSha256"} THEN 64 ELSE 128)
    BY DEF Hmac, HmacObjectLength
  <2>4. type = "WrapKey" => a \notin Rsa
    BY <1>1 DEF BytesShape, HoldsPrivateKey
  <2> QED  BY <2>1, <2>2, <2>3, <2>4 DEF DocumentedLength, ByteForm
<1>2. CASE /\ HoldsPrivateKey(type, a) /\ a \in Private
           /\ length = AsymmetricObjectLength(a) + (IF type = "WrapKey" THEN 8 ELSE 0)
  <2>1. /\ a \in Rsa => AsymmetricObjectLength(a) = (7 * AsymmetricKeyLength(a)) \div 2
        /\ a \in Weierstrass => AsymmetricObjectLength(a) = 3 * AsymmetricKeyLength(a)
        /\ a = "Ed25519" => AsymmetricObjectLength(a) = 128
        /\ a \in MlDsa \cup MlKem \cup HybridKem =>
             AsymmetricObjectLength(a) = AsymmetricKeyLength(a)
    BY DEF AsymmetricObjectLength, AsymmetricKeyLength, Rsa, Weierstrass, MlDsa, MlKem, HybridKem
  <2>2. AsymmetricObjectLength(a) \in Nat
    BY <1>2, PrivateTable
  <2>3. CASE type = "WrapKey"
    <3>1. a \in Rsa
      BY <1>2, <2>3 DEF HoldsPrivateKey
    <3>2. length = (7 * AsymmetricKeyLength(a)) \div 2 + 8
      BY <1>2, <2>1, <2>3, <3>1
    <3>3. DocumentedLength(type, a, m) = (7 * AsymmetricKeyLength(a)) \div 2 + 8
      BY <2>3, <3>1 DEF DocumentedLength
    <3> QED  BY <3>2, <3>3
  <2>4. CASE type = "AsymmetricKey"
    <3>1. length = AsymmetricObjectLength(a)
      BY <1>2, <2>2, <2>4
    <3>2. CASE a \in Rsa
      <4>1. a \notin Weierstrass /\ a # "Ed25519" /\ a \notin MlDsa \cup MlKem \cup HybridKem
        BY <3>2 DEF Rsa, Weierstrass, MlDsa, MlKem, HybridKem
      <4> QED  BY <2>1, <2>4, <3>1, <3>2, <4>1 DEF DocumentedLength
    <3>3. CASE a \in Weierstrass
      <4>1. a \notin Rsa /\ a # "Ed25519" /\ a \notin MlDsa \cup MlKem \cup HybridKem
        BY <3>3 DEF Rsa, Weierstrass, MlDsa, MlKem, HybridKem
      <4> QED  BY <2>1, <2>4, <3>1, <3>3, <4>1 DEF DocumentedLength
    <3>4. CASE a = "Ed25519"
      <4>1. a \notin Weierstrass /\ a \notin Rsa /\ a \notin MlDsa \cup MlKem \cup HybridKem
        BY <3>4 DEF Rsa, Weierstrass, MlDsa, MlKem, HybridKem
      <4> QED  BY <2>1, <2>4, <3>1, <3>4, <4>1 DEF DocumentedLength
    <3>5. CASE a \in MlDsa \cup MlKem \cup HybridKem
      <4>1. a \notin Weierstrass /\ a # "Ed25519" /\ a \notin Rsa
        BY <3>5 DEF Rsa, Weierstrass, MlDsa, MlKem, HybridKem
      <4> QED  BY <2>1, <2>4, <3>1, <3>5, <4>1 DEF DocumentedLength
    <3> QED  BY <1>2, <2>4, <3>2, <3>3, <3>4, <3>5 DEF Private, Edwards
  <2> QED  BY <1>2, <2>3, <2>4 DEF HoldsPrivateKey
<1> QED  BY <1>1, <1>2, TwoShapes

\* What decoding makes of the wrapped form of a shape: its very material.
LEMMA WrappedShapes ==
  ASSUME NEW type, NEW a \in Algorithms, NEW length, NEW m \in Materials,
         Shaped(type, a, length, m), NEW blob,
         blob.type = type, blob.algorithm = a,
         blob.variant = WrappedVariant(type, m.form), blob.variant # "none",
         blob.kind = m.kind, blob.size = m.size, blob.sound = m.sound
  PROVE  /\ MaterialDecodes(blob)
         /\ blob.variant = "pkcs8" => TypedPrivateMaterial(a, blob.size, blob.sound) = m
         /\ blob.variant # "pkcs8" =>
              Material(WrappedForm(blob), blob.kind, blob.size, blob.sound) = m
<1>1. CASE BytesShape(type, a, length, m)
  <2>1. PICK form \in ByteForms, size \in Nat :
          m = Material(form, "bytes", size, TRUE) /\ ByteForm(type, a, length, form, size)
    BY <1>1, Zenon DEF BytesShape
  <2>2. m.form = form
    <3>1. m = Material(form, "bytes", size, TRUE)
      BY <2>1, Zenon
    <3> QED  BY <3>1 DEF Material
  <2>3. ~HoldsPrivateKey(type, a)
    BY <1>1 DEF BytesShape
  <2>4. WrappedVariant(type, form) = blob.variant
    BY <2>2
  <2>5. /\ MaterialDecodes(blob) /\ blob.variant # "pkcs8" /\ WrappedForm(blob) = form
    <3>1. CASE type \in {"Opaque", "Template"}
      <4>1. form = "Opaque"
        BY <2>1, <3>1 DEF ByteForm
      <4>2. blob.variant = "opaque"
        BY <2>4, <3>1, <4>1 DEF WrappedVariant
      <4> QED  BY <3>1, <4>1, <4>2 DEF MaterialDecodes, WrappedForm
    <3>2. CASE type = "AuthenticationKey"
      <4>1. form \in {"Symmetric", "Asymmetric"}
        BY <2>1, <3>2 DEF ByteForm
      <4>2. blob.variant = IF form = "Symmetric" THEN "symmetric" ELSE "asymmetric"
        BY <2>4, <3>2, <4>1 DEF WrappedVariant
      <4> QED  BY <3>2, <4>1, <4>2 DEF MaterialDecodes, WrappedForm
    <3>3. CASE type \in {"WrapKey", "HmacKey", "SymmetricKey"}
      <4>1. form = "Secret"
        BY <2>1, <3>3 DEF ByteForm
      <4>2. blob.variant = "secret"
        BY <2>4, <3>3, <4>1 DEF WrappedVariant
      <4> QED  BY <2>3, <3>3, <4>1, <4>2 DEF MaterialDecodes, WrappedForm
    <3>4. CASE type = "OtpAeadKey"
      <4>1. form = "OtpAeadKey"
        BY <2>1, <3>4 DEF ByteForm
      <4>2. blob.variant = "otp_aead"
        BY <2>4, <3>4, <4>1 DEF WrappedVariant
      <4> QED  BY <3>4, <4>1, <4>2 DEF MaterialDecodes, WrappedForm
    <3>5. CASE type = "PublicWrapKey"
      <4>1. form = "Public"
        BY <2>1, <3>5 DEF ByteForm
      <4>2. blob.variant = "public"
        BY <2>4, <3>5, <4>1 DEF WrappedVariant
      <4> QED  BY <3>5, <4>1, <4>2 DEF MaterialDecodes, WrappedForm
    <3> QED  BY <2>1, <3>1, <3>2, <3>3, <3>4, <3>5 DEF ByteForm
  <2>6. Material(form, m.kind, m.size, m.sound) = m
    <3>1. m.form = form /\ m \in Materials
      BY <2>2
    <3> QED  BY <3>1 DEF Material, Materials
  <2> QED  BY <2>5, <2>6
<1>2. CASE HoldsPrivateKey(type, a) /\ a \in Private /\ PrivateShape(a, m)
  <2>1. PICK size \in EncodedLengths(a), sound \in BOOLEAN :
          m = TypedPrivateMaterial(a, size, sound)
    BY <1>2 DEF PrivateShape
  <2>2. m.form = FormOf(a) /\ m.kind = a /\ m.size = Retained(a, size) /\ m.sound = sound
    BY <1>2, <2>1, PrivateLength
  <2>3. Retained(a, m.size) = m.size /\ m.size \in EncodedLengths(a)
    BY <1>2, <2>2, RetainedFacts
  <2>4. TypedPrivateMaterial(a, m.size, m.sound) = m
    BY <2>1, <2>2, <2>3 DEF TypedPrivateMaterial
  <2>5. type \in {"AsymmetricKey", "WrapKey"}
    BY <1>2 DEF HoldsPrivateKey
  <2>6. m.form \in {"SigningKey", "MontgomeryKey", "MlKemKey", "HybridKemKey"}
    BY <2>2 DEF FormOf
  <2>7. blob.variant = "pkcs8"
    BY <2>5, <2>6 DEF WrappedVariant
  <2>8. a \notin MlKem \cup HybridKem
    <3>1. m.form \notin {"MlKemKey", "HybridKemKey"}
      BY <2>5 DEF WrappedVariant
    <3>2. /\ a \in MlKem => FormOf(a) = "MlKemKey"
          /\ a \in HybridKem => FormOf(a) = "HybridKemKey"
      BY DEF FormOf, MlKem, HybridKem, Montgomery
    <3> QED  BY <2>2, <3>1, <3>2
  <2>9. MaterialDecodes(blob)
    BY <1>2, <2>2, <2>3, <2>7, <2>8 DEF MaterialDecodes, Pkcs8Fits, Private
  <2> QED  BY <2>4, <2>7, <2>9
<1> QED  BY <1>1, <1>2, TwoShapes

Unmarked(object) == [object EXCEPT !.origin = @ % 16]

\* An export decodes to the object it was made of, less the import mark.
LEMMA ExportedShapes ==
  ASSUME NEW type, NEW a \in Algorithms, NEW origin \in AllOrigins,
         NEW length \in 0..MaxLength, NEW m \in Materials, Shaped(type, a, length, m),
         NEW object, object = Object(a, origin, length, m), Encodes(type, object),
         NEW blob, blob = EncodeWrappedObject(type, object)
  PROVE  Decodes(blob) /\ Decoded(blob) = Unmarked(object)
<1>1. /\ object.algorithm = a /\ object.origin = origin /\ object.length = length
      /\ object.material = m
  BY ObjectFields
<1>2. PICK low : low = origin % 16
  OBVIOUS
<1>3. low \in {1, 2} /\ low % 16 = low /\ low < 16
  BY <1>2 DEF AllOrigins
<1>4. /\ blob.type = type /\ blob.algorithm = a /\ blob.origin = low
      /\ blob.variant = WrappedVariant(type, m.form)
      /\ blob.kind = m.kind /\ blob.size = m.size /\ blob.sound = m.sound
  BY <1>1, <1>2 DEF EncodeWrappedObject, LowNibble
<1>5. blob.variant # "none"
  BY <1>1, <1>4 DEF Encodes
<1>6. /\ MaterialDecodes(blob)
      /\ blob.variant = "pkcs8" => TypedPrivateMaterial(a, blob.size, blob.sound) = m
      /\ blob.variant # "pkcs8" =>
           Material(WrappedForm(blob), blob.kind, blob.size, blob.sound) = m
  BY <1>4, <1>5, WrappedShapes
<1>7. PICK plain : plain = Object(a, low, length, m)
  OBVIOUS
<1>8. Decoded(blob) = plain
  <2>1. Decoded(blob) = NormalizeInfoLength(type, Object(a, low, 0, m))
    BY <1>4, <1>6 DEF Decoded
  <2>2. ExpectedInfoLength(type, Object(a, low, 0, m)) = length
    BY ShapesAreValid
  <2> QED  BY <1>7, <2>1, <2>2, ObjectChanges DEF NormalizeInfoLength
<1>9. /\ plain.algorithm = a /\ plain.origin = low /\ plain.length = length
      /\ plain.material = m
  BY <1>7, ObjectFields
<1>10. Valid(type, plain)
  BY <1>7, ShapesAreValid
<1>11. Encodes(type, plain)
  BY <1>1, <1>9, <1>10 DEF Encodes, ValidWrapped
<1>12. EncodeWrappedObject(type, plain) = blob
  BY <1>1, <1>2, <1>3, <1>9 DEF EncodeWrappedObject, LowNibble
<1>13. Decodes(blob)
  BY <1>3, <1>4, <1>6, <1>8, <1>10, <1>11, <1>12 DEF Decodes
<1>14. plain = Unmarked(object)
  BY <1>1, <1>2, <1>7, ObjectChanges DEF Unmarked
<1> QED  BY <1>8, <1>13, <1>14

-----------------------------------------------------------------------------
(* Every handler writes a shape *)

LEMMA ShapedTypes ==
  ASSUME NEW type, NEW a \in Algorithms, NEW length, NEW m, Shaped(type, a, length, m)
  PROVE  length \in Nat /\ m \in Materials
<1>1. CASE BytesShape(type, a, length, m)
  <2>1. PICK form \in ByteForms, size \in Nat :
          m = Material(form, "bytes", size, TRUE) /\ ByteForm(type, a, length, form, size)
    BY <1>1, Zenon DEF BytesShape
  <2>2. length \in Nat
    BY <2>1, SymmetricTables DEF ByteForm
  <2>3. m \in Materials
    <3>1. m = Material(form, "bytes", size, TRUE)
      BY <2>1, Zenon
    <3> QED  BY <3>1 DEF Material, Materials, ByteForms
  <2> QED  BY <2>2, <2>3
<1>2. CASE /\ a \in Private /\ PrivateShape(a, m)
           /\ length = AsymmetricObjectLength(a) + (IF type = "WrapKey" THEN 8 ELSE 0)
  <2>1. PICK size \in EncodedLengths(a), sound \in BOOLEAN :
          m = TypedPrivateMaterial(a, size, sound)
    BY <1>2 DEF PrivateShape
  <2>2. Retained(a, size) \in Nat
    BY <1>2, RetainedFacts, PrivateTable
  <2>3. FormOf(a) \in {"SigningKey", "MontgomeryKey", "MlKemKey", "HybridKemKey"}
    BY DEF FormOf
  <2>4. m \in Materials
    BY <2>1, <2>2, <2>3 DEF TypedPrivateMaterial, Material, Materials
  <2>5. length \in Nat
    BY <1>2, PrivateTable
  <2> QED  BY <2>4, <2>5
<1> QED  BY <1>1, <1>2, TwoShapes

LEMMA ShapedIsSound ==
  ASSUME NEW type, NEW a \in Algorithms, NEW origin \in AllOrigins, NEW length, NEW m,
         Shaped(type, a, length, m), NEW object, object = Object(a, origin, length, m)
  PROVE  Sound(type, object)
BY ShapedTypes DEF Sound

LEMMA SoundFields ==
  ASSUME NEW type, NEW object, Sound(type, object)
  PROVE  /\ object.algorithm \in Algorithms /\ object.origin \in AllOrigins
         /\ object.length \in Nat /\ object.material \in Materials
         /\ Shaped(type, object.algorithm, object.length, object.material)
         /\ object = Object(object.algorithm, object.origin, object.length, object.material)
<1>1. PICK a \in Algorithms, origin \in AllOrigins, length \in Nat, m \in Materials :
        Shaped(type, a, length, m) /\ object = Object(a, origin, length, m)
  BY DEF Sound
<1>2. /\ object.algorithm = a /\ object.origin = origin /\ object.length = length
      /\ object.material = m
  BY <1>1, ObjectFields
<1> QED  BY <1>1, <1>2, Zenon

\* Writing a sound object keeps every object sound.
LEMMA SoundWrites ==
  ASSUME ObjectsInv, NEW type \in ObjectTypes, NEW object, Sound(type, object),
         WriteObject(Slot(type), object)
  PROVE  ObjectsInv' /\ UNCHANGED <<power, serial, file>>
<1>1. PICK key : key = Slot(type)
  OBVIOUS
<1>2. key[1] = type
  BY <1>1 DEF Slot
<1>3. /\ objects' = [k \in DOMAIN objects \cup {key} |->
                       IF k = key THEN object ELSE objects[k]]
      /\ UNCHANGED <<power, serial, file>>
  BY <1>1 DEF WriteObject
<1>4. DOMAIN objects' \subseteq {Slot(t) : t \in ObjectTypes}
  BY <1>1, <1>3 DEF ObjectsInv
<1>5. ASSUME NEW k \in DOMAIN objects' PROVE Sound(k[1], objects'[k])
  <2>1. CASE k = key
    <3>1. objects'[k] = object
      BY <1>3, <2>1
    <3> QED  BY <1>2, <2>1, <3>1
  <2>2. CASE k # key
    <3>1. k \in DOMAIN objects /\ objects'[k] = objects[k]
      BY <1>3, <2>2
    <3> QED  BY <3>1 DEF ObjectsInv
  <2> QED  BY <2>1, <2>2
<1>6. \A k \in DOMAIN objects' : Sound(k[1], objects'[k])
  BY <1>5
<1>7. objects' = [k \in DOMAIN objects' |-> objects'[k]]
  BY <1>3
<1>8. object.length <= MaxLength
  <2>1. Valid(key[1], object)
    BY <1>1 DEF WriteObject
  <2>2. object.length \in 0..MaxLength
    BY <2>1 DEF Valid
  <2> QED  BY <2>2, MaxLengthNat
<1>9. \A k \in DOMAIN objects' : objects'[k].length <= MaxLength
  BY <1>3, <1>8 DEF ObjectsInv
<1>10. ObjectsInv'
  BY <1>4, <1>6, <1>7, <1>9 DEF ObjectsInv, Sound
<1> QED  BY <1>3, <1>10

\* Keys generated or supplied are retained as parsed keys are.
LEMMA SuppliedShape ==
  ASSUME NEW a \in Private, NEW generate \in BOOLEAN, NEW size,
         SuppliedFits(a, generate, size)
  PROVE  PrivateShape(a, AsymmetricKeyMaterial(a, generate, size))
<1>1. PICK ok \in BOOLEAN : ok = TRUE
  OBVIOUS
<1>2. CASE generate = TRUE
  <2>1. AsymmetricKeyMaterial(a, generate, size)
          = TypedPrivateMaterial(a, AsymmetricKeyLength(a), ok)
    BY <1>1, <1>2, RetainedFacts, PrivateTable DEF AsymmetricKeyMaterial, TypedPrivateMaterial
  <2>2. AsymmetricKeyLength(a) \in EncodedLengths(a)
    BY PrivateTable
  <2> QED  BY <1>1, <2>1, <2>2, Zenon DEF PrivateShape
<1>3. CASE generate = FALSE
  <2>1. AsymmetricKeyMaterial(a, generate, size) = TypedPrivateMaterial(a, size, ok)
    BY <1>1, <1>3 DEF AsymmetricKeyMaterial, TypedPrivateMaterial
  <2>2. size \in EncodedLengths(a)
    BY <1>3 DEF SuppliedFits
  <2> QED  BY <1>1, <2>1, <2>2, Zenon DEF PrivateShape
<1> QED  BY <1>2, <1>3

LEMMA OriginOf ==
  ASSUME NEW generate \in BOOLEAN
  PROVE  Origin(generate) \in AllOrigins
BY DEF Origin, AllOrigins

\* Objects of one byte string.
LEMMA BytePuts ==
  ASSUME ObjectsInv, NEW a \in Algorithms, NEW size \in Nat
  PROVE  /\ PutOpaque(a, size) => ObjectsInv' /\ UNCHANGED <<power, serial, file>>
         /\ PutAuthenticationKey(a, size) =>
              ObjectsInv' /\ UNCHANGED <<power, serial, file>>
         /\ ChangeAuthenticationKey(a, size) =>
              ObjectsInv' /\ UNCHANGED <<power, serial, file>>
         /\ PutTemplate(a, size) => ObjectsInv' /\ UNCHANGED <<power, serial, file>>
         /\ \A sound \in BOOLEAN : PutPublicWrapKey(a, size, sound) =>
              ObjectsInv' /\ UNCHANGED <<power, serial, file>>
<1>0. 2 \in AllOrigins
  BY DEF AllOrigins
<1>1. ASSUME PutOpaque(a, size)
      PROVE  ObjectsInv' /\ UNCHANGED <<power, serial, file>>
  <2>1. PICK m : m = Bytes("Opaque", size)
    OBVIOUS
  <2>2. \A b \in Algorithms : Shaped("Opaque", b, size, m)
    BY <2>1 DEF Shaped
  <2>3. CASE /\ Slot("Opaque") \in DOMAIN objects
             /\ WriteObject(Slot("Opaque"),
                  [objects[Slot("Opaque")] EXCEPT !.length = size, !.material = m])
    <3>1. PICK old : old = objects[Slot("Opaque")]
      OBVIOUS
    <3>2. Sound("Opaque", old)
      BY <2>3, <3>1 DEF ObjectsInv, Slot
    <3>3. PICK new : new = [old EXCEPT !.length = size, !.material = m]
      OBVIOUS
    <3>4. new = Object(old.algorithm, old.origin, size, m)
      <4>1. old = Object(old.algorithm, old.origin, old.length, old.material)
        BY <3>2, SoundFields
      <4>2. Refilled(old, size, m) = Object(old.algorithm, old.origin, size, m)
        BY <4>1, ObjectReplaced
      <4> QED  BY <3>3, <4>2, Zenon DEF Refilled
    <3>5. Sound("Opaque", new)
      BY <2>2, <3>2, <3>4, SoundFields, ShapedIsSound
    <3>6. WriteObject(Slot("Opaque"), new)
      BY <2>3, <3>1, <3>3
    <3> QED  BY <3>5, <3>6, SoundWrites DEF ObjectTypes
  <2>4. CASE WriteObject(Slot("Opaque"), Object(a, 2, size, m))
    <3>1. Sound("Opaque", Object(a, 2, size, m))
      BY <1>0, <2>2, ShapedIsSound
    <3> QED  BY <2>4, <3>1, SoundWrites DEF ObjectTypes
  <2> QED  BY <1>1, <2>1, <2>3, <2>4 DEF PutOpaque
<1>2. ASSUME a \in Authentication, size = AuthenticationKeyLength(a)
      PROVE  Shaped("AuthenticationKey", a, size + 8, AuthenticationMaterial(a, size))
  BY <1>2 DEF Shaped
<1>3. ASSUME PutAuthenticationKey(a, size)
      PROVE  ObjectsInv' /\ UNCHANGED <<power, serial, file>>
  <2>1. a \in Authentication /\ size = AuthenticationKeyLength(a)
    BY <1>3, SymmetricTables DEF PutAuthenticationKey, None
  <2>2. PICK new : new = Object(a, 2, size + 8, AuthenticationMaterial(a, size))
    OBVIOUS
  <2>3. Sound("AuthenticationKey", new)
    BY <1>0, <1>2, <2>1, <2>2, ShapedIsSound
  <2>4. WriteObject(Slot("AuthenticationKey"), new)
    BY <1>3, <2>2 DEF PutAuthenticationKey
  <2> QED  BY <2>3, <2>4, SoundWrites DEF ObjectTypes
<1>4. ASSUME ChangeAuthenticationKey(a, size)
      PROVE  ObjectsInv' /\ UNCHANGED <<power, serial, file>>
  <2>1. a \in Authentication /\ size = AuthenticationKeyLength(a)
    BY <1>4, SymmetricTables DEF ChangeAuthenticationKey, None
  <2>2. PICK old : old = objects[Slot("AuthenticationKey")]
    OBVIOUS
  <2>3. Sound("AuthenticationKey", old)
    BY <1>4, <2>2 DEF ChangeAuthenticationKey, ObjectsInv, Slot
  <2>4. PICK m : m = AuthenticationMaterial(a, size)
    OBVIOUS
  <2>5. PICK new : new = [old EXCEPT !.algorithm = a, !.length = size + 8, !.material = m]
    OBVIOUS
  <2>6. new = Object(a, old.origin, size + 8, m)
    <3>1. old = Object(old.algorithm, old.origin, old.length, old.material)
      BY <2>3, SoundFields
    <3>2. Rekeyed(old, a, size + 8, m) = Object(a, old.origin, size + 8, m)
      BY <3>1, ObjectReplaced
    <3> QED  BY <2>5, <3>2, Zenon DEF Rekeyed
  <2>7. Sound("AuthenticationKey", new)
    BY <1>2, <2>1, <2>3, <2>4, <2>6, SoundFields, ShapedIsSound
  <2>8. WriteObject(Slot("AuthenticationKey"), new)
    BY <1>4, <2>2, <2>4, <2>5 DEF ChangeAuthenticationKey
  <2> QED  BY <2>7, <2>8, SoundWrites DEF ObjectTypes
<1>5. ASSUME PutTemplate(a, size)
      PROVE  ObjectsInv' /\ UNCHANGED <<power, serial, file>>
  <2>1. PICK new : new = Object(a, 2, size, Bytes("Opaque", size))
    OBVIOUS
  <2>2. Shaped("Template", a, size, Bytes("Opaque", size))
    BY <1>5 DEF PutTemplate, Shaped
  <2>3. Sound("Template", new)
    BY <1>0, <2>1, <2>2, ShapedIsSound
  <2>4. WriteObject(Slot("Template"), new)
    BY <1>5, <2>1 DEF PutTemplate
  <2> QED  BY <2>3, <2>4, SoundWrites DEF ObjectTypes
<1>6. ASSUME NEW sound \in BOOLEAN, PutPublicWrapKey(a, size, sound)
      PROVE  ObjectsInv' /\ UNCHANGED <<power, serial, file>>
  <2>1. PICK m : m = [Bytes("Public", size) EXCEPT !.sound = sound]
    OBVIOUS
  <2>2. PICK new : new = Object(a, 2, size + 8, m)
    OBVIOUS
  <2>3. WriteObject(Slot("PublicWrapKey"), new)
    BY <1>6, <2>1, <2>2 DEF PutPublicWrapKey
  <2>4. m = Material("Public", "bytes", size, sound)
    BY <2>1 DEF Bytes, Material
  <2>5. sound = TRUE
    <3>1. new.material.sound
      BY <2>3 DEF WriteObject, Slot
    <3>2. new.material = m
      BY <2>2, ObjectFields
    <3>3. m.sound = sound
      BY <2>4 DEF Material
    <3> QED  BY <3>1, <3>2, <3>3
  <2>6. m = Bytes("Public", size)
    BY <2>4, <2>5 DEF Bytes
  <2>7. Shaped("PublicWrapKey", a, size + 8, m)
    BY <1>6, <2>6 DEF PutPublicWrapKey, Shaped
  <2>8. Sound("PublicWrapKey", new)
    BY <1>0, <2>2, <2>7, ShapedIsSound
  <2> QED  BY <2>3, <2>8, SoundWrites DEF ObjectTypes
<1> QED  BY <1>1, <1>3, <1>4, <1>5, <1>6

\* Keys a host supplies or has generated.
LEMMA KeyPuts ==
  ASSUME ObjectsInv, NEW a \in Algorithms, NEW size \in Nat, NEW generate \in BOOLEAN
  PROVE  /\ PutAsymmetricKey(a, generate, size) =>
              ObjectsInv' /\ UNCHANGED <<power, serial, file>>
         /\ PutHmacKey(a, generate, size) =>
              ObjectsInv' /\ UNCHANGED <<power, serial, file>>
         /\ PutSymmetricKey(a, generate, size) =>
              ObjectsInv' /\ UNCHANGED <<power, serial, file>>
         /\ PutWrapKey(a, generate, size) =>
              ObjectsInv' /\ UNCHANGED <<power, serial, file>>
         /\ PutOtpAeadKey(a, generate, size) =>
              ObjectsInv' /\ UNCHANGED <<power, serial, file>>
<1>0. PICK origin \in AllOrigins : origin = Origin(generate)
  BY OriginOf
<1>1. ASSUME PutAsymmetricKey(a, generate, size)
      PROVE  ObjectsInv' /\ UNCHANGED <<power, serial, file>>
  <2>1. PICK m : m = AsymmetricKeyMaterial(a, generate, size)
    OBVIOUS
  <2>2. PICK new : new = Object(a, origin, AsymmetricObjectLength(a), m)
    OBVIOUS
  <2>3. a \in Private /\ SuppliedFits(a, generate, size)
    BY <1>1, OnlyPrivate DEF PutAsymmetricKey
  <2>4. PrivateShape(a, m)
    BY <2>1, <2>3, SuppliedShape
  <2>5. Shaped("AsymmetricKey", a, AsymmetricObjectLength(a), m)
    BY <2>3, <2>4 DEF Shaped
  <2>6. Sound("AsymmetricKey", new)
    BY <2>2, <2>5, ShapedIsSound
  <2>7. WriteObject(Slot("AsymmetricKey"), new)
    BY <1>0, <1>1, <2>1, <2>2 DEF PutAsymmetricKey, WriteImportedObject
  <2> QED  BY <2>6, <2>7, SoundWrites DEF ObjectTypes
<1>2. ASSUME PutHmacKey(a, generate, size)
      PROVE  ObjectsInv' /\ UNCHANGED <<power, serial, file>>
  <2>1. PICK kept : kept = IF generate THEN HmacLength(a) ELSE size
    OBVIOUS
  <2>2. PICK m : m = Bytes("Secret", kept)
    OBVIOUS
  <2>3. PICK new : new = Object(a, origin, HmacObjectLength(a), m)
    OBVIOUS
  <2>4. a \in Hmac
    BY <1>2, SymmetricTables DEF PutHmacKey
  <2>5. kept \in 1..128
    BY <1>2, <2>1, <2>4, SymmetricTables DEF PutHmacKey
  <2>6. Shaped("HmacKey", a, HmacObjectLength(a), m)
    BY <2>2, <2>4, <2>5 DEF Shaped
  <2>7. Sound("HmacKey", new)
    BY <2>3, <2>6, ShapedIsSound
  <2>8. WriteObject(Slot("HmacKey"), new)
    BY <1>0, <1>2, <2>1, <2>2, <2>3 DEF PutHmacKey
  <2> QED  BY <2>7, <2>8, SoundWrites DEF ObjectTypes
<1>3. ASSUME PutSymmetricKey(a, generate, size)
      PROVE  ObjectsInv' /\ UNCHANGED <<power, serial, file>>
  <2>1. PICK new : new = Object(a, origin, AesKeyLength(a), Bytes("Secret", AesKeyLength(a)))
    OBVIOUS
  <2>2. Shaped("SymmetricKey", a, AesKeyLength(a), Bytes("Secret", AesKeyLength(a)))
    BY <1>3 DEF PutSymmetricKey, Shaped
  <2>3. Sound("SymmetricKey", new)
    BY <2>1, <2>2, ShapedIsSound
  <2>4. WriteObject(Slot("SymmetricKey"), new)
    BY <1>0, <1>3, <2>1 DEF PutSymmetricKey
  <2> QED  BY <2>3, <2>4, SoundWrites DEF ObjectTypes
<1>4. ASSUME PutWrapKey(a, generate, size)
      PROVE  ObjectsInv' /\ UNCHANGED <<power, serial, file>>
  <2>1. CASE a \in CcmWrap
    <3>1. PICK new : new = Object(a, origin, AesKeyLength(a) + 8,
                                  Bytes("Secret", AesKeyLength(a)))
      OBVIOUS
    <3>2. Shaped("WrapKey", a, AesKeyLength(a) + 8, Bytes("Secret", AesKeyLength(a)))
      BY <2>1 DEF Shaped
    <3>3. Sound("WrapKey", new)
      BY <3>1, <3>2, ShapedIsSound
    <3>4. a \notin Rsa
      BY <2>1 DEF CcmWrap, Rsa
    <3>5. WriteObject(Slot("WrapKey"), new)
      BY <1>0, <1>4, <3>1, <3>4 DEF PutWrapKey
    <3> QED  BY <3>3, <3>5, SoundWrites DEF ObjectTypes
  <2>2. CASE a \notin CcmWrap
    <3>1. a \in Rsa /\ SuppliedFits(a, generate, size)
      BY <1>4, <2>2 DEF PutWrapKey
    <3>2. PICK m : m = AsymmetricKeyMaterial(a, generate, size)
      OBVIOUS
    <3>3. PICK new : new = Object(a, origin, AsymmetricObjectLength(a) + 8, m)
      OBVIOUS
    <3>4. PrivateShape(a, m)
      BY <3>1, <3>2, SuppliedShape DEF Private
    <3>5. Shaped("WrapKey", a, AsymmetricObjectLength(a) + 8, m)
      BY <3>1, <3>4 DEF Shaped
    <3>6. Sound("WrapKey", new)
      BY <3>3, <3>5, ShapedIsSound
    <3>7. WriteObject(Slot("WrapKey"), new)
      BY <1>0, <1>4, <2>2, <3>2, <3>3 DEF PutWrapKey, WriteImportedObject
    <3> QED  BY <3>6, <3>7, SoundWrites DEF ObjectTypes
  <2> QED  BY <2>1, <2>2
<1>5. ASSUME PutOtpAeadKey(a, generate, size)
      PROVE  ObjectsInv' /\ UNCHANGED <<power, serial, file>>
  <2>1. PICK new : new = Object(a, origin, AesKeyLength(a) + 4,
                                Bytes("OtpAeadKey", AesKeyLength(a)))
    OBVIOUS
  <2>2. Shaped("OtpAeadKey", a, AesKeyLength(a) + 4, Bytes("OtpAeadKey", AesKeyLength(a)))
    BY <1>5 DEF PutOtpAeadKey, Shaped
  <2>3. Sound("OtpAeadKey", new)
    BY <2>1, <2>2, ShapedIsSound
  <2>4. WriteObject(Slot("OtpAeadKey"), new)
    BY <1>0, <1>5, <2>1 DEF PutOtpAeadKey
  <2> QED  BY <2>3, <2>4, SoundWrites DEF ObjectTypes
<1> QED  BY <1>1, <1>2, <1>3, <1>4, <1>5

\* Keys unwrapped from RSA-OAEP; only a validated RSA key gets written.
LEMMA RsaWrappedPuts ==
  ASSUME ObjectsInv, NEW a \in Algorithms, NEW kind, NEW size \in Nat,
         NEW sound \in BOOLEAN, PutRsaWrappedKey(a, kind, size, sound)
  PROVE  ObjectsInv' /\ UNCHANGED <<power, serial, file>>
<1>0. 18 \in AllOrigins
  BY DEF AllOrigins
<1>1. PICK m : m = TypedPrivateMaterial(a, size, sound)
  OBVIOUS
<1>2. CASE /\ Pkcs8Fits(a, kind, size)
           /\ WriteImportedObject(Slot("AsymmetricKey"),
                                  Object(a, 18, AsymmetricObjectLength(a), m))
  <2>1. PICK new : new = Object(a, 18, AsymmetricObjectLength(a), m)
    OBVIOUS
  <2>2. a \in Private /\ size \in EncodedLengths(a)
    BY <1>2 DEF Pkcs8Fits, Private
  <2>3. m.form = FormOf(a) /\ m.kind = a /\ m.sound = sound
    BY <1>1, <2>2, PrivateLength
  <2>4. a \in Rsa => FormOf(a) = "SigningKey"
    BY DEF FormOf, Rsa, MlKem, HybridKem, Montgomery
  <2>5. new.material = m
    BY <2>1, ObjectFields
  <2>6. a \in Rsa => sound
    BY <1>2, <2>1, <2>3, <2>4, <2>5 DEF WriteImportedObject
  <2>7. PrivateShape(a, m)
    BY <1>1, <2>2, <2>6 DEF PrivateShape
  <2>8. Shaped("AsymmetricKey", a, AsymmetricObjectLength(a), m)
    BY <2>2, <2>7 DEF Shaped
  <2>9. Sound("AsymmetricKey", new)
    BY <1>0, <2>1, <2>8, ShapedIsSound
  <2>10. WriteObject(Slot("AsymmetricKey"), new)
    BY <1>2, <2>1 DEF WriteImportedObject
  <2> QED  BY <2>9, <2>10, SoundWrites DEF ObjectTypes
<1>3. CASE /\ a \in Aes /\ size = AesKeyLength(a)
           /\ WriteImportedObject(Slot("SymmetricKey"),
                                  Object(a, 18, size, Bytes("Secret", size)))
  <2>1. PICK new : new = Object(a, 18, size, Bytes("Secret", size))
    OBVIOUS
  <2>2. Shaped("SymmetricKey", a, size, Bytes("Secret", size))
    BY <1>3 DEF Shaped
  <2>3. Sound("SymmetricKey", new)
    BY <1>0, <2>1, <2>2, ShapedIsSound
  <2>4. WriteObject(Slot("SymmetricKey"), new)
    BY <1>3, <2>1 DEF WriteImportedObject
  <2> QED  BY <2>3, <2>4, SoundWrites DEF ObjectTypes
<1> QED  BY <1>1, <1>2, <1>3 DEF PutRsaWrappedKey

\* The material of a wrapped object.
BlobMaterial(blob) ==
  IF blob.variant = "pkcs8"
    THEN TypedPrivateMaterial(blob.algorithm, blob.size, blob.sound)
    ELSE Material(WrappedForm(blob), blob.kind, blob.size, blob.sound)

\* A blob the decoder accepts holds a shape, if RSA keys pass validation.
LEMMA RawDecodes ==
  ASSUME NEW type, NEW a \in Algorithms, NEW length, NEW m,
         NEW form \in ByteForms, NEW size \in Nat, m = Material(form, "bytes", size, TRUE),
         NEW object, object.algorithm = a, object.length = length, object.material = m,
         ValidWrapped(type, object)
  PROVE  Shaped(type, a, length, m)
<1>1. m.form = form /\ m.kind = "bytes" /\ m.size = size
  BY DEF Material
<1>2. MaterialLength(m) = size
  BY <1>1 DEF MaterialLength, ByteForms
<1>3. length = ExpectedInfoLength(type, object)
  BY DEF ValidWrapped, Valid
<1>4. m = Bytes(form, size)
  BY Zenon DEF Bytes
<1>5. CASE type = "Opaque" /\ form = "Opaque"
  <2>1. length = size
    BY <1>2, <1>3, <1>5 DEF ExpectedInfoLength
  <2> QED  BY <1>4, <1>5, <2>1 DEF Shaped
<1>6. CASE type = "Template" /\ form = "Opaque" /\ a = "TemplateSsh"
  <2>1. length = size
    BY <1>2, <1>3, <1>6 DEF ExpectedInfoLength
  <2> QED  BY <1>4, <1>6, <2>1 DEF Shaped
<1>7. CASE type = "AuthenticationKey" /\ m = AuthenticationMaterial(a, AuthenticationKeyLength(a))
  <2>1. size = AuthenticationKeyLength(a)
    <3>1. PICK other, l : l = AuthenticationKeyLength(a) /\ m = Material(other, "bytes", l, TRUE)
      BY <1>7, Zenon DEF AuthenticationMaterial, Bytes
    <3>2. m = Material(other, "bytes", l, TRUE)
      BY <3>1, Zenon
    <3>3. m.size = l
      BY <3>2 DEF Material
    <3> QED  BY <1>1, <3>1, <3>3
  <2>2. a \in Authentication
    BY <2>1, SymmetricTables DEF None
  <2>3. length = size + 8
    BY <1>2, <1>3, <1>7 DEF ExpectedInfoLength
  <2> QED  BY <1>7, <2>1, <2>2, <2>3 DEF Shaped
<1>8. CASE type = "WrapKey" /\ a \in CcmWrap /\ m = Bytes("Secret", AesKeyLength(a))
  <2>1. size = AesKeyLength(a)
    BY <1>1, <1>8 DEF Bytes, Material
  <2>2. a \notin Rsa
    BY <1>8 DEF CcmWrap, Rsa
  <2>3. length = size + 8
    BY <1>2, <1>3, <1>8, <2>2 DEF ExpectedInfoLength
  <2> QED  BY <1>8, <2>1, <2>3 DEF Shaped
<1>9. CASE type = "HmacKey" /\ a \in Hmac /\ form = "Secret" /\ size \in 1..128
  <2>1. length = HmacObjectLength(a)
    BY <1>3, <1>9 DEF ExpectedInfoLength
  <2> QED  BY <1>4, <1>9, <2>1 DEF Shaped
<1>10. CASE type = "OtpAeadKey" /\ a \in YubicoOtp /\ m = Bytes("OtpAeadKey", AesKeyLength(a))
  <2>1. size = AesKeyLength(a)
    BY <1>1, <1>10 DEF Bytes, Material
  <2>2. length = size + 4
    BY <1>2, <1>3, <1>10 DEF ExpectedInfoLength
  <2> QED  BY <1>10, <2>1, <2>2 DEF Shaped
<1>11. CASE type = "SymmetricKey" /\ a \in Aes /\ m = Bytes("Secret", AesKeyLength(a))
  <2>1. size = AesKeyLength(a)
    BY <1>1, <1>11 DEF Bytes, Material
  <2>2. length = size
    BY <1>2, <1>3, <1>11 DEF ExpectedInfoLength
  <2> QED  BY <1>11, <2>1, <2>2 DEF Shaped
<1>12. CASE /\ type = "PublicWrapKey" /\ a \in Rsa /\ form = "Public"
            /\ size = AsymmetricKeyLength(a)
  <2>1. length = size + 8
    BY <1>2, <1>3, <1>12 DEF ExpectedInfoLength
  <2> QED  BY <1>4, <1>12, <2>1 DEF Shaped
<1>13. a # "bytes"
  BY DEF Algorithms, Rsa, Weierstrass, Edwards, Montgomery, MlDsa, MlKem, HybridKem,
    CcmWrap, YubicoOtp, Aes, Hmac, Authentication, OpaqueForms
<1>14. form # "SigningKey"
  BY DEF ByteForms
<1> QED
  BY <1>1, <1>5, <1>6, <1>7, <1>8, <1>9, <1>10, <1>11, <1>12, <1>13, <1>14 DEF ValidWrapped

LEMMA DecodedObject ==
  ASSUME NEW blob
  PROVE  \E length :
           Decoded(blob) = Object(blob.algorithm, blob.origin, length, BlobMaterial(blob))
<1>1. PICK m : m = BlobMaterial(blob)
  OBVIOUS
<1>2. PICK plain : plain = Object(blob.algorithm, blob.origin, 0, m)
  OBVIOUS
<1>3. Decoded(blob) = NormalizeInfoLength(blob.type, plain)
  BY <1>1, <1>2 DEF Decoded, BlobMaterial
<1>4. PICK length : length = ExpectedInfoLength(blob.type, plain)
  OBVIOUS
<1>5. NormalizeInfoLength(blob.type, plain) = [plain EXCEPT !.length = length]
  BY <1>4 DEF NormalizeInfoLength
<1>6. [plain EXCEPT !.length = length] = Object(blob.algorithm, blob.origin, length, m)
  BY <1>2, ObjectChanges
<1>7. Decoded(blob) = Object(blob.algorithm, blob.origin, length, BlobMaterial(blob))
  BY <1>1, <1>3, <1>5, <1>6
<1> QED  BY <1>7

\* Importing what decodes, in either cipher.
LEMMA Imports ==
  ASSUME ObjectsInv, NEW blob \in Decodable, ImportWrapped(blob)
  PROVE  ObjectsInv' /\ UNCHANGED <<power, serial, file>>
<1>1. PICK type \in ObjectTypes, a \in HostAlgorithms : blob \in Blobs(type, a) /\ Decodes(blob)
  BY DEF Decodable
<1>2. a \in Algorithms
  BY FormsAssumption
<1>3. blob.type = type /\ blob.algorithm = a /\ blob.origin \in {1, 2, 17}
  <2>1. CASE blob \in RawBlobs(type, a)
    BY <2>1 DEF RawBlobs
  <2>2. ASSUME NEW kind, blob \in Pkcs8Blobs(type, a, kind)
        PROVE  blob.type = type /\ blob.algorithm = a /\ blob.origin \in {1, 2, 17}
    BY <2>2 DEF Pkcs8Blobs
  <2> QED  BY <1>1, <2>1, <2>2 DEF Blobs
<1>4. PICK m : m = BlobMaterial(blob)
  OBVIOUS
<1>5. PICK length : Decoded(blob) = Object(a, blob.origin, length, m)
  BY <1>3, <1>4, DecodedObject
<1>6. PICK object : object = Decoded(blob)
  OBVIOUS
<1>7. object.algorithm = a /\ object.length = length /\ object.material = m
  BY <1>5, <1>6, ObjectFields
<1>8. PICK origin : origin = Marked(blob.origin)
  OBVIOUS
<1>9. origin \in AllOrigins
  BY <1>1, <1>3, <1>8 DEF Decodes, Marked, AllOrigins
<1>10. PICK new : new = Object(a, origin, length, m)
  OBVIOUS
<1>11. WriteImportedObject(Slot(type), new)
  <2>1. object.origin = blob.origin
    BY <1>5, <1>6, ObjectFields
  <2>2. [object EXCEPT !.origin = Marked(@)] = new
    BY <1>5, <1>6, <1>8, <1>10, <2>1, ObjectChanges
  <2> QED  BY <1>3, <1>6, <2>2 DEF ImportWrapped
<1>12. new.material = m
  BY <1>10, ObjectFields
<1>13. ValidWrapped(type, object)
  BY <1>1, <1>3, <1>6 DEF Decodes, Encodes
<1>14. Shaped(type, a, length, m)
  <2>1. CASE blob \in RawBlobs(type, a)
    <3>1. /\ blob.variant \in Variants /\ blob.kind = "bytes" /\ blob.size \in Nat
          /\ blob.sound = TRUE
      BY <2>1, FormsAssumption DEF RawBlobs
    <3>2. WrappedForm(blob) \in ByteForms
      BY <3>1 DEF Variants, WrappedForm, ByteForms
    <3>3. m = Material(WrappedForm(blob), blob.kind, blob.size, blob.sound)
      BY <1>4, <3>1 DEF BlobMaterial, Variants
    <3>4. m = Material(WrappedForm(blob), "bytes", blob.size, TRUE)
      BY <3>1, <3>3, Zenon
    <3> QED  BY <1>2, <1>7, <1>13, <3>1, <3>2, <3>4, RawDecodes
  <2>2. CASE \E kind : blob \in Pkcs8Blobs(type, a, kind)
    <3>1. blob.variant = "pkcs8" /\ blob.sound \in BOOLEAN
      BY <2>2 DEF Pkcs8Blobs
    <3>2. HoldsPrivateKey(type, a) /\ Pkcs8Fits(a, blob.kind, blob.size)
      BY <1>1, <1>3, <3>1 DEF Decodes, MaterialDecodes
    <3>3. a \in Private /\ blob.size \in EncodedLengths(a)
      BY <3>2 DEF Pkcs8Fits, Private
    <3>4. m = TypedPrivateMaterial(a, blob.size, blob.sound)
      BY <1>3, <1>4, <3>1 DEF BlobMaterial
    <3>5. m.form = FormOf(a) /\ m.kind = a /\ m.sound = blob.sound
      BY <3>3, <3>4, PrivateLength
    <3>6. a \in Rsa => FormOf(a) = "SigningKey"
      BY DEF FormOf, Rsa, MlKem, HybridKem, Montgomery
    <3>7. a \in Rsa => blob.sound
      BY <1>11, <1>12, <3>5, <3>6 DEF WriteImportedObject
    <3>8. PrivateShape(a, m)
      BY <3>1, <3>3, <3>4, <3>7 DEF PrivateShape
    <3>9. length = ExpectedInfoLength(type, object)
      BY <1>7, <1>13 DEF ValidWrapped, Valid
    <3>10. CASE type = "AsymmetricKey"
      BY <1>7, <3>3, <3>8, <3>9, <3>10 DEF ExpectedInfoLength, Shaped
    <3>11. CASE type = "WrapKey" /\ a \in Rsa
      BY <1>7, <3>8, <3>9, <3>11 DEF ExpectedInfoLength, Shaped
    <3> QED  BY <3>2, <3>10, <3>11 DEF HoldsPrivateKey
  <2> QED  BY <1>1, <2>1, <2>2 DEF Blobs
<1>15. Sound(type, new)
  BY <1>2, <1>9, <1>10, <1>14, ShapedIsSound
<1>16. WriteObject(Slot(type), new)
  BY <1>11 DEF WriteImportedObject
<1> QED  BY <1>15, <1>16, SoundWrites

LEMMA Deletes ==
  ASSUME ObjectsInv, NEW key \in DOMAIN objects, DeleteObject(key)
  PROVE  ObjectsInv' /\ UNCHANGED <<power, serial, file>>
<1>1. objects' = [k \in DOMAIN objects \ {key} |-> objects[k]]
  BY DEF DeleteObject, Restrict
<1>2. DOMAIN objects' \subseteq DOMAIN objects
  BY <1>1
<1>3. \A k \in DOMAIN objects' : objects'[k] = objects[k]
  BY <1>1
<1>4. \A k \in DOMAIN objects' : Sound(k[1], objects'[k])
  BY <1>2, <1>3 DEF ObjectsInv
<1>5. objects' = [k \in DOMAIN objects' |-> objects'[k]]
  BY <1>1
<1>6. \A k \in DOMAIN objects' : objects'[k].length <= MaxLength
  BY <1>2, <1>3 DEF ObjectsInv
<1>7. ObjectsInv'
  BY <1>2, <1>4, <1>5, <1>6 DEF ObjectsInv, Sound
<1> QED  BY <1>7 DEF DeleteObject

-----------------------------------------------------------------------------
(* Stopping and starting *)

\* The file a process leaves loads under the serial number it was saved with,
\* and gives back the objects.
LEMMA OwnFile ==
  ASSUME ObjectsInv, NEW version \in 1..CurrentVersion, NEW entries \in {0, LogCapacity},
         file = PersistentState(version, entries)
  PROVE  /\ Loads(file, serial)
         /\ file.serial = serial
         /\ DOMAIN file.objects = DOMAIN objects
         /\ \A key \in DOMAIN objects :
              /\ file.objects[key] \in Records
              /\ file.objects[key].material.kind = "bytes"
              /\ Restored(file.version, key[1], file.objects[key]) = objects[key]
<1>1. /\ file.version = version /\ file.serial = serial /\ file.entries = entries
      /\ file.objects = [key \in DOMAIN objects |-> Saved(version, key[1], objects[key])]
  BY DEF PersistentState, Saved
<1>2. ASSUME NEW key \in DOMAIN objects, NEW stored, stored = Saved(version, key[1], objects[key])
      PROVE  /\ stored \in Records /\ stored.material.kind = "bytes"
             /\ FromStoredFits(key[1], stored)
             /\ version < CurrentVersion =>
                  stored.length = PreviousLength(version, key[1], stored)
             /\ Restored(version, key[1], stored) = objects[key]
             /\ Valid(key[1], objects[key])
  <2>1. PICK type, object : type = key[1] /\ object = objects[key]
    OBVIOUS
  <2>2. Sound(type, object)
    BY <2>1 DEF ObjectsInv
  <2>3. PICK a \in Algorithms, origin \in AllOrigins, length \in Nat, m \in Materials :
          Shaped(type, a, length, m) /\ object = Object(a, origin, length, m)
    BY <2>2 DEF Sound
  <2>4. stored = Saved(version, type, object) /\ length \in 0..MaxLength
    <3>1. object.length = length
      BY <2>3, ObjectFields
    <3>2. object.length <= MaxLength
      BY <2>1 DEF ObjectsInv
    <3>3. length \in Nat /\ length <= MaxLength
      BY <2>3, <3>1, <3>2
    <3>4. length \in 0..MaxLength
      BY <3>3, MaxLengthNat
    <3> QED  BY <1>2, <2>1, <3>4
  <2>5. /\ stored \in Records /\ stored.material.kind = "bytes"
        /\ FromStoredFits(type, stored)
        /\ version < CurrentVersion => stored.length = PreviousLength(version, type, stored)
        /\ Restored(version, type, stored) = object
        /\ Valid(type, object)
    BY <2>3, <2>4, SavedLoads
  <2> QED  BY <2>1, <2>5
<1>3. LogFits(entries)
  BY FormsAssumption DEF LogFits
<1>4. version \in {1, 2, CurrentVersion}
  BY DEF CurrentVersion
<1>5. DOMAIN file.objects = DOMAIN objects
  BY <1>1
<1>6. \A key \in DOMAIN objects : file.objects[key] = Saved(version, key[1], objects[key])
  BY <1>1
<1>7. Loads(file, serial)
  BY <1>1, <1>2, <1>3, <1>4, <1>5, <1>6 DEF Loads, SameSerial
<1> QED  BY <1>1, <1>2, <1>5, <1>6, <1>7

\* A start restores the very objects and the serial number.
LEMMA Starts ==
  ASSUME Inv, NEW config \in Serials, Start(config)
  PROVE  objects' = objects /\ serial' = serial
<1>1. PICK version \in 1..CurrentVersion, entries \in {0, LogCapacity} :
        file = PersistentState(version, entries)
  BY DEF Inv, FileInv, Start
<1>2. /\ file.serial = serial
      /\ DOMAIN file.objects = DOMAIN objects
      /\ \A key \in DOMAIN objects :
           Restored(file.version, key[1], file.objects[key]) = objects[key]
  BY <1>1, OwnFile DEF Inv
<1>3. objects' = [key \in DOMAIN objects |-> objects[key]]
  BY <1>2 DEF Start
<1>4. objects' = objects
  BY <1>3 DEF Inv, ObjectsInv
<1>5. serial' = serial
  BY <1>2 DEF Start, Loads, SameSerial
<1> QED  BY <1>4, <1>5

-----------------------------------------------------------------------------
(* The invariant *)

LEMMA InitInv == Init => Inv
<1> SUFFICES ASSUME Init PROVE Inv
  OBVIOUS
<1>1. PICK m : m = Bytes("Symmetric", 32)
  OBVIOUS
<1>2. PICK a : a = "Aes128YubicoAuthentication"
  OBVIOUS
<1>3. a \in Algorithms /\ a \in Authentication /\ AuthenticationKeyLength(a) = 32
  BY <1>2 DEF Algorithms, Authentication, AuthenticationKeyLength
<1>4. Shaped("AuthenticationKey", a, 40, m)
  <2>1. m = AuthenticationMaterial(a, AuthenticationKeyLength(a))
    BY <1>1, <1>2, <1>3 DEF AuthenticationMaterial
  <2> QED  BY <1>3, <2>1 DEF Shaped
<1>5. PICK object : object = Object(a, 2, 40, m)
  OBVIOUS
<1>6. Sound("AuthenticationKey", object)
  BY <1>3, <1>4, <1>5, ShapedIsSound DEF AllOrigins
<1>7. objects = [key \in {<<"AuthenticationKey", 1>>} |-> object]
  BY <1>1, <1>2, <1>5 DEF Init, FactoryObjects
<1>8. ObjectsInv
  <2>1. DOMAIN objects = {Slot("AuthenticationKey")}
    BY <1>7 DEF Slot
  <2>2. DOMAIN objects \subseteq {Slot(type) : type \in ObjectTypes}
    BY <2>1 DEF ObjectTypes
  <2>3. \A key \in DOMAIN objects : Sound(key[1], objects[key])
    BY <1>6, <1>7
  <2>4. objects = [key \in DOMAIN objects |-> objects[key]]
    BY <1>7
  <2>5. object.length = 40
    BY <1>5, ObjectFields
  <2>6. \A key \in DOMAIN objects : objects[key].length <= MaxLength
    BY <1>7, <2>5 DEF MaxLength
  <2> QED  BY <2>2, <2>3, <2>4, <2>6 DEF ObjectsInv
<1> QED  BY <1>8 DEF Init, Inv, FileInv

\* A step on the objects of a running device.
LEMMA ObjectStep ==
  ASSUME Inv, power = "on", ObjectsInv', UNCHANGED <<power, serial, file>>
  PROVE  Inv'
BY DEF Inv, FileInv

LEMMA NextInv == Inv /\ [Next]_vars => Inv'
<1> SUFFICES ASSUME Inv, [Next]_vars PROVE Inv'
  OBVIOUS
<1>0. ObjectsInv
  BY DEF Inv
<1>1. ASSUME power = "on", NEW a \in HostAlgorithms, NEW size \in Sizes, Put(a, size)
      PROVE  Inv'
  <2>1. a \in Algorithms /\ size \in Nat
    BY FormsAssumption
  <2>2. ObjectsInv' /\ UNCHANGED <<power, serial, file>>
    <3>1. CASE PutOpaque(a, size)
      BY <1>0, <2>1, <3>1, BytePuts
    <3>2. CASE PutAuthenticationKey(a, size)
      BY <1>0, <2>1, <3>2, BytePuts
    <3>3. CASE ChangeAuthenticationKey(a, size)
      BY <1>0, <2>1, <3>3, BytePuts
    <3>4. CASE PutTemplate(a, size)
      BY <1>0, <2>1, <3>4, BytePuts
    <3>5. CASE \E sound \in BOOLEAN : PutPublicWrapKey(a, size, sound)
      BY <1>0, <2>1, <3>5, BytePuts
    <3>6. ASSUME NEW generate \in BOOLEAN,
                 \/ PutAsymmetricKey(a, generate, size)
                 \/ PutHmacKey(a, generate, size)
                 \/ PutSymmetricKey(a, generate, size)
                 \/ PutWrapKey(a, generate, size)
                 \/ PutOtpAeadKey(a, generate, size)
          PROVE  ObjectsInv' /\ UNCHANGED <<power, serial, file>>
      BY <1>0, <2>1, <3>6, KeyPuts
    <3>7. ASSUME NEW kind, NEW sound \in BOOLEAN, PutRsaWrappedKey(a, kind, size, sound)
          PROVE  ObjectsInv' /\ UNCHANGED <<power, serial, file>>
      BY <1>0, <2>1, <3>7, RsaWrappedPuts
    <3> QED  BY <1>1, <3>1, <3>2, <3>3, <3>4, <3>5, <3>6, <3>7 DEF Put
  <2> QED  BY <1>1, <2>2, ObjectStep
<1>2. ASSUME power = "on", NEW blob \in Decodable, ImportWrapped(blob)
      PROVE  Inv'
  BY <1>0, <1>2, Imports, ObjectStep
<1>3. ASSUME power = "on", NEW key \in DOMAIN objects, DeleteObject(key)
      PROVE  Inv'
  BY <1>0, <1>3, Deletes, ObjectStep
<1>4. ASSUME NEW version \in 1..CurrentVersion, NEW entries \in {0, LogCapacity},
             Stop(version, entries)
      PROVE  Inv'
  <2>1. objects' = objects /\ serial' = serial /\ power' = "off"
    BY <1>4 DEF Stop
  <2>2. PersistentState(version, entries)' = PersistentState(version, entries)
    BY <2>1 DEF PersistentState
  <2>3. FileInv'
    BY <1>4, <2>2 DEF Stop, FileInv
  <2>4. ObjectsInv'
    BY <1>0, <2>1 DEF ObjectsInv
  <2> QED  BY <2>1, <2>3, <2>4 DEF Inv
<1>5. ASSUME NEW config \in Serials, Start(config) PROVE Inv'
  <2>1. objects' = objects /\ serial' = serial
    BY <1>5, Starts
  <2>2. power' = "on"
    BY <1>5 DEF Start
  <2>3. ObjectsInv'
    BY <1>0, <2>1 DEF ObjectsInv
  <2> QED  BY <2>1, <2>2, <2>3 DEF Inv, FileInv
<1>6. CASE UNCHANGED vars
  <2>1. ObjectsInv'
    BY <1>0, <1>6 DEF vars, ObjectsInv
  <2>2. FileInv'
    BY <1>6 DEF vars, Inv, FileInv, PersistentState
  <2> QED  BY <1>6, <2>1, <2>2 DEF vars, Inv
<1> QED  BY <1>1, <1>2, <1>3, <1>4, <1>5, <1>6 DEF Next

LEMMA InvHolds == Spec => []Inv
BY InitInv, NextInv, PTL DEF Spec

-----------------------------------------------------------------------------
(* What the invariant gives *)

LEMMA InvOwnFile == Inv => OwnFileLoads
<1> SUFFICES ASSUME Inv PROVE OwnFileLoads
  OBVIOUS
<1>1. ASSUME NEW key \in DOMAIN objects
      PROVE  objects[key] \in Records /\ Storable(objects[key])
  <2>1. PICK type, object : type = key[1] /\ object = objects[key]
    OBVIOUS
  <2>2. Sound(type, object)
    BY <2>1 DEF Inv, ObjectsInv
  <2>3. PICK a \in Algorithms, origin \in AllOrigins, length \in Nat, m \in Materials :
          Shaped(type, a, length, m) /\ object = Object(a, origin, length, m)
    BY <2>2 DEF Sound
  <2>4. object \in Records
    BY <2>3 DEF Records, Object, AllOrigins
  <2>5. object.material = m
    BY <2>3, ObjectFields
  <2>6. m.kind \in Rsa /\ m.form = "SigningKey" => m.sound = TRUE
    BY <2>3, StoredShapes
  <2>7. Storable(object)
    BY <2>5, <2>6 DEF Storable
  <2> QED  BY <2>1, <2>4, <2>7
<1>2. ASSUME power = "off"
      PROVE  /\ Loads(file, serial)
             /\ \A key \in DOMAIN file.objects :
                  /\ file.objects[key] \in Records
                  /\ file.objects[key].material.kind = "bytes"
  <2>1. PICK version \in 1..CurrentVersion, entries \in {0, LogCapacity} :
          file = PersistentState(version, entries)
    BY <1>2 DEF Inv, FileInv
  <2> QED  BY <2>1, OwnFile DEF Inv
<1>3. TypeOK
  BY <1>1, <1>2 DEF Inv, ObjectsInv, TypeOK
<1> QED  BY <1>1, <1>2, <1>3 DEF OwnFileLoads

LEMMA InvExports == Inv => ExportsImportBack
<1> SUFFICES ASSUME Inv, NEW key \in DOMAIN objects, Encodes(key[1], objects[key])
             PROVE  LET blob == EncodeWrappedObject(key[1], objects[key]) IN
                    /\ Decodes(blob)
                    /\ Decoded(blob) = [objects[key] EXCEPT !.origin = @ % 16]
  BY DEF ExportsImportBack
<1>1. PICK type, object : type = key[1] /\ object = objects[key]
  OBVIOUS
<1>2. Sound(type, object)
  BY <1>1 DEF Inv, ObjectsInv
<1>3. PICK blob : blob = EncodeWrappedObject(type, object)
  OBVIOUS
<1>4. Decodes(blob) /\ Decoded(blob) = Unmarked(object)
  <2>1. PICK a \in Algorithms, origin \in AllOrigins, length \in Nat, m \in Materials :
          Shaped(type, a, length, m) /\ object = Object(a, origin, length, m)
    BY <1>2 DEF Sound
  <2>2. Encodes(type, object)
    BY <1>1
  <2>3. object.length = length
    BY <2>1, ObjectFields
  <2>4. length \in 0..MaxLength
    <3>1. object.length <= MaxLength
      BY <1>1 DEF Inv, ObjectsInv
    <3>2. length <= MaxLength
      BY <2>3, <3>1
    <3> QED  BY <2>1, <3>2, MaxLengthNat
  <2> QED  BY <1>3, <2>1, <2>2, <2>4, ExportedShapes
<1> QED  BY <1>1, <1>3, <1>4 DEF Unmarked

LEMMA InvLengths == Inv => LengthsAsDocumented
<1> SUFFICES ASSUME Inv, NEW key \in DOMAIN objects,
                    \/ objects[key].algorithm \notin Montgomery \cup {"Ed448"}
                    \/ key[1] = "Opaque"
             PROVE  objects[key].length =
                      DocumentedLength(key[1], objects[key].algorithm, objects[key].material)
  BY DEF LengthsAsDocumented
<1>1. PICK type, object : type = key[1] /\ object = objects[key]
  OBVIOUS
<1>2. Sound(type, object)
  BY <1>1 DEF Inv, ObjectsInv
<1>3. object.length = DocumentedLength(type, object.algorithm, object.material)
  BY <1>1, <1>2, SoundFields, DocumentedShapes
<1> QED  BY <1>1, <1>3

-----------------------------------------------------------------------------
(* Theorems *)

\* Whatever hosts put, generate, change, import or delete, with any algorithms
\* and sizes, the next save can encode every object, and the file it leaves
\* passes every check of from_persistent_state, whichever release wrote it
\* (object.rs to_stored, from_stored; device.rs write_imported_object).
THEOREM FilesLoad == Spec => []OwnFileLoads
BY InvHolds, InvOwnFile, PTL

\* A start gives back exactly the objects the last process had, through the
\* migrations of older releases too, and only to the serial number that saved
\* them (device.rs from_persistent_state, normalize_info_length).
THEOREM StartsRestore == Spec => ComesBackWhole
<1>1. Inv /\ [Next]_vars =>
        [power = "off" /\ power' = "on" => objects' = objects /\ serial' = serial]_vars
  <2> SUFFICES ASSUME Inv, Next, power = "off", power' = "on"
               PROVE  objects' = objects /\ serial' = serial
    BY DEF vars
  <2>1. \E config \in Serials : Start(config)
    BY DEF Next, Stop
  <2> QED  BY <2>1, Starts
<1> QED  BY <1>1, InvHolds, PTL DEF Spec, ComesBackWhole

\* Every object that can be exported decodes, at the receiver, to the same
\* object with the mark of an earlier import removed, and re-encodes to the
\* same bytes (device.rs encode_wrapped_object, decode_wrapped_object).
THEOREM ExportsDecode == Spec => []ExportsImportBack
BY InvHolds, InvExports, PTL

\* However an object came to be, its reported length is the one
\* docs/object-info-lengths.md gives for its type and algorithm (the length
\* computations of the handlers and of ObjectRecord).
THEOREM LengthsDocumented == Spec => []LengthsAsDocumented
BY InvHolds, InvLengths, PTL

=============================================================================

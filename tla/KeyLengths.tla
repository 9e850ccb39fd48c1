----------------------------- MODULE KeyLengths -----------------------------
(***************************************************************************)
(* The tables that say how long keys are: what protocol imports carry and  *)
(* what GetObjectInfo reports (crates/virtual-yubihsm-core/src/            *)
(* algorithm.rs), what a parsed key says of itself (object.rs), and the    *)
(* encodings that post-quantum keys come in (device.rs).                   *)
(***************************************************************************)
EXTENDS Integers

Rsa == {"Rsa2048", "Rsa3072", "Rsa4096"}
Weierstrass ==
  { "EcP224", "EcP256", "EcP384", "EcP521", "EcK256",
    "EcBrainpoolP256", "EcBrainpoolP384", "EcBrainpoolP512" }
Edwards == {"Ed25519", "Ed448"}
Montgomery == {"X25519", "X448"}
MlDsa == {"MlDsa44", "MlDsa65", "MlDsa87"}
MlKem == {"MlKem512", "MlKem768", "MlKem1024"}
HybridKem == {"HybridMlKem768P256", "HybridMlKem768X25519", "HybridMlKem1024P384"}
CcmWrap == {"Aes128CcmWrap", "Aes192CcmWrap", "Aes256CcmWrap"}
YubicoOtp == {"Aes128YubicoOtp", "Aes192YubicoOtp", "Aes256YubicoOtp"}
Aes == {"Aes128", "Aes192", "Aes256"}
Hmac == {"HmacSha1", "HmacSha256", "HmacSha384", "HmacSha512"}
Authentication == {"Aes128YubicoAuthentication", "EcP256YubicoAuthentication"}
OpaqueForms == {"OpaqueData", "OpaqueX509Certificate"}

Algorithms ==
  Rsa \cup Weierstrass \cup Edwards \cup Montgomery \cup MlDsa \cup MlKem
    \cup HybridKem \cup CcmWrap \cup YubicoOtp \cup Aes \cup Hmac
    \cup Authentication \cup OpaqueForms \cup {"TemplateSsh", "EcdsaSha256"}

None == -1   \* a table has no entry

AsymmetricKeyLength(a) ==
  CASE a \in MlDsa \cup HybridKem -> 32
    [] a \in MlKem -> 64
    [] a = "Rsa2048" -> 256
    [] a = "Rsa3072" -> 384
    [] a = "Rsa4096" -> 512
    [] a = "EcP224" -> 28
    [] a \in {"EcP256", "EcK256", "EcBrainpoolP256", "Ed25519", "X25519"} -> 32
    [] a = "X448" -> 56
    [] a = "Ed448" -> 57
    [] a \in {"EcP384", "EcBrainpoolP384"} -> 48
    [] a = "EcP521" -> 66
    [] a = "EcBrainpoolP512" -> 64
    [] OTHER -> None

AsymmetricObjectLength(a) ==
  CASE a \in MlDsa \cup HybridKem -> 32
    [] a \in MlKem -> 64
    [] a = "Rsa2048" -> 896
    [] a = "Rsa3072" -> 1344
    [] a = "Rsa4096" -> 1792
    [] a = "EcP224" -> 84
    [] a \in {"EcP256", "EcK256", "EcBrainpoolP256"} -> 96
    [] a \in {"EcP384", "EcBrainpoolP384"} -> 144
    [] a = "EcP521" -> 198
    [] a = "EcBrainpoolP512" -> 192
    [] a = "Ed25519" -> 128
    [] a = "X25519" -> 64
    [] a = "X448" -> 112
    [] a = "Ed448" -> 228
    [] OTHER -> None

HmacLength(a) ==
  CASE a = "HmacSha1" -> 20
    [] a = "HmacSha256" -> 32
    [] a = "HmacSha384" -> 48
    [] a = "HmacSha512" -> 64
    [] OTHER -> None

\* Mutant: twice the digest instead of twice the block.
HmacTwiceDigest(a) == IF HmacLength(a) = None THEN None ELSE 2 * HmacLength(a)

HmacObjectLength(a) ==
  CASE a \in {"HmacSha1", "HmacSha256"} -> 128
    [] a \in {"HmacSha384", "HmacSha512"} -> 256
    [] OTHER -> None

AesKeyLength(a) ==
  CASE a \in {"Aes128", "Aes128CcmWrap", "Aes128YubicoOtp"} -> 16
    [] a \in {"Aes192", "Aes192CcmWrap", "Aes192YubicoOtp"} -> 24
    [] a \in {"Aes256", "Aes256CcmWrap", "Aes256YubicoOtp"} -> 32
    [] OTHER -> None

AuthenticationKeyLength(a) ==
  CASE a = "Aes128YubicoAuthentication" -> 32
    [] a = "EcP256YubicoAuthentication" -> 64
    [] OTHER -> None

\* expanded_private_key_length of a parameter set (external).
ExpandedLength(a) ==
  CASE a = "MlDsa44" -> 2560 [] a = "MlDsa65" -> 4032 [] a = "MlDsa87" -> 4896
    [] a = "MlKem512" -> 1632 [] a = "MlKem768" -> 2400 [] a = "MlKem1024" -> 3168

\* ObjectMaterial::len of a parsed signing key, by its kind; ML-DSA by the seed.
KindLength(kind) ==
  CASE kind = "EcP224" -> 28
    [] kind \in {"EcP256", "EcK256", "EcBrainpoolP256", "Ed25519"} -> 32
    [] kind \in {"EcP384", "EcBrainpoolP384"} -> 48
    [] kind = "EcP521" -> 66
    [] kind = "EcBrainpoolP512" -> 64
    [] kind = "Ed448" -> 57
    [] kind = "Rsa2048" -> 2048 \div 8
    [] kind = "Rsa3072" -> 3072 \div 8
    [] kind = "Rsa4096" -> 4096 \div 8
    [] kind \in MlDsa -> 32

\* The encodings the constructors take: post-quantum keys as seed, expanded
\* key or both, and the seed is what they retain when they know it.
EncodedLengths(a) ==
  IF a \in MlDsa \cup MlKem
    THEN {AsymmetricKeyLength(a), ExpandedLength(a),
          AsymmetricKeyLength(a) + ExpandedLength(a)}
    ELSE {AsymmetricKeyLength(a)} \ {None}

Retained(a, size) ==
  IF a \in MlDsa \cup MlKem /\ size = ExpandedLength(a)
    THEN size ELSE AsymmetricKeyLength(a)

=============================================================================

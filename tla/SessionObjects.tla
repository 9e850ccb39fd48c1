--------------------------- MODULE SessionObjects ---------------------------
(***************************************************************************)
(* The volatile objects of secure sessions: session_object.rs and the      *)
(* SessionObject command of device.rs.  A session's objects live in its    *)
(* entry of the session table and go with it.                              *)
(*                                                                         *)
(* A table maps handles to values; a value stands for key material and is  *)
(* a number into `made', which remembers how each value came about.  So a  *)
(* handle that is drawn again after a deletion is told apart from the      *)
(* object that had it before.  Lengths are bytes.                          *)
(***************************************************************************)
EXTENDS Naturals, Sequences, FiniteSets

CONSTANTS
  SessionIds,      \* the sids in use
  Handles,         \* the random nonzero 64-bit handles; never compared
  MaxObjects,      \* MAX_SESSION_OBJECTS, 64 in the code
  Grants,          \* capabilities sessions have, as far as they matter here
  PersistentKeys,  \* records: type, capabilities, usable, size
  FlagSets,        \* flags hosts ask for in generated keys
  Headers,         \* flags, kind and length hosts ask for in derived values
  Lengths,         \* lengths of the data hosts append
  MaxMade,         \* bound: values created
  MaxOpened        \* bound: sessions opened

Flags == {"READABLE", "DERIVE", "VERIFY"}

\* usable: visible in the sessions' domains and its algorithm enabled.
\* size: bytes of the key, or of the secret it agrees on.
ASSUME SessionObjectsAssumption ==
  /\ MaxObjects \in Nat /\ MaxMade \in Nat /\ MaxOpened \in Nat
  /\ Grants \subseteq SUBSET {"DeriveEcdh", "EncryptEcb"}
  /\ FlagSets \subseteq SUBSET Flags
  /\ Headers \subseteq (SUBSET Flags) \X {"GenericSecret", "Aes"} \X Nat
  /\ Lengths \subseteq Nat
  /\ \A key \in PersistentKeys :
       /\ key.type \in {"asymmetric", "symmetric"}
       /\ key.capabilities \subseteq {"DeriveEcdh", "EncryptEcb"}
       /\ key.usable \in BOOLEAN
       /\ key.size \in Nat

VARIABLES
  table,     \* sid -> [owner, capabilities, objects : handle -> value]
  opened,    \* sessions opened so far; the n-th one is owner n
  made,      \* value -> how it was made
  released   \* history: values that Read returned

vars == <<table, opened, made, released>>

AesLengths == {16, 24, 32}
Agreement == 32        \* bytes of a P-256 agreement

Init ==
  /\ table = [sid \in {} |-> {}]
  /\ opened = 0
  /\ made = << >>
  /\ released = {}

-----------------------------------------------------------------------------
(* The session around the objects *)

\* SessionEntry with SessionObjects::default().
Open(sid, capabilities) ==
  /\ sid \in SessionIds \ DOMAIN table
  /\ opened < MaxOpened
  /\ opened' = opened + 1
  /\ table' = [s \in DOMAIN table \cup {sid} |->
       IF s = sid THEN [ owner        |-> opened + 1,
                         capabilities |-> capabilities,
                         objects      |-> [h \in {} |-> 0] ]
                  ELSE table[s]]
  /\ UNCHANGED <<made, released>>

\* Close, timeout, reset, or a frame that does not verify.
End(sid) ==
  /\ sid \in DOMAIN table
  /\ table' = [s \in DOMAIN table \ {sid} |-> table[s]]
  /\ UNCHANGED <<opened, made, released>>

Objects(sid) == table[sid].objects

Value(sid, handle) == made[Objects(sid)[handle]]

HasRoom(sid) == Cardinality(DOMAIN Objects(sid)) < MaxObjects

FreeHandles(sid) == Handles \ DOMAIN Objects(sid)

\* SessionObjects::insert: the limit, then a handle not in use.
Insert(sid, value) ==
  /\ Len(made) < MaxMade
  /\ HasRoom(sid)
  /\ made' = Append(made, value)
  /\ \E handle \in FreeHandles(sid) :
       table' = [table EXCEPT ![sid].objects =
         [h \in DOMAIN @ \cup {handle} |->
            IF h = handle THEN Len(made) + 1 ELSE @[h]]]
  /\ UNCHANGED <<opened, released>>

-----------------------------------------------------------------------------
(* Creation *)

\* The header of a derived object has an output length of 1 to 1024.
ResultHeaders == {header \in Headers : header[3] \in 1..1024}

\* Only P-256, and the DERIVE flag must be among the ones asked for.
GenerateAsymmetricKey(sid, flags) ==
  /\ sid \in DOMAIN table
  /\ "DERIVE" \in flags
  /\ Insert(sid, [ owner |-> table[sid].owner, kind |-> "P256Private",
                   flags |-> flags, asked |-> 0, length |-> 0,
                   values |-> {}, roots |-> {} ])

\* SessionObject::secret over the bytes that were there to take: the length a
\* header asks for, or all that is available when that is less.
InsertSecret(sid, header, available, values, keys) ==
  LET flags  == header[1]
      kind   == header[2]
      asked  == header[3]
      length == IF asked <= available THEN asked ELSE available IN
  /\ kind = "Aes" => length \in AesLengths
  /\ Insert(sid, [ owner |-> table[sid].owner, kind |-> kind,
                   flags |-> flags, asked |-> asked, length |-> length,
                   values |-> values,
                   roots |-> keys \cup UNION {made[v].roots : v \in values} ])

\* Mutant: the flag of the source is not looked at.
AnyDerivable(sid, handle) == handle \in DOMAIN Objects(sid)

\* The common part of session_derivation_secret and the volatile ECDH source.
Derivable(sid, handle) ==
  /\ handle \in DOMAIN Objects(sid)
  /\ "DERIVE" \in Value(sid, handle).flags

\* session_derivation_secret: a private key has no secret value.
DerivationSecret(sid, handle) ==
  /\ Derivable(sid, handle)
  /\ Value(sid, handle).kind # "P256Private"

\* Mutant: the key's capability alone decides.
KeyAuthorizes(sid, key, type, capability) ==
  key.type = type /\ key.usable /\ capability \in key.capabilities

\* authorize_use of a persistent source: both the session and the key.
AuthorizedKey(sid, key, type, capability) ==
  /\ key.type = type
  /\ key.usable
  /\ capability \in table[sid].capabilities \cap key.capabilities

DeriveEcdh(sid, header) ==
  /\ sid \in DOMAIN table
  /\ \/ \E key \in PersistentKeys :
          /\ AuthorizedKey(sid, key, "asymmetric", "DeriveEcdh")
          /\ header[3] <= key.size
          /\ InsertSecret(sid, header, key.size, {}, {key})
     \/ \E handle \in DOMAIN Objects(sid) :
          /\ Derivable(sid, handle)
          /\ Value(sid, handle).kind = "P256Private"
          /\ header[3] <= Agreement
          /\ InsertSecret(sid, header, Agreement, {Objects(sid)[handle]}, {})

\* Mutant: the result may be shorter than asked for.
FitsOrTruncates(asked, available) == TRUE

Fits(asked, available) == asked <= available

\* Mutant: the second handle is looked up in every session.
ConcatenateForeignKey(sid, header) ==
  /\ sid \in DOMAIN table
  /\ \E left \in DOMAIN Objects(sid), other \in DOMAIN table :
       \E right \in DOMAIN Objects(other) :
         LET available == Value(sid, left).length + Value(other, right).length IN
         /\ DerivationSecret(sid, left)
         /\ DerivationSecret(other, right)
         /\ Fits(header[3], available)
         /\ InsertSecret(sid, header, available,
                         {Objects(sid)[left], Objects(other)[right]}, {})

ConcatenateKey(sid, header) ==
  /\ sid \in DOMAIN table
  /\ \E left, right \in DOMAIN Objects(sid) :
       LET available == Value(sid, left).length + Value(sid, right).length IN
       /\ DerivationSecret(sid, left)
       /\ DerivationSecret(sid, right)
       /\ Fits(header[3], available)
       /\ InsertSecret(sid, header, available,
                       {Objects(sid)[left], Objects(sid)[right]}, {})

ConcatenateData(sid, header, data) ==
  /\ sid \in DOMAIN table
  /\ \E base \in DOMAIN Objects(sid) :
       LET available == Value(sid, base).length + data IN
       /\ DerivationSecret(sid, base)
       /\ Fits(header[3], available)
       /\ InsertSecret(sid, header, available, {Objects(sid)[base]}, {})

\* Any offset within the base: the bytes are taken cyclically.
Extract(sid, header) ==
  /\ sid \in DOMAIN table
  /\ \E base \in DOMAIN Objects(sid) :
       /\ DerivationSecret(sid, base)
       /\ Fits(header[3], Value(sid, base).length)
       /\ InsertSecret(sid, header, Value(sid, base).length,
                       {Objects(sid)[base]}, {})

Sha256(sid, header) ==
  /\ sid \in DOMAIN table
  /\ \E base \in DOMAIN Objects(sid) :
       /\ DerivationSecret(sid, base)
       /\ Fits(header[3], 32)
       /\ InsertSecret(sid, header, 32, {Objects(sid)[base]}, {})

\* AES-CMAC in counter mode gives as many bytes as are asked for; its key
\* must have an AES key's length.
CounterKdf(sid, header) ==
  /\ sid \in DOMAIN table
  /\ \/ \E key \in PersistentKeys :
          /\ AuthorizedKey(sid, key, "symmetric", "EncryptEcb")
          /\ InsertSecret(sid, header, header[3], {}, {key})
     \/ \E source \in DOMAIN Objects(sid) :
          /\ DerivationSecret(sid, source)
          /\ Value(sid, source).length \in AesLengths
          /\ InsertSecret(sid, header, header[3], {Objects(sid)[source]}, {})

-----------------------------------------------------------------------------
(* Use *)

\* read_session_object: the flag, and a secret value to return.
Readable(sid, handle) ==
  /\ "READABLE" \in Value(sid, handle).flags
  /\ Value(sid, handle).kind # "P256Private"

Read(sid, handle) ==
  /\ sid \in DOMAIN table
  /\ handle \in DOMAIN Objects(sid)
  /\ Readable(sid, handle)
  /\ released' = released \cup {Objects(sid)[handle]}
  /\ UNCHANGED <<table, opened, made>>

\* The owning session and the handle are enough.
Delete(sid, handle) ==
  /\ sid \in DOMAIN table
  /\ handle \in DOMAIN Objects(sid)
  /\ table' = [table EXCEPT ![sid].objects =
                 [h \in DOMAIN @ \ {handle} |-> @[h]]]
  /\ UNCHANGED <<opened, made, released>>

Create(sid) ==
  \/ \E flags \in FlagSets : GenerateAsymmetricKey(sid, flags)
  \/ \E header \in ResultHeaders :
       \/ DeriveEcdh(sid, header)
       \/ ConcatenateKey(sid, header)
       \/ \E data \in Lengths : ConcatenateData(sid, header, data)
       \/ Extract(sid, header)
       \/ Sha256(sid, header)
       \/ CounterKdf(sid, header)

Next ==
  \E sid \in SessionIds :
    \/ \E capabilities \in Grants : Open(sid, capabilities)
    \/ End(sid)
    \/ Create(sid)
    \/ \E handle \in Handles : Read(sid, handle) \/ Delete(sid, handle)

Spec == Init /\ [][Next]_vars

-----------------------------------------------------------------------------
(* Properties *)

\* Types, and the 64-object limit of a session; part of ObjectsAreWhole.
TypeOK ==
  /\ DOMAIN table \subseteq SessionIds
  /\ opened \in 0..MaxOpened
  /\ \A sid \in DOMAIN table :
       /\ table[sid].owner \in 1..opened
       /\ DOMAIN Objects(sid) \subseteq Handles
       /\ Cardinality(DOMAIN Objects(sid)) <= MaxObjects
       /\ \A h \in DOMAIN Objects(sid) : Objects(sid)[h] \in 1..Len(made)
  /\ released \subseteq 1..Len(made)

\* A value that was created neither readable nor derivable never leaves: it
\* is not returned by Read and no other value is computed from it, directly or
\* over other values, even after handles were deleted and drawn again.
SealedValuesStay ==
  \A sealed \in 1..Len(made) :
    made[sealed].flags \cap {"READABLE", "DERIVE"} = {} =>
      /\ sealed \notin released
      /\ \A value \in 1..Len(made) : sealed \notin made[value].values

\* Objects are valid in the session that made them and in no other, also not
\* in a later session with the same sid, and are computed only from values of
\* that session (SessionEntry owns its SessionObjects).
ObjectsStayInSession ==
  /\ \A sid \in DOMAIN table : \A h \in DOMAIN Objects(sid) :
       Value(sid, h).owner = table[sid].owner
  /\ \A value \in 1..Len(made) : \A source \in made[value].values :
       made[source].owner = made[value].owner

\* A session never exceeds its limit, every object has exactly the length its
\* header asked for, however short its sources, and an AES key has an AES
\* key's length (insert, and the checks before SessionObject::secret).
ObjectsAreWhole ==
  /\ TypeOK
  /\ \A value \in 1..Len(made) :
    /\ made[value].length = made[value].asked
    /\ made[value].kind = "Aes" => made[value].length \in AesLengths

\* What a persistent key needs to be a source, by its type.
SourceCapability(key) ==
  IF key.type = "asymmetric" THEN "DeriveEcdh" ELSE "EncryptEcb"

\* Whatever a session holds, over however many derivations, descends only
\* from persistent keys for which the session and the key itself both had the
\* capability of the derivation that used them, whatever else they may do
\* (authorize_use in session_object_command).
RootsWereAuthorized ==
  \A sid \in DOMAIN table : \A h \in DOMAIN Objects(sid) :
    \A key \in Value(sid, h).roots :
      /\ key.usable
      /\ SourceCapability(key) \in key.capabilities \cap table[sid].capabilities

=============================================================================

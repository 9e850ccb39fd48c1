------------------------ MODULE SessionObjectsProofs ------------------------
(***************************************************************************)
(* Theorems about SessionObjects.tla, for every number of sessions,        *)
(* handles, objects and derivations.                                       *)
(*                                                                         *)
(* The six derivations and the key generation differ in where the bytes    *)
(* come from; for the invariants they are one step, the insertion of a     *)
(* value that is sound in its session (CreateInserts).  The inductive      *)
(* invariant says that every value was sound when it was made, that what   *)
(* a session holds is its own and descends from keys it was allowed to     *)
(* use, and that only readable values were returned.                       *)
(***************************************************************************)
EXTENDS SessionObjects, FiniteSetTheorems, TLAPS

-----------------------------------------------------------------------------
(* The inductive invariant *)

Kinds == {"P256Private", "GenericSecret", "Aes"}

MadeValues ==
  [ owner : Nat, kind : Kinds, flags : SUBSET Flags, asked : Nat, length : Nat,
    values : SUBSET Nat, roots : SUBSET PersistentKeys ]

\* The bytes of a value are as many as asked for, and an AES key's many.
Whole(value) ==
  /\ value.length = value.asked
  /\ value.kind = "Aes" => value.length \in AesLengths

\* A value is computed only from earlier derivable values of its owner.
SoundSources(value) ==
  \A source \in value.values :
    /\ source \in 1..Len(made)
    /\ "DERIVE" \in made[source].flags
    /\ made[source].owner = value.owner

Permits(capabilities, key) ==
  key.usable /\ SourceCapability(key) \in key.capabilities \cap capabilities

MadeInv ==
  /\ made \in Seq(MadeValues)
  /\ \A n \in 1..Len(made) : Whole(made[n]) /\ SoundSources(made[n])

\* An entry of the session table and the objects it holds.
Entry(sid) ==
  /\ table[sid] \in [ owner : 1..opened,
                      capabilities : SUBSET {"DeriveEcdh", "EncryptEcb"},
                      objects : {table[sid].objects} ]
  /\ DOMAIN Objects(sid) \subseteq Handles
  /\ IsFiniteSet(DOMAIN Objects(sid))
  /\ Cardinality(DOMAIN Objects(sid)) <= MaxObjects

Holds(sid) ==
  \A h \in DOMAIN Objects(sid) :
    /\ Objects(sid)[h] \in 1..Len(made)
    /\ Value(sid, h).owner = table[sid].owner
    /\ \A key \in Value(sid, h).roots : Permits(table[sid].capabilities, key)

TableInv ==
  /\ DOMAIN table \subseteq SessionIds
  /\ opened \in 0..MaxOpened
  /\ \A sid \in DOMAIN table : Entry(sid) /\ Holds(sid)

ReleasedInv ==
  \A value \in released :
    value \in 1..Len(made) /\ "READABLE" \in made[value].flags

Inv == MadeInv /\ TableInv /\ ReleasedInv

-----------------------------------------------------------------------------
(* Every creation inserts one sound value *)

\* What a session may add to its objects.
Sound(sid, value) ==
  /\ value \in MadeValues
  /\ Whole(value)
  /\ SoundSources(value)
  /\ value.owner = table[sid].owner
  /\ \A key \in value.roots : Permits(table[sid].capabilities, key)

\* The values of a session that it may compute from.
Sources(sid) ==
  {Objects(sid)[h] : h \in {g \in DOMAIN Objects(sid) :
                              "DERIVE" \in Value(sid, g).flags}}

\* SessionObject::secret makes a sound value of derivable sources and
\* authorized keys, when the bytes it takes are there.
LEMMA InsertSecretIsSound ==
  ASSUME Inv, NEW sid \in DOMAIN table, NEW header \in ResultHeaders,
         NEW available \in Nat, header[3] <= available,
         NEW values, \A v \in values : v \in Sources(sid),
         NEW keys, \A key \in keys : key \in PersistentKeys
                                     /\ Permits(table[sid].capabilities, key),
         InsertSecret(sid, header, available, values, keys)
  PROVE  \E value : Sound(sid, value) /\ Insert(sid, value)
<1> DEFINE roots == keys \cup UNION {made[v].roots : v \in values}
           value == [ owner |-> table[sid].owner, kind |-> header[2],
                      flags |-> header[1], asked |-> header[3],
                      length |-> header[3], values |-> values,
                      roots |-> roots ]
<1>1. /\ header[1] \in SUBSET Flags
      /\ header[2] \in {"GenericSecret", "Aes"}
      /\ header[3] \in Nat
  BY SessionObjectsAssumption DEF ResultHeaders, SessionObjectsAssumption
<1>2. \A v \in values :
        /\ v \in 1..Len(made)
        /\ made[v] \in MadeValues
        /\ "DERIVE" \in made[v].flags
        /\ made[v].owner = table[sid].owner
        /\ \A key \in made[v].roots : Permits(table[sid].capabilities, key)
  BY DEF Inv, TableInv, MadeInv, Holds, Value, Sources
<1>3. values \subseteq Nat
  BY <1>2
<1>4. \A key \in roots :
        key \in PersistentKeys /\ Permits(table[sid].capabilities, key)
  BY <1>2 DEF MadeValues
<1>5. table[sid].owner \in Nat
  BY DEF Inv, TableInv, Entry
<1>6. value \in MadeValues
  BY <1>1, <1>3, <1>4, <1>5 DEF MadeValues, Kinds
<1>7. header[2] = "Aes" => header[3] \in AesLengths
  BY DEF InsertSecret
<1>8. Insert(sid, value)
  BY DEF InsertSecret
<1>9. SoundSources(value)
  BY <1>2 DEF SoundSources
<1>10. Sound(sid, value)
  BY <1>4, <1>6, <1>7, <1>9 DEF Sound, Whole
<1> QED  BY <1>8, <1>10

\* Facts about the sources a command may take.
LEMMA SourceFacts ==
  ASSUME Inv, NEW sid \in DOMAIN table, NEW handle \in DOMAIN Objects(sid)
  PROVE  /\ Value(sid, handle).length \in Nat
         /\ DerivationSecret(sid, handle) => "DERIVE" \in Value(sid, handle).flags
<1>1. Value(sid, handle) \in MadeValues
  BY DEF Inv, TableInv, MadeInv, Holds, Value
<1> QED  BY <1>1 DEF MadeValues, DerivationSecret, Derivable

\* A persistent source passed authorize_use, so its use is permitted.
LEMMA AuthorizedIsPermitted ==
  ASSUME NEW sid, NEW key \in PersistentKeys,
         \/ AuthorizedKey(sid, key, "asymmetric", "DeriveEcdh")
         \/ AuthorizedKey(sid, key, "symmetric", "EncryptEcb")
  PROVE  Permits(table[sid].capabilities, key)
BY DEF AuthorizedKey, Permits, SourceCapability

\* Every form of the SessionObject command that creates inserts a sound value.
LEMMA CreateInserts ==
  ASSUME Inv, NEW sid \in SessionIds, Create(sid)
  PROVE  /\ sid \in DOMAIN table
         /\ \E value : Sound(sid, value) /\ Insert(sid, value)
<1>0. \A key \in PersistentKeys : key.size \in Nat
  BY SessionObjectsAssumption DEF SessionObjectsAssumption
<1>1. ASSUME NEW flags \in FlagSets, GenerateAsymmetricKey(sid, flags)
      PROVE  /\ sid \in DOMAIN table
             /\ \E value : Sound(sid, value) /\ Insert(sid, value)
  <2> DEFINE value == [ owner |-> table[sid].owner, kind |-> "P256Private",
                        flags |-> flags, asked |-> 0, length |-> 0,
                        values |-> {}, roots |-> {} ]
  <2>1. sid \in DOMAIN table /\ Insert(sid, value)
    BY <1>1 DEF GenerateAsymmetricKey
  <2>2. table[sid].owner \in Nat
    BY <2>1 DEF Inv, TableInv, Entry
  <2>3. flags \in SUBSET Flags
    BY SessionObjectsAssumption DEF SessionObjectsAssumption
  <2>4. value \in MadeValues
    BY <2>2, <2>3 DEF MadeValues, Kinds
  <2>5. Whole(value) /\ SoundSources(value)
    BY DEF Whole, SoundSources
  <2>6. Sound(sid, value)
    BY <2>4, <2>5 DEF Sound
  <2> QED  BY <2>1, <2>6
<1>2. ASSUME NEW header \in ResultHeaders,
             \/ DeriveEcdh(sid, header)
             \/ ConcatenateKey(sid, header)
             \/ \E data \in Lengths : ConcatenateData(sid, header, data)
             \/ Extract(sid, header)
             \/ Sha256(sid, header)
             \/ CounterKdf(sid, header)
      PROVE  /\ sid \in DOMAIN table
             /\ \E value : Sound(sid, value) /\ Insert(sid, value)
  <2>0. sid \in DOMAIN table
    BY <1>2 DEF DeriveEcdh, ConcatenateKey, ConcatenateData, Extract, Sha256,
                CounterKdf
  <2> DEFINE Goal == \E value : Sound(sid, value) /\ Insert(sid, value)
  <2> SUFFICES Goal
    BY <2>0
  <2>1. header[3] \in Nat
    BY SessionObjectsAssumption DEF ResultHeaders, SessionObjectsAssumption
  \* A value computed from one held object.
  <2>2. ASSUME NEW handle \in DOMAIN Objects(sid), NEW available \in Nat,
               header[3] <= available, "DERIVE" \in Value(sid, handle).flags,
               InsertSecret(sid, header, available, {Objects(sid)[handle]}, {})
        PROVE  Goal
    <3>1. \A v \in {Objects(sid)[handle]} : v \in Sources(sid)
      BY <2>2 DEF Sources
    <3> QED  BY <2>0, <2>2, <3>1, InsertSecretIsSound
  \* A value computed from one persistent key.
  <2>3. ASSUME NEW key \in PersistentKeys, NEW available \in Nat,
               header[3] <= available, Permits(table[sid].capabilities, key),
               InsertSecret(sid, header, available, {}, {key})
        PROVE  Goal
    BY <2>0, <2>3, InsertSecretIsSound
  <2> HIDE DEF Goal
  <2>4. CASE DeriveEcdh(sid, header)
    <3>1. ASSUME NEW key \in PersistentKeys,
                 AuthorizedKey(sid, key, "asymmetric", "DeriveEcdh"),
                 header[3] <= key.size,
                 InsertSecret(sid, header, key.size, {}, {key})
          PROVE  Goal
      BY <1>0, <2>3, <3>1, AuthorizedIsPermitted
    <3>2. ASSUME NEW handle \in DOMAIN Objects(sid), Derivable(sid, handle),
                 header[3] <= Agreement,
                 InsertSecret(sid, header, Agreement, {Objects(sid)[handle]}, {})
          PROVE  Goal
      <4>1. Agreement \in Nat /\ "DERIVE" \in Value(sid, handle).flags
        BY <3>2 DEF Agreement, Derivable
      <4> QED  BY <2>2, <3>2, <4>1
    <3> QED  BY <2>4, <3>1, <3>2 DEF DeriveEcdh
  <2>5. CASE ConcatenateKey(sid, header)
    <3>1. PICK left, right \in DOMAIN Objects(sid) :
            LET available == Value(sid, left).length + Value(sid, right).length
            IN  /\ DerivationSecret(sid, left)
                /\ DerivationSecret(sid, right)
                /\ Fits(header[3], available)
                /\ InsertSecret(sid, header, available,
                     {Objects(sid)[left], Objects(sid)[right]}, {})
      BY <2>5 DEF ConcatenateKey
    <3> DEFINE available == Value(sid, left).length + Value(sid, right).length
    <3>2. /\ Value(sid, left).length \in Nat
          /\ Value(sid, right).length \in Nat
          /\ \A h \in {left, right} : "DERIVE" \in Value(sid, h).flags
      BY <2>0, <3>1, SourceFacts
    <3>3. available \in Nat /\ header[3] <= available
      BY <3>1, <3>2 DEF Fits
    <3>4. \A v \in {Objects(sid)[left], Objects(sid)[right]} : v \in Sources(sid)
      BY <3>2 DEF Sources
    <3>5. InsertSecret(sid, header, available,
                       {Objects(sid)[left], Objects(sid)[right]}, {})
      BY <3>1
    <3> HIDE DEF available
    <3> QED  BY <2>0, <3>3, <3>4, <3>5, InsertSecretIsSound DEF Goal
  <2>6. ASSUME NEW data \in Lengths, ConcatenateData(sid, header, data)
        PROVE  Goal
    <3>1. PICK base \in DOMAIN Objects(sid) :
            LET available == Value(sid, base).length + data
            IN  /\ DerivationSecret(sid, base)
                /\ Fits(header[3], available)
                /\ InsertSecret(sid, header, available, {Objects(sid)[base]}, {})
      BY <2>6 DEF ConcatenateData
    <3>2. data \in Nat
      BY SessionObjectsAssumption DEF SessionObjectsAssumption
    <3>3. /\ Value(sid, base).length + data \in Nat
          /\ "DERIVE" \in Value(sid, base).flags
      BY <2>0, <3>1, <3>2, SourceFacts
    <3> QED  BY <2>2, <3>1, <3>3 DEF Fits
  <2>7. CASE Extract(sid, header)
    BY <2>0, <2>2, <2>7, SourceFacts DEF Extract, Fits
  <2>8. CASE Sha256(sid, header)
    <3>1. 32 \in Nat
      OBVIOUS
    <3> QED  BY <2>0, <2>2, <2>8, <3>1, SourceFacts DEF Sha256, Fits
  <2>9. CASE CounterKdf(sid, header)
    <3>1. header[3] <= header[3]
      BY <2>1
    <3> QED  BY <2>0, <2>1, <2>2, <2>3, <2>9, <3>1, SourceFacts,
                AuthorizedIsPermitted DEF CounterKdf
  <2> QED  BY <1>2, <2>4, <2>5, <2>6, <2>7, <2>8, <2>9
<1> QED  BY <1>1, <1>2 DEF Create

-----------------------------------------------------------------------------
(* The invariant is inductive *)

\* The values made stay as they are; one more is made after its sources.
LEMMA InsertKeepsMade ==
  ASSUME Inv, NEW sid \in DOMAIN table, NEW value, Sound(sid, value),
         Insert(sid, value)
  PROVE  /\ MadeInv'
         /\ Len(made) \in Nat /\ Len(made') = Len(made) + 1
         /\ \A n \in 1..Len(made) : made'[n] = made[n]
         /\ made'[Len(made) + 1] = value
<1>1. /\ made \in Seq(MadeValues)
      /\ value \in MadeValues
      /\ made' = Append(made, value)
  BY DEF Inv, MadeInv, Sound, Insert
<1>2. /\ made' \in Seq(MadeValues)
      /\ Len(made) \in Nat /\ Len(made') = Len(made) + 1
      /\ \A n \in 1..Len(made) : made'[n] = made[n]
      /\ made'[Len(made) + 1] = value
  BY <1>1
<1>3. \A v : SoundSources(v) => SoundSources(v)'
  BY <1>2 DEF SoundSources
<1>4. \A n \in 1..Len(made) : SoundSources(made[n]) /\ Whole(made[n])
  BY DEF Inv, MadeInv
<1>5. SoundSources(value) /\ Whole(value)
  BY DEF Sound
<1>6. \A n \in 1..Len(made') : SoundSources(made[n])' /\ Whole(made'[n])
  BY <1>2, <1>3, <1>4, <1>5
<1> QED  BY <1>2, <1>6 DEF MadeInv, Whole

\* The session gains one handle, within its limit; nobody else's table changes.
LEMMA InsertKeepsTable ==
  ASSUME Inv, NEW sid \in DOMAIN table, NEW value, Sound(sid, value),
         Insert(sid, value)
  PROVE  TableInv'
<1>1. /\ Len(made) \in Nat /\ Len(made') = Len(made) + 1
      /\ \A n \in 1..Len(made) : made'[n] = made[n]
      /\ made'[Len(made) + 1] = value
  BY InsertKeepsMade
<1>2. PICK handle \in FreeHandles(sid) :
        table' = [table EXCEPT ![sid].objects =
                    [h \in DOMAIN @ \cup {handle} |->
                       IF h = handle THEN Len(made) + 1 ELSE @[h]]]
  BY DEF Insert
<1> DEFINE grown == [h \in DOMAIN Objects(sid) \cup {handle} |->
                       IF h = handle THEN Len(made) + 1 ELSE Objects(sid)[h]]
<1>3. /\ DOMAIN table' = DOMAIN table
      /\ \A s \in DOMAIN table : s # sid => table'[s] = table[s]
      /\ table'[sid] = [table[sid] EXCEPT !.objects = grown]
  BY <1>2 DEF Objects
<1>4. /\ Entry(sid) /\ Holds(sid)
      /\ opened \in 0..MaxOpened /\ opened' = opened
  BY DEF Inv, TableInv, Insert
<1>5. /\ table'[sid].owner = table[sid].owner
      /\ table'[sid].capabilities = table[sid].capabilities
      /\ table'[sid].objects = grown
      /\ table'[sid] \in [ owner : 1..opened,
                           capabilities : SUBSET {"DeriveEcdh", "EncryptEcb"},
                           objects : {table'[sid].objects} ]
  BY <1>3, <1>4 DEF Entry
<1>6. ASSUME NEW s \in DOMAIN table, s # sid
      PROVE  Entry(s)' /\ Holds(s)'
  <2>1. table'[s] = table[s] /\ Entry(s) /\ Holds(s)
    BY <1>3, <1>6 DEF Inv, TableInv
  <2>2. Entry(s)'
    BY <1>4, <2>1 DEF Entry, Objects
  <2>3. Holds(s)'
    BY <1>1, <2>1 DEF Holds, Objects, Value
  <2> QED  BY <2>2, <2>3
<1>7. Entry(sid)'
  <2>1. /\ handle \in Handles /\ handle \notin DOMAIN Objects(sid)
        /\ IsFiniteSet(DOMAIN Objects(sid))
        /\ Cardinality(DOMAIN Objects(sid)) < MaxObjects
    BY <1>4 DEF FreeHandles, Entry, Insert, HasRoom
  <2>2. /\ IsFiniteSet(DOMAIN Objects(sid) \cup {handle})
        /\ Cardinality(DOMAIN Objects(sid) \cup {handle})
             = Cardinality(DOMAIN Objects(sid)) + 1
        /\ Cardinality(DOMAIN Objects(sid)) \in Nat
    BY <2>1, FS_AddElement, FS_CardinalityType
  <2>3. Objects(sid)' = grown /\ DOMAIN grown = DOMAIN Objects(sid) \cup {handle}
    BY <1>5 DEF Objects
  <2>4. MaxObjects \in Nat
    BY SessionObjectsAssumption DEF SessionObjectsAssumption
  <2>5. Cardinality(DOMAIN grown) <= MaxObjects
    BY <2>1, <2>2, <2>3, <2>4
  <2> HIDE DEF grown
  <2> QED  BY <1>4, <1>5, <2>1, <2>2, <2>3, <2>5 DEF Entry
<1>8. Holds(sid)'
  <2>1. Objects(sid)' = grown
    BY <1>5 DEF Objects
  <2> SUFFICES ASSUME NEW h \in DOMAIN grown
               PROVE  /\ grown[h] \in 1..Len(made')
                      /\ made'[grown[h]].owner = table'[sid].owner
                      /\ \A key \in made'[grown[h]].roots :
                           Permits(table'[sid].capabilities, key)
    BY <2>1 DEF Holds, Value, Permits
  <2>2. CASE h = handle
    BY <1>1, <1>5, <2>2 DEF Sound
  <2>3. CASE h # handle
    BY <1>1, <1>4, <1>5, <2>3 DEF Holds, Value
  <2> QED  BY <2>2, <2>3
<1> QED  BY <1>3, <1>4, <1>6, <1>7, <1>8 DEF Inv, TableInv

\* A session opens with no objects.
LEMMA OpenKeeps ==
  ASSUME Inv, NEW sid \in SessionIds,
         NEW capabilities \in SUBSET {"DeriveEcdh", "EncryptEcb"},
         Open(sid, capabilities)
  PROVE  TableInv'
<1>1. MaxOpened \in Nat /\ MaxObjects \in Nat
  BY SessionObjectsAssumption DEF SessionObjectsAssumption
<1>2. /\ DOMAIN table' = DOMAIN table \cup {sid}
      /\ table'[sid] = [ owner |-> opened + 1, capabilities |-> capabilities,
                         objects |-> [h \in {} |-> 0] ]
      /\ \A s \in DOMAIN table : table'[s] = table[s]
      /\ opened \in 0..MaxOpened /\ opened' = opened + 1
      /\ opened' \in 0..MaxOpened
      /\ made' = made
  BY <1>1 DEF Open, Inv, TableInv
<1>3. ASSUME NEW s \in DOMAIN table
      PROVE  Entry(s)' /\ Holds(s)'
  <2>1. table'[s] = table[s] /\ Entry(s) /\ Holds(s)
    BY <1>2 DEF Inv, TableInv
  <2>2. \A n \in 1..opened : n \in 1..opened'
    BY <1>2
  <2>3. Entry(s)'
    BY <2>1, <2>2 DEF Entry, Objects
  <2>4. Holds(s)'
    BY <1>2, <2>1 DEF Holds, Objects, Value
  <2> QED  BY <2>3, <2>4
<1>4. Entry(sid)' /\ Holds(sid)'
  <2>1. DOMAIN Objects(sid)' = {}
    BY <1>2 DEF Objects
  <2>2. IsFiniteSet({}) /\ Cardinality({}) = 0
    BY FS_EmptySet
  <2>3. opened + 1 \in 1..opened'
    BY <1>2
  <2>4. table'[sid] \in [ owner : 1..opened',
                          capabilities : SUBSET {"DeriveEcdh", "EncryptEcb"},
                          objects : {table'[sid].objects} ]
    BY <1>2, <2>3
  <2> QED  BY <1>1, <2>1, <2>2, <2>4 DEF Entry, Holds
<1> QED  BY <1>2, <1>3, <1>4 DEF Inv, TableInv

\* A session that ends takes its entry along.
LEMMA EndKeeps ==
  ASSUME Inv, NEW sid \in SessionIds, End(sid)
  PROVE  TableInv'
<1>1. /\ DOMAIN table' = DOMAIN table \ {sid}
      /\ \A s \in DOMAIN table' : table'[s] = table[s]
      /\ opened' = opened /\ made' = made
  BY DEF End
<1>2. \A s \in DOMAIN table' : Entry(s) /\ Holds(s)
  BY <1>1 DEF Inv, TableInv
<1>3. \A s \in DOMAIN table' : Entry(s)' /\ Holds(s)'
  BY <1>1, <1>2 DEF Entry, Holds, Objects, Value
<1> QED  BY <1>1, <1>3 DEF Inv, TableInv

\* Deleting an object leaves the others with their values.
LEMMA DeleteKeeps ==
  ASSUME Inv, NEW sid \in SessionIds, NEW handle \in Handles,
         Delete(sid, handle)
  PROVE  TableInv'
<1> DEFINE left == [h \in DOMAIN Objects(sid) \ {handle} |-> Objects(sid)[h]]
<1>1. /\ sid \in DOMAIN table
      /\ DOMAIN table' = DOMAIN table
      /\ \A s \in DOMAIN table : s # sid => table'[s] = table[s]
      /\ table'[sid] = [table[sid] EXCEPT !.objects = left]
      /\ opened' = opened /\ made' = made
  BY DEF Delete, Objects
<1>2. \A s \in DOMAIN table : Entry(s) /\ Holds(s)
  BY DEF Inv, TableInv
<1>3. ASSUME NEW s \in DOMAIN table, s # sid
      PROVE  Entry(s)' /\ Holds(s)'
  BY <1>1, <1>2, <1>3 DEF Entry, Holds, Objects, Value
<1>4. /\ table'[sid].owner = table[sid].owner
      /\ table'[sid].capabilities = table[sid].capabilities
      /\ table'[sid].objects = left
      /\ table'[sid] \in [ owner : 1..opened,
                           capabilities : SUBSET {"DeriveEcdh", "EncryptEcb"},
                           objects : {table'[sid].objects} ]
  BY <1>1, <1>2 DEF Entry
<1>5. Entry(sid)'
  <2>1. IsFiniteSet(DOMAIN Objects(sid))
    BY <1>1, <1>2 DEF Entry
  <2>2. /\ DOMAIN Objects(sid)' \subseteq DOMAIN Objects(sid)
    BY <1>4 DEF Objects
  <2>3. /\ IsFiniteSet(DOMAIN Objects(sid)')
        /\ Cardinality(DOMAIN Objects(sid)') <= Cardinality(DOMAIN Objects(sid))
    BY <2>1, <2>2, FS_Subset
  <2>4. /\ Cardinality(DOMAIN Objects(sid)') \in Nat
        /\ Cardinality(DOMAIN Objects(sid)) \in Nat
        /\ MaxObjects \in Nat
    BY <2>1, <2>3, FS_CardinalityType, SessionObjectsAssumption
       DEF SessionObjectsAssumption
  <2>5. Cardinality(DOMAIN Objects(sid)) <= MaxObjects
    BY <1>1, <1>2 DEF Entry
  <2>6. Cardinality(DOMAIN Objects(sid)') <= MaxObjects
    BY <2>3, <2>4, <2>5
  <2>7. DOMAIN Objects(sid) \subseteq Handles
    BY <1>1, <1>2 DEF Entry
  <2> QED  BY <1>1, <1>4, <2>2, <2>3, <2>6, <2>7 DEF Entry
<1>6. Holds(sid)'
  BY <1>1, <1>2, <1>4 DEF Holds, Objects, Value
<1> QED  BY <1>1, <1>3, <1>5, <1>6 DEF Inv, TableInv

\* Every step of the specification keeps the invariant.
LEMMA NextKeepsInv ==
  ASSUME Inv, [Next]_vars
  PROVE  Inv'
<1>1. CASE UNCHANGED vars
  BY <1>1 DEF vars, Inv, MadeInv, TableInv, ReleasedInv, Whole, SoundSources,
              Entry, Holds, Permits, Objects, Value
<1>2. CASE Next
  <2>1. PICK sid \in SessionIds :
          \/ \E capabilities \in Grants : Open(sid, capabilities)
          \/ End(sid)
          \/ Create(sid)
          \/ \E handle \in Handles : Read(sid, handle) \/ Delete(sid, handle)
    BY <1>2 DEF Next
  <2>2. made' = made => MadeInv'
    BY DEF Inv, MadeInv, Whole, SoundSources
  <2>3. made' = made /\ released' = released => ReleasedInv'
    BY DEF Inv, ReleasedInv
  <2>4. ASSUME NEW capabilities \in Grants, Open(sid, capabilities)
        PROVE  Inv'
    <3>1. capabilities \in SUBSET {"DeriveEcdh", "EncryptEcb"}
      BY SessionObjectsAssumption DEF SessionObjectsAssumption
    <3> QED  BY <2>2, <2>3, <2>4, <3>1, OpenKeeps DEF Open, Inv
  <2>5. CASE End(sid)
    BY <2>2, <2>3, <2>5, EndKeeps DEF End, Inv
  <2>6. CASE Create(sid)
    <3>1. sid \in DOMAIN table
      BY <2>6, CreateInserts
    <3>2. PICK value : Sound(sid, value) /\ Insert(sid, value)
      BY <2>6, CreateInserts
    <3>3. MadeInv' /\ TableInv'
      BY <3>1, <3>2, InsertKeepsMade, InsertKeepsTable
    <3>4. /\ Len(made) \in Nat /\ Len(made') = Len(made) + 1
          /\ \A n \in 1..Len(made) : made'[n] = made[n]
      BY <3>1, <3>2, InsertKeepsMade
    <3>5. ReleasedInv'
      BY <3>2, <3>4 DEF Inv, ReleasedInv, Insert
    <3> QED  BY <3>3, <3>5 DEF Inv
  <2>7. ASSUME NEW handle \in Handles, Read(sid, handle)
        PROVE  Inv'
    <3>1. TableInv'
      BY <2>7 DEF Read, Inv, TableInv, Entry, Holds, Permits, Objects, Value
    <3>2. ReleasedInv'
      <4>1. /\ Objects(sid)[handle] \in 1..Len(made)
            /\ "READABLE" \in made[Objects(sid)[handle]].flags
        BY <2>7 DEF Read, Readable, Value, Inv, TableInv, Holds
      <4> QED  BY <2>7, <4>1 DEF Read, Inv, ReleasedInv
    <3> QED  BY <2>2, <2>7, <3>1, <3>2 DEF Read, Inv
  <2>8. ASSUME NEW handle \in Handles, Delete(sid, handle)
        PROVE  Inv'
    BY <2>2, <2>3, <2>8, DeleteKeeps DEF Delete, Inv
  <2> QED  BY <2>1, <2>4, <2>5, <2>6, <2>7, <2>8
<1> QED  BY <1>1, <1>2

\* The invariant holds in every reachable state.
LEMMA InvHolds == Spec => []Inv
<1>1. Init => Inv
  <2> SUFFICES ASSUME Init
               PROVE  Inv
    OBVIOUS
  <2>1. MaxOpened \in Nat
    BY SessionObjectsAssumption DEF SessionObjectsAssumption
  <2>2. MadeInv
    BY DEF Init, MadeInv
  <2>3. TableInv
    BY <2>1 DEF Init, TableInv
  <2>4. ReleasedInv
    BY DEF Init, ReleasedInv
  <2> QED  BY <2>2, <2>3, <2>4 DEF Inv
<1> QED  BY <1>1, NextKeepsInv, PTL DEF Spec

-----------------------------------------------------------------------------
(* The theorems *)

\* No session holds more objects than MAX_SESSION_OBJECTS, every object has
\* exactly the bytes its header asked for, and an AES key an AES key's length,
\* whatever was derived from whatever (insert, SessionObject::secret and the
\* length checks before it).
THEOREM ObjectsWhole == Spec => []ObjectsAreWhole
<1>1. Inv => ObjectsAreWhole
  <2> SUFFICES ASSUME Inv
               PROVE  ObjectsAreWhole
    OBVIOUS
  <2>1. TypeOK
    BY DEF TypeOK, Inv, TableInv, ReleasedInv, Entry, Holds
  <2> QED  BY <2>1 DEF ObjectsAreWhole, Inv, MadeInv, Whole
<1> QED  BY <1>1, InvHolds, PTL

\* A value made neither readable nor derivable is never returned and nothing
\* is ever computed from it, however handles are deleted and drawn again
\* (read_session_object and session_derivation_secret look at the flags of the
\* object the handle names now).
THEOREM SealedStays == Spec => []SealedValuesStay
<1>1. Inv => SealedValuesStay
  BY DEF SealedValuesStay, Inv, MadeInv, ReleasedInv, SoundSources
<1> QED  BY <1>1, InvHolds, PTL

\* Objects belong to the session that made them, not to a later one with the
\* same sid, and so does everything they were computed from (the session table
\* owns the objects of its entries).
THEOREM ObjectsStay == Spec => []ObjectsStayInSession
<1>1. Inv => ObjectsStayInSession
  BY DEF ObjectsStayInSession, Inv, MadeInv, TableInv, Holds, SoundSources
<1> QED  BY <1>1, InvHolds, PTL

\* Over any number of derivations a session's objects descend only from
\* persistent keys that it and they allowed to be used (authorize_use).
THEOREM RootsAuthorized == Spec => []RootsWereAuthorized
<1>1. Inv => RootsWereAuthorized
  BY DEF RootsWereAuthorized, Inv, TableInv, Holds, Permits
<1> QED  BY <1>1, InvHolds, PTL

=============================================================================

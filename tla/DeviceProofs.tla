---------------------------- MODULE DeviceProofs ----------------------------
(***************************************************************************)
(* Theorems about Device.tla, for every value of its constants.            *)
(*                                                                         *)
(* The proofs go through one description of what a step does to the store  *)
(* (StoreStep): it writes one object below the ceiling of a live session,  *)
(* rewrites one in place, deletes one, resets the device, or leaves the    *)
(* store alone.  Each action is shown to take such a step once, and the    *)
(* properties of the store are proved from that.                           *)
(*                                                                         *)
(* FrameStep does the same for the audit log, the options and the session  *)
(* deadlines: a step rests (nothing durable moves), shakes hands (only the *)
(* log moves, and a session may open) or serves one command of a live      *)
(* session.                                                                *)
(***************************************************************************)
EXTENDS DeviceProperties, FiniteSetTheorems, TLAPS

-----------------------------------------------------------------------------
(* What a step does to the store *)

\* An object within what a session may delegate and reach.
Within(auth, info) ==
  /\ info.capabilities \subseteq auth.delegated
  /\ info.delegated \subseteq auth.delegated
  /\ info.domains \subseteq auth.domains

Creates(auth) ==
  \E key \in Keys, info \in ObjectInfo :
    key \notin DOMAIN objects /\ Within(auth, info) /\ WriteObject(key, info)

SameGrants(info, other) ==
  /\ info.capabilities = other.capabilities
  /\ info.delegated = other.delegated
  /\ info.domains = other.domains

Rewrites ==
  \E key \in DOMAIN objects, info \in ObjectInfo :
    SameGrants(info, objects[key]) /\ WriteObject(key, info)

Deletes ==
  \E key \in DOMAIN objects :
    objects' = Remove(objects, key) /\ UNCHANGED sequence_history

\* A header that asks for something is a record of sets of the constants.
LEMMA RequestedType ==
  ASSUME NEW header \in HeaderSet, NEW delegated \in SUBSET Capabilities,
         NEW origin \in Origins
  PROVE  /\ Requested(header, delegated, origin) \in ObjectInfo
         /\ Requested(header, delegated, origin).capabilities = header.capabilities
         /\ Requested(header, delegated, origin).delegated = delegated
         /\ Requested(header, delegated, origin).domains = header.domains
<1>0. SequenceModulus \in Nat \ {0}
  BY StoreAssumption DEF StoreAssumption
<1>1. 0 \in 0 .. SequenceModulus - 1
  BY <1>0
<1> QED  BY <1>1 DEF HeaderSet, ObjectInfo, Requested

\* Creating an object at a resolved id writes a key that was free, below the
\* session's ceiling (device.rs resolve_id, authorize_create).
LEMMA FreshWrite ==
  ASSUME NEW auth, NEW type \in ObjectTypes, NEW requested, NEW id \in Ids,
         NEW info \in ObjectInfo, NEW capability,
         ResolveId(type, requested, id), WriteObject(<<type, id>>, info),
         AuthorizeCreate(auth, info, capability)
  PROVE  Creates(auth)
<1>1. <<type, id>> \notin DOMAIN objects
  BY DEF ResolveId
<1>2. <<type, id>> \in Keys
  BY DEF Keys
<1>3. Within(auth, info)
  BY DEF Within, AuthorizeCreate
<1> QED  BY <1>1, <1>2, <1>3 DEF Creates

\* The put and generate commands create.
LEMMA CreateObjectCreates ==
  ASSUME NEW auth, NEW type \in ObjectTypes, NEW capability,
         NEW header \in HeaderSet, NEW delegated \in SUBSET Capabilities,
         NEW origin \in Origins,
         CreateObject(auth, type, capability, header, delegated, origin)
  PROVE  Creates(auth)
<1> DEFINE info == Requested(header, delegated, origin)
<1>1. info \in ObjectInfo
  BY RequestedType
<1>2. PICK id \in Ids : /\ ResolveId(type, header.requested, id)
                        /\ WriteObject(<<type, id>>, info)
  BY DEF CreateObject
<1>3. AuthorizeCreate(auth, info, capability)
  BY DEF CreateObject
<1> HIDE DEF info
<1> QED  BY <1>1, <1>2, <1>3, FreshWrite

\* So do wrapped imports, which the wrap key bounds on top.
LEMMA WrappedCreationCreates ==
  ASSUME NEW auth, NEW wrapId, NEW algorithm, NEW header \in HeaderSet,
         WrappedCreation(auth, wrapId, algorithm, header)
  PROVE  Creates(auth)
<1>0. PICK type \in ObjectTypes, origin \in CarriedOrigins :
        LET info == Requested(header, header.delegated, origin \cup {"wrapped"}) IN
        /\ AuthorizeWrappedCreation(auth, info, objects[<<"WrapKey", wrapId>>])
        /\ \E id \in Ids : /\ ResolveId(type, header.requested, id)
                           /\ WriteObject(<<type, id>>, info)
  BY DEF WrappedCreation
<1> DEFINE info == Requested(header, header.delegated, origin \cup {"wrapped"})
<1>1. info \in ObjectInfo
  <2>1. origin \cup {"wrapped"} \in Origins
    BY DEF Origins, CarriedOrigins
  <2>2. header.delegated \in SUBSET Capabilities
    BY DEF HeaderSet
  <2> QED  BY <2>1, <2>2, RequestedType
<1>2. PICK id \in Ids : /\ ResolveId(type, header.requested, id)
                        /\ WriteObject(<<type, id>>, info)
  BY <1>0
<1>3. AuthorizeCreate(auth, info, "ImportWrapped")
  BY <1>0 DEF AuthorizeWrappedCreation
<1> HIDE DEF info
<1> QED  BY <1>1, <1>2, <1>3, FreshWrite

\* put_rsa_wrapped_key, too, creates one object below the caller's ceiling.
LEMMA PutRsaWrappedKeyCreates ==
  ASSUME NEW auth, NEW wrapId, NEW type \in ObjectTypes,
         NEW header \in HeaderSet,
         PutRsaWrappedKey(auth, wrapId, type, header)
  PROVE  Creates(auth)
<1> DEFINE info == Requested(header, {}, {"imported", "wrapped"})
<1>1. info \in ObjectInfo
  <2>1. {"imported", "wrapped"} \in Origins
    BY DEF Origins
  <2> QED  BY <2>1, RequestedType
<1>2. PICK id \in Ids : /\ ResolveId(type, header.requested, id)
                        /\ WriteObject(<<type, id>>, info)
  BY DEF PutRsaWrappedKey
<1>3. AuthorizeCreate(auth, info, "ImportWrapped")
  BY DEF PutRsaWrappedKey, AuthorizeWrappedCreation
<1> HIDE DEF info
<1> QED  BY <1>1, <1>2, <1>3, FreshWrite

\* Every store-writing command creates below the ceiling, or replaces an
\* Opaque object in place.
LEMMA DispatchWrites ==
  ASSUME TypeOK, NEW auth, NEW command, NEW header \in HeaderSet,
         Dispatch(auth, command, header)
  PROVE  Creates(auth) \/ Rewrites
<1>1. /\ header.delegated \in SUBSET Capabilities
      /\ {} \in SUBSET Capabilities
      /\ {"imported"} \in Origins
      /\ {"generated"} \in Origins
      /\ \A generate \in BOOLEAN : Origin(generate) \in Origins
  BY DEF HeaderSet, Origins, Origin
<1>2. ASSUME PutOpaque(auth, header)
      PROVE  Creates(auth) \/ Rewrites
  <2>1. CASE ReplaceOpaque(auth, header)
    <3> DEFINE key == <<"Opaque", header.requested>>
    <3>1. key \in DOMAIN objects /\ WriteObject(key, objects[key])
      BY <2>1 DEF ReplaceOpaque
    <3>2. objects[key] \in ObjectInfo /\ SameGrants(objects[key], objects[key])
      BY <3>1 DEF TypeOK, StoreTypeOK, SameGrants
    <3> HIDE DEF key
    <3> QED  BY <3>1, <3>2 DEF Rewrites
  <2>2. CASE CreateObject(auth, "Opaque", "PutOpaque", header, {}, {"imported"})
    BY <2>2, <1>1, CreateObjectCreates DEF ObjectTypes
  <2> QED  BY <1>2, <2>1, <2>2 DEF PutOpaque
<1>3. PutAuthenticationKey(auth, header) => Creates(auth)
  BY <1>1, CreateObjectCreates DEF PutAuthenticationKey, ObjectTypes
<1>4. \A generate \in BOOLEAN : PutAsymmetricKey(auth, header, generate) => Creates(auth)
  BY <1>1, CreateObjectCreates DEF PutAsymmetricKey, ObjectTypes
<1>5. \A generate \in BOOLEAN : PutHmacKey(auth, header, generate) => Creates(auth)
  BY <1>1, CreateObjectCreates DEF PutHmacKey, ObjectTypes
<1>6. \A generate \in BOOLEAN : PutSymmetricKey(auth, header, generate) => Creates(auth)
  BY <1>1, CreateObjectCreates DEF PutSymmetricKey, ObjectTypes
<1>7. \A generate \in BOOLEAN : PutWrapKey(auth, header, generate) => Creates(auth)
  BY <1>1, CreateObjectCreates DEF PutWrapKey, ObjectTypes
<1>8. PutPublicWrapKey(auth, header) => Creates(auth)
  BY <1>1, CreateObjectCreates DEF PutPublicWrapKey, ObjectTypes
<1>9. \A generate \in BOOLEAN : PutOtpAeadKey(auth, header, generate) => Creates(auth)
  BY <1>1, CreateObjectCreates DEF PutOtpAeadKey, ObjectTypes
<1>10. PutTemplate(auth, header) => Creates(auth)
  BY <1>1, CreateObjectCreates DEF PutTemplate, ObjectTypes
<1>11. \A wrapId \in Ids : ImportWrapped(auth, wrapId, header) => Creates(auth)
  BY WrappedCreationCreates DEF ImportWrapped
<1>12. \A wrapId \in Ids : ImportRsaWrapped(auth, wrapId, header) => Creates(auth)
  BY WrappedCreationCreates DEF ImportRsaWrapped
<1>13. \A wrapId \in Ids, type \in ObjectTypes :
         PutRsaWrappedKey(auth, wrapId, type, header) => Creates(auth)
  BY PutRsaWrappedKeyCreates
<1> QED
  BY <1>1, <1>2, <1>3, <1>4, <1>5, <1>6, <1>7, <1>8, <1>9, <1>10, <1>11,
     <1>12, <1>13 DEF Dispatch

\* Changing the session's own key rewrites it, with the same grants.
LEMMA ChangeKeyRewrites ==
  ASSUME TypeOK, NEW auth, NEW algorithm,
         ChangeAuthenticationKey(auth, algorithm)
  PROVE  Rewrites
<1> DEFINE key == <<"AuthenticationKey", auth.key>>
           info == [objects[key] EXCEPT !.algorithm = algorithm]
<1>1. key \in DOMAIN objects /\ WriteObject(key, info)
  BY DEF ChangeAuthenticationKey
<1>2. objects[key] \in ObjectInfo
  BY <1>1 DEF TypeOK, StoreTypeOK
<1>3. algorithm \in Algorithms
  BY DEF ChangeAuthenticationKey, AlgorithmsOf, Algorithms
<1>4. info \in ObjectInfo /\ SameGrants(info, objects[key])
  BY <1>2, <1>3 DEF ObjectInfo, SameGrants
<1> HIDE DEF key, info
<1> QED  BY <1>1, <1>4 DEF Rewrites

-----------------------------------------------------------------------------
(* What a step does to the session table *)

\* No session gains anything; some may have gone.
KeepsSessions ==
  /\ DOMAIN sessions' \subseteq DOMAIN sessions
  /\ \A sid \in DOMAIN sessions' :
       sessions'[sid].authorization = sessions[sid].authorization

\* A session begins with the snapshot of an existing key.
Opens ==
  \E id \in Ids :
    /\ <<"AuthenticationKey", id>> \in DOMAIN objects
    /\ \A sid \in DOMAIN sessions' :
         \/ /\ sid \in DOMAIN sessions
            /\ sessions'[sid].authorization = sessions[sid].authorization
         \/ sessions'[sid].authorization = SessionAuthorization(id)

StoreStep ==
  \/ /\ \E sid \in DOMAIN sessions : Creates(sessions[sid].authorization)
     /\ KeepsSessions
  \/ (Rewrites \/ Deletes) /\ KeepsSessions
  \/ ResetStore /\ DOMAIN sessions' = {}
  \/ UNCHANGED storeVars /\ (KeepsSessions \/ Opens)

\* What expire_inactive_sessions leaves is part of the table, unchanged.
LEMMA LiveFacts ==
  /\ DOMAIN Live \subseteq DOMAIN sessions
  /\ \A sid \in DOMAIN Live : Live[sid] = sessions[sid]
BY DEF Live

\* What every successful or failed command leaves of the table.
LEMMA RefreshKeeps ==
  ASSUME NEW sid, sid \in DOMAIN Live, sessions' = Refreshed(sid)
  PROVE  KeepsSessions
<1>1. /\ DOMAIN sessions' = DOMAIN Live
      /\ \A s \in DOMAIN Live : sessions'[s].authorization = Live[s].authorization
  BY DEF Refreshed, Live
<1> QED  BY <1>1, LiveFacts DEF KeepsSessions

\* Expiring, removing and clearing sessions add none and alter none.
LEMMA DroppingKeeps ==
  ASSUME NEW sid, sessions' \in {Live, Remove(Live, sid), [s \in {} |-> {}]}
  PROVE  KeepsSessions
BY DEF Live, Remove, KeepsSessions

\* Every step of the device is one of these.
THEOREM StoreSteps == TypeOK /\ [Next]_vars => StoreStep
<1> SUFFICES ASSUME TypeOK, [Next]_vars PROVE StoreStep
  OBVIOUS
<1>1. ASSUME NEW sid, Arrives(sid)
      PROVE  sid \in DOMAIN Live /\ sid \in DOMAIN sessions
             /\ Auth(sid) = sessions[sid].authorization
  BY <1>1, LiveFacts DEF Arrives, Auth
<1>2. ASSUME NEW sid, NEW command, NEW header \in Headers,
             CreateCommand(sid, command, header)
      PROVE  StoreStep
  <2>1. header \in HeaderSet
    BY StoreAssumption DEF StoreAssumption
  <2>2. Creates(Auth(sid)) \/ Rewrites
    BY <1>2, <2>1, DispatchWrites DEF CreateCommand
  <2>3. Arrives(sid) /\ sessions' = Refreshed(sid)
    BY <1>2 DEF CreateCommand, Succeeds, Executes
  <2> QED  BY <2>2, <2>3, <1>1, RefreshKeeps DEF StoreStep
<1>3. ASSUME NEW sid, NEW algorithm, ChangeKeyCommand(sid, algorithm)
      PROVE  StoreStep
  <2>1. Rewrites
    BY <1>3, ChangeKeyRewrites DEF ChangeKeyCommand
  <2>2. Arrives(sid) /\ sessions' = Refreshed(sid)
    BY <1>3 DEF ChangeKeyCommand, Succeeds, Executes
  <2> QED  BY <2>1, <2>2, <1>1, RefreshKeeps DEF StoreStep
<1>4. ASSUME NEW sid, NEW key, DeleteCommand(sid, key)
      PROVE  StoreStep
  <2>1. Deletes
    BY <1>4 DEF DeleteCommand, DeleteObject, Deletes
  <2>2. Arrives(sid) /\ sessions' = Refreshed(sid)
    BY <1>4 DEF DeleteCommand, Succeeds, Executes
  <2> QED  BY <2>1, <2>2, <1>1, RefreshKeeps DEF StoreStep
<1>5. ASSUME NEW sid, OptionCommand(sid)
      PROVE  StoreStep
  <2>1. UNCHANGED storeVars
    BY <1>5 DEF OptionCommand, SetForceAuditCommand, SetCommandAuditCommand,
         SetAlgorithmToggleCommand, SetFipsModeCommand, SetAlgorithmToggle,
         SetFipsMode, storeVars
  <2>2. Arrives(sid) /\ sessions' = Refreshed(sid)
    BY <1>5 DEF OptionCommand, SetForceAuditCommand, SetCommandAuditCommand,
         SetAlgorithmToggleCommand, SetFipsModeCommand, Succeeds, Executes
  <2> QED  BY <2>1, <2>2, <1>1, RefreshKeeps DEF StoreStep
<1>6. ASSUME NEW sid, OtherCommand(sid)
      PROVE  StoreStep
  <2>1. CASE ResetCommand(sid)
    BY <2>1 DEF ResetCommand, StoreStep
  <2>2. CASE CloseCommand(sid)
    <3>1. sessions' = Remove(Live, sid) /\ UNCHANGED storeVars
      BY <2>2 DEF CloseCommand, durable, storeVars
    <3> QED  BY <3>1, DroppingKeeps DEF StoreStep
  <2>3. CASE \/ \E command \in Commands :
                  ReadCommand(sid, command) \/ FailedCommand(sid, command)
                    \/ RefusedCommand(sid, command)
             \/ \E index \in 0..MaxNumber : SetLogIndexCommand(sid, index)
    <3>1. UNCHANGED storeVars
      BY <2>3 DEF ReadCommand, FailedCommand, RefusedCommand,
           SetLogIndexCommand, storeVars, durable
    <3>2. Arrives(sid) /\ sessions' = Refreshed(sid)
      BY <2>3 DEF ReadCommand, FailedCommand, RefusedCommand,
           SetLogIndexCommand, Succeeds, Executes
    <3> QED  BY <3>1, <3>2, <1>1, RefreshKeeps DEF StoreStep
  <2> QED  BY <1>6, <2>1, <2>2, <2>3 DEF OtherCommand
<1>7. ASSUME NEW id \in Ids, OpenSession(id)
      PROVE  StoreStep
  <2>1. <<"AuthenticationKey", id>> \in DOMAIN objects /\ UNCHANGED storeVars
    BY <1>7 DEF OpenSession, storeVars
  <2>2. \A sid \in DOMAIN sessions' :
          \/ /\ sid \in DOMAIN Live
             /\ sessions'[sid].authorization = Live[sid].authorization
          \/ sessions'[sid].authorization = SessionAuthorization(id)
    BY <1>7 DEF OpenSession, Insert
  <2>3. Opens
    BY <2>1, <2>2, LiveFacts DEF Opens
  <2> QED  BY <2>1, <2>3 DEF StoreStep
<1>8. ASSUME NEW sid, AuthenticateSession(sid)
      PROVE  StoreStep
  <2>1. UNCHANGED storeVars
    BY <1>8 DEF AuthenticateSession, storeVars
  <2>2. /\ DOMAIN sessions' = DOMAIN Live
        /\ \A s \in DOMAIN Live : sessions'[s].authorization = Live[s].authorization
    BY <1>8 DEF AuthenticateSession, Live
  <2> QED  BY <2>1, <2>2, LiveFacts DEF StoreStep, KeepsSessions
<1>9. ASSUME \/ \E id \in Ids : FailToOpenSession(id)
             \/ \E sid \in DOMAIN sessions :
                  FailAuthentication(sid) \/ BrokenMessage(sid)
             \/ OtherFrame \/ ClearSessions
      PROVE  StoreStep
  <2>1. UNCHANGED storeVars
    BY <1>9 DEF FailToOpenSession, FailAuthentication, BrokenMessage,
         OtherFrame, ClearSessions, storeVars, durable
  <2>2. \E sid : sessions' \in {Live, Remove(Live, sid), [s \in {} |-> {}]}
    BY <1>9 DEF FailToOpenSession, FailAuthentication, BrokenMessage,
         OtherFrame, ClearSessions
  <2> QED  BY <2>1, <2>2, DroppingKeeps DEF StoreStep
<1>10. ASSUME Tick \/ TakePersistentChange \/ UNCHANGED vars
       PROVE  StoreStep
  <2>1. UNCHANGED storeVars
    BY <1>10 DEF Tick, TakePersistentChange, vars, storeVars, durable
  <2>2. KeepsSessions
    <3>1. CASE Tick
      <4>1. \A sid \in DOMAIN sessions : sessions[sid] \in SessionEntries
        BY DEF TypeOK, SessionsTypeOK
      <4>2. /\ DOMAIN sessions' = DOMAIN sessions
            /\ \A sid \in DOMAIN sessions :
                 sessions'[sid].authorization = sessions[sid].authorization
        BY <3>1, <4>1 DEF Tick, SessionEntries
      <4> QED  BY <4>2 DEF KeepsSessions
    <3>2. CASE UNCHANGED sessions
      BY <3>2 DEF KeepsSessions
    <3> QED  BY <1>10, <3>1, <3>2 DEF TakePersistentChange, vars
  <2> QED  BY <2>1, <2>2 DEF StoreStep
<1> QED
  BY <1>2, <1>3, <1>4, <1>5, <1>6, <1>7, <1>8, <1>9, <1>10
  DEF Next, SessionFrame, StoreCommand

-----------------------------------------------------------------------------
(* Writing one object *)

\* What the proofs use of the assumptions on the sequence byte.
LEMMA ModulusFacts ==
  /\ SequenceModulus \in Nat \ {0}
  /\ MaxGeneration \in Nat
  /\ \A g \in Nat : g % SequenceModulus \in 0 .. SequenceModulus - 1
  /\ \A g \in Nat : g < SequenceModulus => g % SequenceModulus = g
<1>1. SequenceModulus \in Nat \ {0} /\ MaxGeneration \in Nat
  BY StoreAssumption DEF StoreAssumption
<1> QED  BY <1>1

\* next_generation is a number, one more than the latest if there is one.
LEMMA NextGenerationType ==
  ASSUME StoreTypeOK, NEW id \in Ids
  PROVE  /\ NextGeneration(id) \in Nat
         /\ id \in DOMAIN sequence_history =>
              /\ sequence_history[id] \in Nat
              /\ NextGeneration(id) = sequence_history[id] + 1
BY ModulusFacts DEF StoreTypeOK, NextGeneration

\* Everything write_object does, in one place.
LEMMA WriteEffect ==
  ASSUME StoreTypeOK, NEW key \in Keys, NEW info \in ObjectInfo,
         WriteObject(key, info)
  PROVE  /\ key[2] \in Ids
         /\ NextGeneration(key[2]) \in 0..MaxGeneration
         /\ DOMAIN sequence_history' = DOMAIN sequence_history \cup {key[2]}
         /\ sequence_history'[key[2]] = NextGeneration(key[2])
         /\ \A id \in DOMAIN sequence_history :
              id # key[2] => sequence_history'[id] = sequence_history[id]
         /\ DOMAIN objects' = DOMAIN objects \cup {key}
         /\ \A other \in DOMAIN objects :
              other # key => objects'[other] = objects[other]
         /\ objects'[key] \in ObjectInfo
         /\ SameGrants(objects'[key], info)
         /\ objects'[key].sequence = NextGeneration(key[2]) % SequenceModulus
<1> DEFINE g == NextGeneration(key[2])
<1>1. key[2] \in Ids
  BY DEF Keys
<1>2. g \in Nat /\ g <= MaxGeneration
  BY <1>1, NextGenerationType DEF WriteObject
<1>3. g \in 0..MaxGeneration
  BY <1>2, ModulusFacts
<1>4. g % SequenceModulus \in 0 .. SequenceModulus - 1
  BY <1>2, ModulusFacts
<1> HIDE DEF g
<1>5. /\ sequence_history' = Insert(sequence_history, key[2], g)
      /\ objects' = Insert(objects, key,
                      [info EXCEPT !.sequence = g % SequenceModulus])
  BY DEF WriteObject, g
<1>6. /\ DOMAIN sequence_history' = DOMAIN sequence_history \cup {key[2]}
      /\ sequence_history'[key[2]] = g
      /\ \A id \in DOMAIN sequence_history :
           id # key[2] => sequence_history'[id] = sequence_history[id]
  BY <1>5 DEF Insert
<1>7. /\ DOMAIN objects' = DOMAIN objects \cup {key}
      /\ \A other \in DOMAIN objects :
           other # key => objects'[other] = objects[other]
      /\ objects'[key] = [info EXCEPT !.sequence = g % SequenceModulus]
  BY <1>5 DEF Insert
<1>8. /\ objects'[key] \in ObjectInfo
      /\ SameGrants(objects'[key], info)
      /\ objects'[key].sequence = g % SequenceModulus
  BY <1>7, <1>4 DEF ObjectInfo, SameGrants
<1> QED  BY <1>1, <1>3, <1>6, <1>7, <1>8 DEF g

\* What install_factory_authentication_key leaves in the store.
LEMMA FactoryFacts ==
  /\ FactoryKey \in Keys /\ 1 \in Ids
  /\ DOMAIN FactoryObjects = {FactoryKey}
  /\ FactoryObjects[FactoryKey] = FactoryInfo
  /\ FactoryInfo \in ObjectInfo
  /\ FactoryInfo.sequence = 0
  /\ DOMAIN FactoryHistory = {1} /\ FactoryHistory[1] = 0
  /\ FactoryKey[2] = 1
<1>1. 1 \in Ids
  BY StoreAssumption DEF StoreAssumption
<1>2. FactoryKey \in Keys /\ FactoryKey[2] = 1
  BY <1>1 DEF FactoryKey, Keys, ObjectTypes
<1>3. 0 \in 0 .. SequenceModulus - 1
  BY ModulusFacts
<1>4. FactoryInfo \in ObjectInfo /\ FactoryInfo.sequence = 0
  BY <1>3 DEF FactoryInfo, ObjectInfo, Origins, Algorithms
<1> QED  BY <1>1, <1>2, <1>4 DEF FactoryObjects, FactoryHistory

-----------------------------------------------------------------------------
(* Type correctness *)

\* Every way the store can move keeps its type.
LEMMA StoreTypeStep == TypeOK /\ StoreStep => StoreTypeOK'
<1> SUFFICES ASSUME TypeOK, StoreStep PROVE StoreTypeOK'
  OBVIOUS
<1>0. StoreTypeOK
  BY DEF TypeOK
<1>1. ASSUME NEW key \in Keys, NEW info \in ObjectInfo, WriteObject(key, info)
      PROVE  StoreTypeOK'
  <2>1. /\ DOMAIN objects' \subseteq Keys
        /\ \A k \in DOMAIN objects' : objects'[k] \in ObjectInfo
    BY <1>0, <1>1, WriteEffect DEF StoreTypeOK
  <2>2. /\ DOMAIN sequence_history' \subseteq Ids
        /\ \A id \in DOMAIN sequence_history' :
             sequence_history'[id] \in 0..MaxGeneration
    <3>1. /\ key[2] \in Ids
          /\ DOMAIN sequence_history' = DOMAIN sequence_history \cup {key[2]}
          /\ sequence_history'[key[2]] \in 0..MaxGeneration
          /\ \A id \in DOMAIN sequence_history :
               id # key[2] => sequence_history'[id] = sequence_history[id]
      BY <1>0, <1>1, WriteEffect
    <3> QED  BY <1>0, <3>1 DEF StoreTypeOK
  <2> QED  BY <2>1, <2>2 DEF StoreTypeOK
<1>2. ASSUME NEW auth, Creates(auth) PROVE StoreTypeOK'
  BY <1>1, <1>2 DEF Creates
<1>3. CASE Rewrites
  <2>1. DOMAIN objects \subseteq Keys
    BY <1>0 DEF StoreTypeOK
  <2> QED  BY <2>1, <1>1, <1>3 DEF Rewrites
<1>4. CASE Deletes
  BY <1>0, <1>4 DEF Deletes, Remove, StoreTypeOK
<1>5. CASE ResetStore
  <2>1. objects' = FactoryObjects /\ sequence_history' = FactoryHistory
    BY <1>5 DEF ResetStore
  <2>2. 0 \in 0..MaxGeneration
    BY ModulusFacts
  <2> QED  BY <2>1, <2>2, FactoryFacts DEF StoreTypeOK
<1>6. CASE UNCHANGED storeVars
  BY <1>0, <1>6 DEF storeVars, StoreTypeOK
<1> QED  BY <1>2, <1>3, <1>4, <1>5, <1>6 DEF StoreStep

\* set_option and ResetDevice keep the type of the options.
LEMMA OptionsTypeStep == TypeOK /\ [Next]_vars => OptionsTypeOK'
<1> SUFFICES ASSUME TypeOK, [Next]_vars PROVE OptionsTypeOK'
  OBVIOUS
<1>0. OptionsTypeOK
  BY DEF TypeOK
<1>1. CASE UNCHANGED optionVars
  BY <1>0, <1>1 DEF optionVars, OptionsTypeOK
<1>2. ASSUME NEW sid, NEW value \in ForceAuditUpdates,
             SetForceAuditCommand(sid, value)
      PROVE  OptionsTypeOK'
  <2>1. value \in OptionValues
    BY DeviceAssumption DEF DeviceAssumption
  <2> QED  BY <1>0, <1>2, <2>1 DEF SetForceAuditCommand, SetForceAudit,
             algorithmVars, OptionsTypeOK
<1>3. ASSUME NEW sid, NEW update \in CommandAuditUpdates,
             SetCommandAuditCommand(sid, update)
      PROVE  OptionsTypeOK'
  <2>1. \A c \in DOMAIN update : update[c] \in OptionValues
    BY DeviceAssumption DEF DeviceAssumption
  <2>2. command_audit' \in [Commands -> OptionValues]
    BY <1>0, <1>3, <2>1 DEF SetCommandAuditCommand, SetCommandAudit, OptionsTypeOK
  <2> QED  BY <1>0, <1>3, <2>2 DEF SetCommandAuditCommand, SetCommandAudit,
             algorithmVars, OptionsTypeOK
<1>4. ASSUME NEW sid, NEW update \in AlgorithmUpdates,
             SetAlgorithmToggleCommand(sid, update)
      PROVE  OptionsTypeOK'
  <2>1. \A a \in DOMAIN update : update[a] \in OptionValues
    BY DeviceAssumption DEF DeviceAssumption
  <2>2. algorithm_toggle' \in [Algorithms -> OptionValues]
    BY <1>0, <1>4, <2>1 DEF SetAlgorithmToggleCommand, SetAlgorithmToggle, OptionsTypeOK
  <2> QED  BY <1>0, <1>4, <2>2 DEF SetAlgorithmToggleCommand, SetAlgorithmToggle,
             auditOptions, OptionsTypeOK
<1>5. ASSUME NEW sid, NEW value \in FipsUpdates, SetFipsModeCommand(sid, value)
      PROVE  OptionsTypeOK'
  <2>1. value \in OptionValues
    BY DeviceAssumption DEF DeviceAssumption
  <2> QED  BY <1>0, <1>5, <2>1 DEF SetFipsModeCommand, SetFipsMode,
             auditOptions, OptionsTypeOK
<1>6. ASSUME NEW sid, ResetCommand(sid) PROVE OptionsTypeOK'
  <2>1. /\ algorithm_toggle' = [a \in Algorithms |-> ON]
        /\ fips_mode' = OFF /\ force_audit' = OFF
        /\ command_audit' = [c \in Commands |-> OFF]
    BY <1>6 DEF ResetCommand, ResetStore, ResetAuditOptions
  <2>2. ON \in OptionValues /\ OFF \in OptionValues
    BY DEF OptionValues
  <2> QED  BY <2>1, <2>2 DEF OptionsTypeOK
<1>7. \/ UNCHANGED optionVars
      \/ \E sid \in DOMAIN sessions : OptionCommand(sid) \/ ResetCommand(sid)
  BY DEF Next, vars, optionVars, durable, Tick, SessionFrame, OpenSession,
    FailToOpenSession, AuthenticateSession, FailAuthentication, BrokenMessage,
    OtherFrame, ClearSessions, StoreCommand, CreateCommand, ChangeKeyCommand,
    DeleteCommand, OtherCommand, ReadCommand, FailedCommand, RefusedCommand,
    SetLogIndexCommand, CloseCommand, TakePersistentChange
<1> QED
  BY <1>1, <1>2, <1>3, <1>4, <1>5, <1>6, <1>7 DEF OptionCommand

\* What the proofs use of the assumptions on the bounds.
LEMMA BoundFacts ==
  /\ LogCapacity \in Nat \ {0} /\ MaxNumber \in Nat \ {0}
  /\ MaxUnlogged \in Nat /\ MaxAppends \in Nat
  /\ Commands \subseteq CommandCodes
  /\ {"CreateSession", "AuthenticateSession"} \subseteq Commands
  /\ MaxSessions \in Nat \ {0} /\ Timeout \in Nat \ {0}
BY AuditAssumption, DeviceAssumption DEF AuditAssumption, DeviceAssumption

\* An appended entry fits, and so does the log after it.
LEMMA LoggedType ==
  ASSUME NEW log \in AuditStates, NEW shouldAudit, NEW key \in Ids,
         NEW command \in CommandCodes, NEW ok \in BOOLEAN,
         Logged(log, shouldAudit, key, command, ok).previous_digest <= MaxAppends
  PROVE  Logged(log, shouldAudit, key, command, ok) \in AuditStates
<1>1. CASE ~shouldAudit \/ Full(log)
  BY <1>1 DEF Logged, AppendEntry
<1>2. CASE shouldAudit /\ ~Full(log)
  <2> DEFINE entry == [ number |-> log.next_number, command |-> command,
                        session_key |-> key, ok |-> ok,
                        digest |-> log.previous_digest + 1 ]
             next  == Logged(log, shouldAudit, key, command, ok)
  <2>1. next = [log EXCEPT !.entries = @ \cup {entry},
                           !.next_number = NextNumber(@),
                           !.previous_digest = @ + 1]
    BY <1>2 DEF Logged, AppendEntry
  <2>2. /\ log.entries \subseteq AuditEntries
        /\ log.next_number \in 1..MaxNumber
        /\ log.previous_digest \in 0..MaxAppends
        /\ log.unlogged_authentication \in 0..MaxUnlogged
    BY DEF AuditStates
  <2>3. /\ next.entries = log.entries \cup {entry}
        /\ next.next_number = NextNumber(log.next_number)
        /\ next.previous_digest = log.previous_digest + 1
        /\ next.unlogged_authentication = log.unlogged_authentication
    BY <2>1 DEF AuditStates
  <2>4. log.previous_digest + 1 \in 1..MaxAppends
    BY <2>2, <2>3, BoundFacts
  <2>5. entry \in AuditEntries
    BY <2>2, <2>4 DEF AuditEntries
  <2>6. NextNumber(log.next_number) \in 1..MaxNumber
    BY <2>2, BoundFacts DEF NextNumber
  <2>7. log.previous_digest + 1 \in 0..MaxAppends
    BY <2>4, BoundFacts
  <2> HIDE DEF entry
  <2> QED  BY <2>1, <2>2, <2>5, <2>6, <2>7 DEF AuditStates
<1> QED  BY <1>1, <1>2

\* Counting, truncating and resetting keep the type of the log.
LEMMA OtherLogTypes ==
  ASSUME NEW log \in AuditStates, NEW index
  PROVE  /\ RecordUnloggedAuthentication(log) \in AuditStates
         /\ RetainAfter(log, index) \in AuditStates
         /\ FreshLog \in AuditStates
<1>1. RecordUnloggedAuthentication(log) \in AuditStates
  BY BoundFacts DEF RecordUnloggedAuthentication, AuditStates
<1>2. RetainAfter(log, index) \in AuditStates
  BY DEF RetainAfter, AuditStates
<1>3. FreshLog \in AuditStates
  BY BoundFacts DEF FreshLog, AuditStates
<1> QED  BY <1>1, <1>2, <1>3

\* A live session's authorization is well-formed.
LEMMA AuthorizationType ==
  ASSUME TypeOK, NEW sid \in DOMAIN Live
  PROVE  Auth(sid) \in Authorizations /\ Auth(sid).key \in Ids
<1>1. Live[sid] \in SessionEntries
  BY LiveFacts DEF TypeOK, SessionsTypeOK
<1> QED  BY <1>1 DEF Auth, SessionEntries, Authorizations

\* The trailing append of a successful command keeps the log's type.
LEMMA SucceedsType ==
  ASSUME TypeOK, NEW sid, NEW command \in CommandCodes, NEW log \in AuditStates,
         Succeeds(sid, command, log)
  PROVE  audit' \in AuditStates
<1>1. Auth(sid).key \in Ids
  BY AuthorizationType DEF Succeeds, Executes, Arrives
<1>2. /\ audit' = Logged(log, ShouldAudit(command), Auth(sid).key, command, TRUE)
      /\ audit'.previous_digest <= MaxAppends
  BY DEF Succeeds
<1> QED  BY <1>1, <1>2, LoggedType

\* Every step keeps the type of the log.
LEMMA AuditTypeStep == TypeOK /\ [Next]_vars => audit' \in AuditStates
<1> SUFFICES ASSUME TypeOK, [Next]_vars PROVE audit' \in AuditStates
  OBVIOUS
<1>0. audit \in AuditStates
  BY DEF TypeOK
<1>1. CASE UNCHANGED audit
  BY <1>0, <1>1
<1>2. ASSUME NEW sid,
             \/ \E command \in Commands, header \in Headers :
                  CreateCommand(sid, command, header)
             \/ \E algorithm \in Algorithms : ChangeKeyCommand(sid, algorithm)
             \/ \E key \in DOMAIN objects : DeleteCommand(sid, key)
             \/ OptionCommand(sid)
             \/ \E command \in Commands : ReadCommand(sid, command)
      PROVE  audit' \in AuditStates
  <2>1. \E command \in CommandCodes : Succeeds(sid, command, audit)
    BY <1>2, BoundFacts DEF CreateCommand, ChangeKeyCommand, DeleteCommand,
      ReadCommand, OptionCommand, SetForceAuditCommand, SetCommandAuditCommand,
      SetAlgorithmToggleCommand, SetFipsModeCommand, CommandCodes,
      StoreWrites, Creations, Imports, Administration
  <2> QED  BY <2>1, <1>0, SucceedsType
<1>3. ASSUME NEW sid, NEW index, SetLogIndexCommand(sid, index)
      PROVE  audit' \in AuditStates
  <2>1. "SetLogIndex" \in CommandCodes
    BY DEF CommandCodes, Administration
  <2> QED  BY <1>0, <1>3, <2>1, OtherLogTypes, SucceedsType DEF SetLogIndexCommand
<1>4. ASSUME NEW sid, ResetCommand(sid)
      PROVE  audit' \in AuditStates
  <2>1. "ResetDevice" \in CommandCodes
    BY DEF CommandCodes, Administration
  <2> QED  BY <1>0, <1>4, <2>1, OtherLogTypes, SucceedsType DEF ResetCommand
<1>5. ASSUME NEW sid, NEW command \in Commands, FailedCommand(sid, command)
      PROVE  audit' \in AuditStates
  <2>1. Auth(sid).key \in Ids
    BY <1>5, AuthorizationType DEF FailedCommand, Executes, Arrives
  <2>2. /\ audit' = Logged(audit, ShouldAudit(command), Auth(sid).key, command, FALSE)
        /\ audit'.previous_digest <= MaxAppends
    BY <1>5 DEF FailedCommand
  <2> QED  BY <1>0, <2>1, <2>2, BoundFacts, LoggedType
<1>6. ASSUME NEW id \in Ids, OpenSession(id) \/ FailToOpenSession(id)
      PROVE  audit' \in AuditStates
  <2>1. PICK log \in AuditStates, ok \in BOOLEAN :
          /\ audit' = Logged(log, ShouldAudit("CreateSession"), id,
                             "CreateSession", ok)
          /\ audit'.previous_digest <= MaxAppends
    BY <1>0, <1>6, OtherLogTypes DEF OpenSession, FailToOpenSession
  <2>2. "CreateSession" \in CommandCodes
    BY BoundFacts
  <2> QED  BY <2>1, <2>2, LoggedType
<1>7. ASSUME NEW sid, AuthenticateSession(sid) \/ FailAuthentication(sid)
      PROVE  audit' \in AuditStates
  <2>1. Live[sid].authorization.key \in Ids
    BY <1>7, AuthorizationType DEF AuthenticateSession, FailAuthentication, Auth
  <2>2. PICK log \in AuditStates, ok \in BOOLEAN :
          /\ audit' = Logged(log, ShouldAudit("AuthenticateSession"),
                             Live[sid].authorization.key,
                             "AuthenticateSession", ok)
          /\ audit'.previous_digest <= MaxAppends
    BY <1>0, <1>7, OtherLogTypes DEF AuthenticateSession, FailAuthentication
  <2>3. "AuthenticateSession" \in CommandCodes
    BY BoundFacts
  <2> QED  BY <2>1, <2>2, <2>3, LoggedType
<1>8. CASE \/ Tick \/ ClearSessions \/ OtherFrame \/ TakePersistentChange
           \/ UNCHANGED vars
           \/ \E sid \in DOMAIN sessions :
                \/ BrokenMessage(sid) \/ CloseCommand(sid)
                \/ \E command \in Commands : RefusedCommand(sid, command)
  BY <1>1, <1>8 DEF Tick, ClearSessions, OtherFrame, TakePersistentChange,
    BrokenMessage, CloseCommand, RefusedCommand, durable, vars
<1> QED
  BY <1>2, <1>3, <1>4, <1>5, <1>6, <1>7, <1>8
  DEF Next, SessionFrame, StoreCommand, OtherCommand

\* Every step keeps the type of the session table.
LEMMA SessionsTypeStep == TypeOK /\ [Next]_vars => SessionsTypeOK'
<1> SUFFICES ASSUME TypeOK, [Next]_vars PROVE SessionsTypeOK'
  OBVIOUS
<1> DEFINE Table(t) == /\ DOMAIN t \subseteq Sids
                       /\ \A s \in DOMAIN t : t[s] \in SessionEntries
<1>0. Table(sessions) /\ 0 \in 0..Timeout
  BY BoundFacts DEF TypeOK, SessionsTypeOK
<1>1. Table(Live)
  BY <1>0, LiveFacts
<1>2. ASSUME NEW sid \in DOMAIN Live, sessions' = Refreshed(sid)
      PROVE  SessionsTypeOK'
  <2>1. DOMAIN sessions' = DOMAIN Live
    BY <1>2 DEF Refreshed, Live
  <2>2. ASSUME NEW s \in DOMAIN Live PROVE sessions'[s] \in SessionEntries
    <3>1. sessions'[s] = IF s = sid THEN [Live[s] EXCEPT !.idle = 0] ELSE Live[s]
      BY <1>2, <2>2 DEF Refreshed, Live
    <3> QED  BY <1>0, <1>1, <3>1 DEF SessionEntries
  <2> QED  BY <1>1, <2>1, <2>2 DEF SessionsTypeOK
<1>3. ASSUME NEW sid,
             sessions' \in {Live, Remove(Live, sid), [s \in {} |-> {}], sessions}
      PROVE  SessionsTypeOK'
  BY <1>0, <1>1, <1>3 DEF Remove, SessionsTypeOK
<1>4. CASE Tick
  <2>1. DOMAIN sessions' = DOMAIN sessions
    BY <1>4 DEF Tick
  <2>2. ASSUME NEW s \in DOMAIN sessions PROVE sessions'[s] \in SessionEntries
    <3>1. sessions'[s] = [sessions[s] EXCEPT !.idle = IF @ = Timeout THEN @ ELSE @ + 1]
      BY <1>4, <2>2 DEF Tick
    <3>2. sessions[s] \in SessionEntries
      BY <1>0
    <3>3. sessions[s].idle \in 0..Timeout
      BY <3>2 DEF SessionEntries
    <3>4. (IF sessions[s].idle = Timeout THEN sessions[s].idle
                                         ELSE sessions[s].idle + 1) \in 0..Timeout
      BY <3>3, BoundFacts
    <3> QED  BY <3>1, <3>2, <3>4 DEF SessionEntries
  <2> QED  BY <1>0, <2>1, <2>2 DEF SessionsTypeOK
<1>5. ASSUME NEW id \in Ids, OpenSession(id) PROVE SessionsTypeOK'
  <2> DEFINE key == <<"AuthenticationKey", id>>
             entry == [ authorization |-> SessionAuthorization(id),
                        authenticated |-> objects[key].algorithm = "EcP256Auth",
                        idle          |-> 0 ]
  <2>1. PICK sid \in Sids : /\ key \in DOMAIN objects
                            /\ sessions' = Insert(Live, sid, entry)
    BY <1>5 DEF OpenSession
  <2>2. objects[key] \in ObjectInfo
    BY <2>1 DEF TypeOK, StoreTypeOK
  <2>3. SessionAuthorization(id) \in Authorizations
    BY <2>2 DEF SessionAuthorization, Authorizations, ObjectInfo
  <2>4. entry \in SessionEntries
    BY <1>0, <2>3 DEF SessionEntries
  <2> HIDE DEF entry, key
  <2> QED  BY <1>1, <2>1, <2>4 DEF Insert, SessionsTypeOK
<1>6. ASSUME NEW sid, AuthenticateSession(sid) PROVE SessionsTypeOK'
  <2>1. /\ sid \in DOMAIN Live
        /\ sessions' = [Live EXCEPT ![sid].authenticated = TRUE, ![sid].idle = 0]
    BY <1>6 DEF AuthenticateSession
  <2>2. DOMAIN sessions' = DOMAIN Live
    BY <2>1 DEF Live
  <2>3. ASSUME NEW s \in DOMAIN Live PROVE sessions'[s] \in SessionEntries
    <3>1. sessions'[s] = IF s = sid
            THEN [Live[s] EXCEPT !.authenticated = TRUE, !.idle = 0] ELSE Live[s]
      BY <2>1, <2>3 DEF Live
    <3> QED  BY <1>0, <1>1, <3>1 DEF SessionEntries
  <2> QED  BY <1>1, <2>2, <2>3 DEF SessionsTypeOK
<1>7. ASSUME NEW sid,
             \/ StoreCommand(sid) \/ OptionCommand(sid)
             \/ \E command \in Commands :
                  ReadCommand(sid, command) \/ FailedCommand(sid, command)
                    \/ RefusedCommand(sid, command)
             \/ \E index \in 0..MaxNumber : SetLogIndexCommand(sid, index)
      PROVE  SessionsTypeOK'
  <2>1. sid \in DOMAIN Live /\ sessions' = Refreshed(sid)
    BY <1>7 DEF StoreCommand, CreateCommand, ChangeKeyCommand, DeleteCommand,
      OptionCommand, SetForceAuditCommand, SetCommandAuditCommand,
      SetAlgorithmToggleCommand, SetFipsModeCommand, ReadCommand,
      FailedCommand, RefusedCommand, SetLogIndexCommand, Succeeds, Executes,
      Arrives
  <2> QED  BY <2>1, <1>2
<1>8. CASE \/ \E id \in Ids : FailToOpenSession(id)
           \/ \E sid \in DOMAIN sessions :
                \/ FailAuthentication(sid) \/ BrokenMessage(sid)
                \/ CloseCommand(sid) \/ ResetCommand(sid)
           \/ OtherFrame \/ ClearSessions \/ TakePersistentChange
           \/ UNCHANGED vars
  <2>1. \E sid :
          sessions' \in {Live, Remove(Live, sid), [s \in {} |-> {}], sessions}
    BY <1>8 DEF FailToOpenSession, FailAuthentication, BrokenMessage,
      CloseCommand, ResetCommand, OtherFrame, ClearSessions,
      TakePersistentChange, vars
  <2> QED  BY <2>1, <1>3
<1> QED
  BY <1>4, <1>5, <1>6, <1>7, <1>8 DEF Next, SessionFrame, OtherCommand

\* Every step keeps persistent_change a Boolean.
LEMMA PersistentChangeTypeStep ==
  TypeOK /\ [Next]_vars => persistent_change' \in BOOLEAN
BY DEF TypeOK, Next, vars, Tick, SessionFrame, OpenSession, FailToOpenSession,
  AuthenticateSession, FailAuthentication, BrokenMessage, OtherFrame,
  ClearSessions, StoreCommand, CreateCommand, ChangeKeyCommand, DeleteCommand,
  OptionCommand, SetForceAuditCommand, SetCommandAuditCommand,
  SetAlgorithmToggleCommand, SetFipsModeCommand, OtherCommand, ReadCommand,
  FailedCommand, RefusedCommand, SetLogIndexCommand, ResetCommand,
  CloseCommand, TakePersistentChange, Succeeds

\* factory_default is well-typed.
LEMMA TypeInit == Init => TypeOK
<1> SUFFICES ASSUME Init PROVE TypeOK
  OBVIOUS
<1>1. StoreTypeOK
  <2>1. objects = FactoryObjects /\ sequence_history = FactoryHistory
    BY DEF Init, StoreInit
  <2>2. 0 \in 0..MaxGeneration
    BY ModulusFacts
  <2> QED  BY <2>1, <2>2, FactoryFacts DEF StoreTypeOK
<1>2. OptionsTypeOK
  BY DEF Init, StoreInit, AuditInit, OptionsTypeOK, OptionValues
<1>3. audit \in AuditStates
  BY BoundFacts DEF Init, AuditInit, FreshLog, AuditStates
<1>4. SessionsTypeOK /\ persistent_change \in BOOLEAN
  BY DEF Init, SessionsTypeOK
<1> QED  BY <1>1, <1>2, <1>3, <1>4 DEF TypeOK

\* Whatever frames arrive in whatever order, every field of the device keeps
\* its type: the store, the options, the audit log and the session table
\* (device.rs handle_frame_with_hooks).
THEOREM TypeCorrect == Spec => []TypeOK
<1>1. TypeOK /\ [Next]_vars => TypeOK'
  BY StoreSteps, StoreTypeStep, OptionsTypeStep, AuditTypeStep,
     SessionsTypeStep, PersistentChangeTypeStep DEF TypeOK
<1> QED  BY TypeInit, <1>1, PTL DEF Spec

-----------------------------------------------------------------------------
(* Generations *)

\* Writing one key keeps sequence numbers apart: the new one is the id's next
\* generation, which no object of the id can have yet.
LEMMA WriteKeepsSequences ==
  ASSUME StoreTypeOK, SequencesIdentifyWrites,
         NEW key \in Keys, NEW info \in ObjectInfo, WriteObject(key, info)
  PROVE  SequencesIdentifyWrites'
<1> DEFINE g == NextGeneration(key[2])
           h == sequence_history
<1>1. /\ key[2] \in Ids
      /\ g \in Nat
      /\ key[2] \in DOMAIN h => h[key[2]] \in Nat /\ g = h[key[2]] + 1
  BY WriteEffect, NextGenerationType
<1>2. /\ DOMAIN h' = DOMAIN h \cup {key[2]}
      /\ h'[key[2]] = g
      /\ \A id \in DOMAIN h : id # key[2] => h'[id] = h[id]
  BY WriteEffect
<1>3. /\ DOMAIN objects' = DOMAIN objects \cup {key}
      /\ \A other \in DOMAIN objects :
           other # key => objects'[other] = objects[other]
      /\ g < SequenceModulus => objects'[key].sequence = g
  BY <1>1, WriteEffect, ModulusFacts
<1>4. \A k \in DOMAIN objects :
        /\ k[2] \in DOMAIN h
        /\ h[k[2]] \in Nat
        /\ objects[k].sequence \in Nat
  BY ModulusFacts DEF SequencesIdentifyWrites, StoreTypeOK, ObjectInfo
<1>5. SequenceModulus \in Nat
  BY ModulusFacts
<1>6. ASSUME NEW k \in DOMAIN objects' PROVE k[2] \in DOMAIN h'
  BY <1>2, <1>3, <1>4, <1>6
<1>7. ASSUME NEW k \in DOMAIN objects, k # key, k[2] = key[2],
             g < SequenceModulus
      PROVE  objects[k].sequence < g
  <2>1. h[k[2]] < SequenceModulus /\ g = h[k[2]] + 1
    BY <1>1, <1>4, <1>5, <1>7
  <2>2. objects[k].sequence <= h[k[2]]
    BY <2>1 DEF SequencesIdentifyWrites
  <2> QED  BY <1>4, <2>1, <2>2
<1>8. ASSUME NEW k \in DOMAIN objects', h'[k[2]] < SequenceModulus
      PROVE  objects'[k].sequence <= h'[k[2]]
  <2>1. CASE k = key
    BY <1>1, <1>2, <1>3, <1>8, <2>1
  <2>2. CASE k # key /\ k[2] = key[2]
    BY <1>1, <1>2, <1>3, <1>4, <1>7, <1>8, <2>2
  <2>3. CASE k[2] # key[2]
    <3>1. k \in DOMAIN objects /\ k # key /\ h'[k[2]] = h[k[2]]
      BY <1>2, <1>3, <1>4, <2>3
    <3> QED  BY <1>3, <1>8, <3>1 DEF SequencesIdentifyWrites
  <2> QED  BY <2>1, <2>2, <2>3
<1>9. ASSUME NEW k \in DOMAIN objects', h'[k[2]] < SequenceModulus,
             NEW other \in DOMAIN objects' \ {k}, other[2] = k[2]
      PROVE  objects'[other].sequence # objects'[k].sequence
  <2>1. CASE k[2] = key[2]
    <3>1. g < SequenceModulus
      BY <1>2, <1>9, <2>1
    <3>2. CASE k = key
      <4>1. other \in DOMAIN objects /\ other # key
        BY <1>3, <1>9, <3>2
      <4> QED  BY <1>1, <1>3, <1>4, <1>7, <1>9, <2>1, <3>1, <3>2, <4>1
    <3>3. CASE other = key
      <4>1. k \in DOMAIN objects /\ k # key
        BY <1>3, <1>9, <3>3
      <4> QED  BY <1>1, <1>3, <1>4, <1>7, <2>1, <3>1, <3>3, <4>1
    <3>4. CASE k # key /\ other # key
      <4>1. k \in DOMAIN objects /\ other \in DOMAIN objects \ {k}
        BY <1>3, <1>9, <3>4
      <4>2. h[k[2]] < SequenceModulus
        BY <1>1, <1>4, <1>5, <2>1, <3>1, <4>1
      <4> QED  BY <1>3, <1>9, <3>4, <4>1, <4>2 DEF SequencesIdentifyWrites
    <3> QED  BY <3>2, <3>3, <3>4
  <2>2. CASE k[2] # key[2]
    <3>1. /\ k \in DOMAIN objects /\ k # key /\ h'[k[2]] = h[k[2]]
          /\ other \in DOMAIN objects \ {k} /\ other # key
      BY <1>2, <1>3, <1>4, <1>9, <2>2
    <3> QED  BY <1>3, <1>9, <3>1 DEF SequencesIdentifyWrites
  <2> QED  BY <2>1, <2>2
<1> QED  BY <1>6, <1>8, <1>9 DEF SequencesIdentifyWrites

\* Objects that share an id never share a sequence number, and none is ahead
\* of the id's generation, until the low byte has wrapped: for every pattern
\* of creations, imports, replacements, deletions and resets (device.rs
\* write_object, next_generation).
THEOREM SequencesIdentify == Spec => []SequencesIdentifyWrites
<1>1. Init => SequencesIdentifyWrites
  <2> SUFFICES ASSUME Init PROVE SequencesIdentifyWrites
    OBVIOUS
  <2>1. objects = FactoryObjects /\ sequence_history = FactoryHistory
    BY DEF Init, StoreInit
  <2> QED  BY <2>1, FactoryFacts DEF SequencesIdentifyWrites
<1>2. TypeOK /\ SequencesIdentifyWrites /\ [Next]_vars => SequencesIdentifyWrites'
  <2> SUFFICES ASSUME TypeOK, SequencesIdentifyWrites, StoreStep
               PROVE  SequencesIdentifyWrites'
    BY StoreSteps
  <2>0. StoreTypeOK /\ DOMAIN objects \subseteq Keys
    BY DEF TypeOK, StoreTypeOK
  <2>1. ASSUME NEW auth, Creates(auth) PROVE SequencesIdentifyWrites'
    BY <2>0, <2>1, WriteKeepsSequences DEF Creates
  <2>2. CASE Rewrites
    BY <2>0, <2>2, WriteKeepsSequences DEF Rewrites
  <2>3. CASE Deletes
    BY <2>3 DEF Deletes, Remove, SequencesIdentifyWrites
  <2>4. CASE ResetStore
    <3>1. objects' = FactoryObjects /\ sequence_history' = FactoryHistory
      BY <2>4 DEF ResetStore
    <3> QED  BY <3>1, FactoryFacts DEF SequencesIdentifyWrites
  <2>5. CASE UNCHANGED storeVars
    BY <2>5 DEF storeVars, SequencesIdentifyWrites
  <2> QED  BY <2>1, <2>2, <2>3, <2>4, <2>5 DEF StoreStep
<1> QED  BY <1>1, <1>2, TypeCorrect, PTL DEF Spec

\* Short of a reset no generation is forgotten or taken back, and what appears
\* or changes in the store carries the next one (device.rs write_object,
\* DeleteObject).
THEOREM GenerationsOnlyAdvance == Spec => GenerationsAdvance
<1> DEFINE Advance ==
      \/ FactoryReset
      \/ /\ \A id \in DOMAIN sequence_history :
              /\ id \in DOMAIN sequence_history'
              /\ sequence_history'[id] >= sequence_history[id]
         /\ \A key \in DOMAIN objects' :
              \/ key \in DOMAIN objects /\ objects'[key] = objects[key]
              \/ sequence_history'[key[2]] = NextGeneration(key[2])
<1>1. TypeOK /\ [Next]_vars => [Advance]_vars
  <2> SUFFICES ASSUME TypeOK, StoreStep PROVE Advance
    BY StoreSteps
  <2>0. StoreTypeOK /\ DOMAIN objects \subseteq Keys
    BY DEF TypeOK, StoreTypeOK
  <2>1. \A id \in DOMAIN sequence_history :
          id \in Ids /\ sequence_history[id] \in Nat
    BY <2>0, ModulusFacts DEF StoreTypeOK
  <2>2. ASSUME NEW key \in Keys, NEW info \in ObjectInfo, WriteObject(key, info)
        PROVE  Advance
    <3>1. /\ DOMAIN sequence_history' = DOMAIN sequence_history \cup {key[2]}
          /\ sequence_history'[key[2]] = NextGeneration(key[2])
          /\ \A id \in DOMAIN sequence_history :
               id # key[2] => sequence_history'[id] = sequence_history[id]
          /\ DOMAIN objects' = DOMAIN objects \cup {key}
          /\ \A other \in DOMAIN objects :
               other # key => objects'[other] = objects[other]
      BY <2>0, <2>2, WriteEffect
    <3>2. \A id \in DOMAIN sequence_history :
            sequence_history'[id] >= sequence_history[id]
      BY <2>0, <2>1, <3>1, NextGenerationType
    <3> QED  BY <3>1, <3>2
  <2>3. ASSUME NEW auth, Creates(auth) PROVE Advance
    BY <2>2, <2>3 DEF Creates
  <2>4. CASE Rewrites
    BY <2>0, <2>2, <2>4 DEF Rewrites
  <2>5. CASE Deletes
    BY <2>1, <2>5 DEF Deletes, Remove
  <2>6. CASE ResetStore /\ DOMAIN sessions' = {}
    BY <2>6 DEF ResetStore, FactoryReset
  <2>7. CASE UNCHANGED storeVars
    BY <2>1, <2>7 DEF storeVars
  <2> QED  BY <2>3, <2>4, <2>5, <2>6, <2>7 DEF StoreStep
<1> QED  BY <1>1, TypeCorrect, PTL DEF Spec, GenerationsAdvance

-----------------------------------------------------------------------------
(* Authority *)

\* What one session may delegate and reach is part of what anybody may.
LEMMA SessionBelowAll ==
  ASSUME TypeOK, NEW sid \in DOMAIN sessions
  PROVE  /\ sessions[sid].authorization.delegated \subseteq DelegableCapabilities
         /\ sessions[sid].authorization.domains \subseteq ReachableDomains
<1>1. sessions[sid] \in SessionEntries
  BY DEF TypeOK, SessionsTypeOK
<1>2. /\ sessions[sid].authorization.delegated \subseteq Capabilities
      /\ sessions[sid].authorization.domains \subseteq Domains
  BY <1>1 DEF SessionEntries, Authorizations
<1> QED  BY <1>2 DEF DelegableCapabilities, ReachableDomains

\* What an Authentication Key holds somebody can delegate and reach.
LEMMA KeyBelowAll ==
  ASSUME TypeOK, NEW key \in DOMAIN objects, key[1] = "AuthenticationKey"
  PROVE  /\ objects[key].delegated \subseteq DelegableCapabilities
         /\ objects[key].domains \subseteq ReachableDomains
<1>1. objects[key] \in ObjectInfo
  BY DEF TypeOK, StoreTypeOK
<1>2. /\ objects[key].delegated \subseteq Capabilities
      /\ objects[key].domains \subseteq Domains
  BY <1>1 DEF ObjectInfo
<1> QED  BY <1>2 DEF DelegableCapabilities, ReachableDomains, AuthenticationKeys

\* The authority of a state is bounded as soon as each source of it is.
LEMMA AuthorityBound ==
  ASSUME \A key \in DOMAIN objects' : key[1] = "AuthenticationKey" =>
           /\ objects'[key].delegated \subseteq DelegableCapabilities
           /\ objects'[key].domains \subseteq ReachableDomains,
         \A sid \in DOMAIN sessions' :
           /\ sessions'[sid].authorization.delegated \subseteq DelegableCapabilities
           /\ sessions'[sid].authorization.domains \subseteq ReachableDomains
  PROVE  /\ DelegableCapabilities' \subseteq DelegableCapabilities
         /\ ReachableDomains' \subseteq ReachableDomains
<1>1. ASSUME NEW c \in DelegableCapabilities' PROVE c \in DelegableCapabilities
  <2>1. \/ \E key \in DOMAIN objects' : /\ key[1] = "AuthenticationKey"
                                        /\ c \in objects'[key].delegated
        \/ \E sid \in DOMAIN sessions' : c \in sessions'[sid].authorization.delegated
    BY <1>1 DEF DelegableCapabilities, AuthenticationKeys
  <2> QED  BY <2>1
<1>2. ASSUME NEW d \in ReachableDomains' PROVE d \in ReachableDomains
  <2>1. \/ \E key \in DOMAIN objects' : /\ key[1] = "AuthenticationKey"
                                        /\ d \in objects'[key].domains
        \/ \E sid \in DOMAIN sessions' : d \in sessions'[sid].authorization.domains
    BY <1>2 DEF ReachableDomains, AuthenticationKeys
  <2> QED  BY <2>1
<1> QED  BY <1>1, <1>2

\* A step leaves each session with an authority that existed before it.
LEMMA SessionsStayBelow ==
  ASSUME TypeOK, KeepsSessions \/ Opens
  PROVE  \A sid \in DOMAIN sessions' :
           /\ sessions'[sid].authorization.delegated \subseteq DelegableCapabilities
           /\ sessions'[sid].authorization.domains \subseteq ReachableDomains
<1>1. CASE KeepsSessions
  BY <1>1, SessionBelowAll DEF KeepsSessions
<1>2. CASE Opens
  <2>1. PICK id \in Ids :
          /\ <<"AuthenticationKey", id>> \in DOMAIN objects
          /\ \A sid \in DOMAIN sessions' :
               \/ /\ sid \in DOMAIN sessions
                  /\ sessions'[sid].authorization = sessions[sid].authorization
               \/ sessions'[sid].authorization = SessionAuthorization(id)
    BY <1>2 DEF Opens
  <2>2. /\ SessionAuthorization(id).delegated \subseteq DelegableCapabilities
        /\ SessionAuthorization(id).domains \subseteq ReachableDomains
    BY <2>1, KeyBelowAll DEF SessionAuthorization
  <2> QED  BY <2>1, <2>2, SessionBelowAll
<1> QED  BY <1>1, <1>2

\* Every object a step leaves in the store either keeps its grants or stays
\* below what could be delegated and reached before.
LEMMA ObjectsBelow ==
  ASSUME TypeOK, StoreStep,
         ~(ResetStore /\ DOMAIN sessions' = {})
  PROVE  \A key \in DOMAIN objects' :
           IF key \in DOMAIN objects
             THEN SameGrants(objects'[key], objects[key])
             ELSE /\ objects'[key].capabilities \subseteq DelegableCapabilities
                  /\ objects'[key].delegated \subseteq DelegableCapabilities
                  /\ objects'[key].domains \subseteq ReachableDomains
<1>0. StoreTypeOK /\ DOMAIN objects \subseteq Keys
  BY DEF TypeOK, StoreTypeOK
<1>1. ASSUME NEW sid \in DOMAIN sessions, Creates(sessions[sid].authorization)
      PROVE  \A key \in DOMAIN objects' :
               IF key \in DOMAIN objects
                 THEN SameGrants(objects'[key], objects[key])
                 ELSE /\ objects'[key].capabilities \subseteq DelegableCapabilities
                      /\ objects'[key].delegated \subseteq DelegableCapabilities
                      /\ objects'[key].domains \subseteq ReachableDomains
  <2>1. PICK key \in Keys, info \in ObjectInfo :
          /\ key \notin DOMAIN objects
          /\ Within(sessions[sid].authorization, info)
          /\ WriteObject(key, info)
    BY <1>1 DEF Creates
  <2>2. /\ DOMAIN objects' = DOMAIN objects \cup {key}
        /\ \A other \in DOMAIN objects :
             other # key => objects'[other] = objects[other]
        /\ SameGrants(objects'[key], info)
    BY <1>0, <2>1, WriteEffect
  <2>3. /\ info.capabilities \subseteq DelegableCapabilities
        /\ info.delegated \subseteq DelegableCapabilities
        /\ info.domains \subseteq ReachableDomains
    BY <2>1, SessionBelowAll DEF Within
  <2> QED  BY <2>1, <2>2, <2>3 DEF SameGrants
<1>2. CASE Rewrites
  <2>1. PICK key \in DOMAIN objects, info \in ObjectInfo :
          SameGrants(info, objects[key]) /\ WriteObject(key, info)
    BY <1>2 DEF Rewrites
  <2>2. /\ DOMAIN objects' = DOMAIN objects \cup {key}
        /\ \A other \in DOMAIN objects :
             other # key => objects'[other] = objects[other]
        /\ SameGrants(objects'[key], info)
    BY <1>0, <2>1, WriteEffect
  <2> QED  BY <2>1, <2>2 DEF SameGrants
<1>3. CASE Deletes
  BY <1>3 DEF Deletes, Remove, SameGrants
<1>4. CASE UNCHANGED storeVars
  BY <1>4 DEF storeVars, SameGrants
<1> QED  BY <1>1, <1>2, <1>3, <1>4 DEF StoreStep

\* The capabilities and domains the device as a whole can still hand out never
\* grow but by a factory reset, however sessions, keys and wrapped imports are
\* combined (authorization.rs authorize_create, authorize_wrapped_creation;
\* device.rs create_session, change_authentication_key).
THEOREM AuthorityIsClosed == Spec => AuthorityNeverGrows
<1> DEFINE Bounded ==
      \/ FactoryReset
      \/ /\ DelegableCapabilities' \subseteq DelegableCapabilities
         /\ ReachableDomains' \subseteq ReachableDomains
<1>1. TypeOK /\ [Next]_vars => [Bounded]_vars
  <2> SUFFICES ASSUME TypeOK, StoreStep PROVE Bounded
    BY StoreSteps
  <2>1. CASE ResetStore /\ DOMAIN sessions' = {}
    BY <2>1 DEF ResetStore, FactoryReset
  <2>2. CASE ~(ResetStore /\ DOMAIN sessions' = {})
    <3>1. KeepsSessions \/ Opens
      BY <2>2 DEF StoreStep
    <3>2. \A key \in DOMAIN objects' : key[1] = "AuthenticationKey" =>
            /\ objects'[key].delegated \subseteq DelegableCapabilities
            /\ objects'[key].domains \subseteq ReachableDomains
      BY <2>2, ObjectsBelow, KeyBelowAll DEF SameGrants
    <3> QED  BY <3>1, <3>2, SessionsStayBelow, AuthorityBound
  <2> QED  BY <2>1, <2>2
<1> QED  BY <1>1, TypeCorrect, PTL DEF Spec, AuthorityNeverGrows

\* No command gives an object a capability or a domain nobody could delegate
\* or reach, and an object that stays keeps what it was granted (device.rs
\* put_opaque, change_authentication_key, import_wrapped).
THEOREM CeilingHolds == Spec => ObjectsStayBelowCeiling
<1> DEFINE Below ==
      \/ FactoryReset
      \/ \A key \in DOMAIN objects' :
           IF key \in DOMAIN objects
             THEN /\ objects'[key].capabilities = objects[key].capabilities
                  /\ objects'[key].delegated = objects[key].delegated
                  /\ objects'[key].domains = objects[key].domains
             ELSE /\ objects'[key].capabilities \subseteq DelegableCapabilities
                  /\ objects'[key].delegated \subseteq DelegableCapabilities
                  /\ objects'[key].domains \subseteq ReachableDomains
<1>1. TypeOK /\ [Next]_vars => [Below]_vars
  <2> SUFFICES ASSUME TypeOK, StoreStep PROVE Below
    BY StoreSteps
  <2>1. CASE ResetStore /\ DOMAIN sessions' = {}
    BY <2>1 DEF ResetStore, FactoryReset
  <2>2. CASE ~(ResetStore /\ DOMAIN sessions' = {})
    BY <2>2, ObjectsBelow DEF SameGrants
  <2> QED  BY <2>1, <2>2
<1> QED  BY <1>1, TypeCorrect, PTL DEF Spec, ObjectsStayBelowCeiling

-----------------------------------------------------------------------------
(* What a step does to the log *)

stateVars == <<objects, sequence_history, optionVars>>

\* No session is authenticated that was not before.
NoneOpens ==
  \A sid \in DOMAIN sessions' :
    sessions'[sid].authenticated =>
      sid \in DOMAIN sessions /\ sessions[sid].authenticated

Rests == UNCHANGED durable /\ NoneOpens

\* A handshake that authenticates is counted before it is logged.
Shakes ==
  \E command \in {"CreateSession", "AuthenticateSession"},
     key \in Ids, ok \in BOOLEAN : \E log :
    /\ UNCHANGED stateVars
    /\ audit' = Logged(log, ShouldAudit(command), key, command, ok)
    /\ audit'.previous_digest <= MaxAppends
    /\ Appends(audit, command) => persistent_change'
    /\ \/ log = audit /\ NoneOpens
       \/ /\ ok /\ log = RecordUnloggedAuthentication(audit)
          /\ CountsUnlogged(audit) => persistent_change'

\* A command that changes objects or options is one the log may refuse.
Changes(sid, command) ==
  /\ command \in ChangesPersistentState /\ Ordinary(command)
  /\ sessions' = Refreshed(sid)

Serves ==
  \E sid \in DOMAIN sessions, command \in Commands, ok \in BOOLEAN : \E log :
    /\ Executes(sid, command)
    /\ audit' = Logged(log, ShouldAudit(command), Auth(sid).key, command, ok)
    /\ audit'.previous_digest <= MaxAppends
    /\ Appends(log, command) => persistent_change'
    /\ NoneOpens
    /\ \/ log = audit /\ UNCHANGED stateVars
       \/ /\ persistent_change' /\ UNCHANGED stateVars
          /\ \E index \in 0..MaxNumber : log = RetainAfter(audit, index)
       \/ ok /\ persistent_change' /\ log = audit /\ Changes(sid, command)
       \/ /\ ok /\ persistent_change' /\ log = FreshLog
          /\ command = "ResetDevice" /\ FactoryReset

FrameStep == Rests \/ Shakes \/ Serves

\* Expiring, refreshing and dropping sessions authenticates nobody.
LEMMA TablesOpenNobody ==
  /\ \A sid \in DOMAIN Live : sessions' = Refreshed(sid) => NoneOpens
  /\ \A sid : sessions' \in {Live, Remove(Live, sid), [s \in {} |-> {}], sessions}
                => NoneOpens
<1>1. ASSUME NEW sid \in DOMAIN Live, sessions' = Refreshed(sid) PROVE NoneOpens
  <2>1. /\ DOMAIN sessions' = DOMAIN Live
        /\ \A s \in DOMAIN Live : sessions'[s].authenticated = Live[s].authenticated
    BY <1>1 DEF Refreshed, Live
  <2> QED  BY <2>1, LiveFacts DEF NoneOpens
<1>2. ASSUME NEW sid,
             sessions' \in {Live, Remove(Live, sid), [s \in {} |-> {}], sessions}
      PROVE  NoneOpens
  BY <1>2, LiveFacts DEF NoneOpens, Remove
<1> QED  BY <1>1, <1>2

\* The commands that change objects or options belong to the ones the code
\* lists as changing durable state, and can be refused and audited.
LEMMA ChangingCommands ==
  \A command \in StoreWrites \cup {"SetOption", "ResetDevice"} :
    /\ command \in ChangesPersistentState /\ Ordinary(command)
    /\ CanBeAudited(command)
BY DEF StoreWrites, Creations, Imports, ChangesPersistentState, Ordinary,
  CanBeAudited, MetaCommands, PlainCommands

\* Every step is one of the three kinds.
LEMMA FrameSteps == TypeOK /\ [Next]_vars => FrameStep
<1> SUFFICES ASSUME TypeOK, [Next]_vars PROVE FrameStep
  OBVIOUS
<1>1. ASSUME NEW sid, Arrives(sid)
      PROVE  sid \in DOMAIN Live /\ sid \in DOMAIN sessions
  BY <1>1, LiveFacts DEF Arrives
<1>2. ASSUME NEW sid \in DOMAIN sessions, NEW command \in Commands,
             command \in StoreWrites \cup {"SetOption"},
             Succeeds(sid, command, audit), sessions' = Refreshed(sid)
      PROVE  Serves
  <2>1. Executes(sid, command) /\ Arrives(sid)
    BY <1>2 DEF Succeeds, Executes
  <2>2. NoneOpens
    BY <1>1, <1>2, <2>1, TablesOpenNobody
  <2>3. Changes(sid, command)
    BY <1>2, ChangingCommands DEF Changes
  <2>4. persistent_change' /\ TRUE \in BOOLEAN
    BY <1>2, <2>3 DEF Succeeds, Changes
  <2>5. /\ audit' = Logged(audit, ShouldAudit(command), Auth(sid).key, command, TRUE)
        /\ audit'.previous_digest <= MaxAppends
    BY <1>2 DEF Succeeds
  <2> QED  BY <1>2, <2>1, <2>2, <2>3, <2>4, <2>5 DEF Serves
<1>3. ASSUME NEW sid \in DOMAIN sessions, StoreCommand(sid) PROVE Serves
  <2>1. PICK command \in Commands : /\ command \in StoreWrites
                                    /\ Succeeds(sid, command, audit)
                                    /\ sessions' = Refreshed(sid)
    BY <1>3 DEF StoreCommand, CreateCommand, ChangeKeyCommand, DeleteCommand,
      StoreWrites
  <2> QED  BY <1>2, <2>1
<1>4. ASSUME NEW sid \in DOMAIN sessions, OptionCommand(sid) PROVE Serves
  <2>1. /\ "SetOption" \in Commands /\ Succeeds(sid, "SetOption", audit)
        /\ sessions' = Refreshed(sid)
    BY <1>4 DEF OptionCommand, SetForceAuditCommand, SetCommandAuditCommand,
      SetAlgorithmToggleCommand, SetFipsModeCommand
  <2> QED  BY <1>2, <2>1
<1>5. ASSUME NEW sid \in DOMAIN sessions, NEW command \in Commands,
             ReadCommand(sid, command) \/ FailedCommand(sid, command)
      PROVE  Serves
  <2>1. /\ Executes(sid, command) /\ sessions' = Refreshed(sid)
        /\ audit'.previous_digest <= MaxAppends
        /\ UNCHANGED stateVars /\ (Appends(audit, command) => persistent_change')
    BY <1>5 DEF ReadCommand, FailedCommand, Succeeds, stateVars
  <2>2. NoneOpens
    BY <1>1, <2>1, TablesOpenNobody DEF Executes
  <2>3. \E ok \in BOOLEAN :
          audit' = Logged(audit, ShouldAudit(command), Auth(sid).key, command, ok)
    BY <1>5 DEF ReadCommand, FailedCommand, Succeeds
  <2> QED  BY <2>1, <2>2, <2>3 DEF Serves
<1>6. ASSUME NEW sid \in DOMAIN sessions, "SetLogIndex" \in Commands,
             NEW index \in 0..MaxNumber, SetLogIndexCommand(sid, index)
      PROVE  Serves
  <2> DEFINE log == RetainAfter(audit, index)
  <2>1. /\ Succeeds(sid, "SetLogIndex", log) /\ sessions' = Refreshed(sid)
        /\ UNCHANGED stateVars
    BY <1>6 DEF SetLogIndexCommand, stateVars
  <2> HIDE DEF log
  <2>2. /\ Executes(sid, "SetLogIndex") /\ persistent_change'
        /\ audit' = Logged(log, ShouldAudit("SetLogIndex"), Auth(sid).key,
                           "SetLogIndex", TRUE)
        /\ audit'.previous_digest <= MaxAppends
    BY <2>1 DEF Succeeds, ChangesPersistentState
  <2>3. NoneOpens
    BY <1>1, <2>1, <2>2, TablesOpenNobody DEF Executes
  <2>4. \E i \in 0..MaxNumber : log = RetainAfter(audit, i)
    BY DEF log
  <2> QED  BY <1>6, <2>1, <2>2, <2>3, <2>4 DEF Serves
<1>7. ASSUME NEW sid \in DOMAIN sessions, "ResetDevice" \in Commands, ResetCommand(sid)
      PROVE  Serves
  <2>1. /\ Succeeds(sid, "ResetDevice", FreshLog) /\ FactoryReset
        /\ sessions' = [s \in {} |-> {}]
    BY <1>7 DEF ResetCommand, ResetStore, FactoryReset
  <2>2. /\ Executes(sid, "ResetDevice") /\ persistent_change'
        /\ audit' = Logged(FreshLog, ShouldAudit("ResetDevice"), Auth(sid).key,
                           "ResetDevice", TRUE)
        /\ audit'.previous_digest <= MaxAppends
    BY <2>1 DEF Succeeds, ChangesPersistentState
  <2>3. NoneOpens
    BY <2>1 DEF NoneOpens
  <2> QED  BY <1>7, <2>1, <2>2, <2>3 DEF Serves
<1>8. ASSUME NEW id \in Ids, OpenSession(id) PROVE Shakes
  <2> DEFINE key == <<"AuthenticationKey", id>>
             asymmetric == objects[key].algorithm = "EcP256Auth"
             log == IF asymmetric THEN RecordUnloggedAuthentication(audit) ELSE audit
             entry == [ authorization |-> SessionAuthorization(id),
                        authenticated |-> asymmetric, idle |-> 0 ]
  <2>1. /\ audit' = Logged(log, ShouldAudit("CreateSession"), id, "CreateSession", TRUE)
        /\ audit'.previous_digest <= MaxAppends
        /\ \E sid \in Sids : sessions' = Insert(Live, sid, entry)
        /\ UNCHANGED stateVars
        /\ asymmetric /\ CountsUnlogged(audit) => persistent_change'
        /\ Appends(audit, "CreateSession") => persistent_change'
    BY <1>8 DEF OpenSession, stateVars
  <2>2. CASE asymmetric
    <3>1. log = RecordUnloggedAuthentication(audit)
      BY <2>2
    <3> HIDE DEF asymmetric, log
    <3> QED  BY <2>1, <2>2, <3>1 DEF Shakes
  <2>3. CASE ~asymmetric
    <3>1. log = audit
      BY <2>3
    <3>2. entry.authenticated = FALSE
      BY <2>3
    <3> HIDE DEF entry, asymmetric, log
    <3>3. NoneOpens
      BY <2>1, <3>2, LiveFacts DEF Insert, NoneOpens
    <3> QED  BY <2>1, <3>1, <3>3 DEF Shakes
  <2> QED  BY <2>2, <2>3
<1>9. ASSUME NEW id \in Ids, FailToOpenSession(id) PROVE Shakes
  <2>1. NoneOpens
    BY <1>9, TablesOpenNobody DEF FailToOpenSession
  <2> QED  BY <1>9, <2>1 DEF FailToOpenSession, Shakes, stateVars
<1>10. ASSUME NEW sid, AuthenticateSession(sid) PROVE Shakes
  <2>1. Live[sid].authorization.key \in Ids
    BY <1>10, AuthorizationType DEF AuthenticateSession, Auth
  <2>2. /\ audit' = Logged(RecordUnloggedAuthentication(audit),
                           ShouldAudit("AuthenticateSession"),
                           Live[sid].authorization.key, "AuthenticateSession", TRUE)
        /\ audit'.previous_digest <= MaxAppends
        /\ UNCHANGED stateVars
        /\ CountsUnlogged(audit) => persistent_change'
        /\ Appends(audit, "AuthenticateSession") => persistent_change'
    BY <1>10 DEF AuthenticateSession, stateVars
  <2> QED  BY <2>1, <2>2 DEF Shakes
<1>11. ASSUME NEW sid, FailAuthentication(sid) PROVE Shakes
  <2>1. Live[sid].authorization.key \in Ids
    BY <1>11, AuthorizationType DEF FailAuthentication, Auth
  <2>2. NoneOpens
    BY <1>11, TablesOpenNobody DEF FailAuthentication
  <2> QED  BY <1>11, <2>1, <2>2 DEF FailAuthentication, Shakes, stateVars
<1>12. CASE Tick
  <2>1. /\ DOMAIN sessions' = DOMAIN sessions
        /\ \A sid \in DOMAIN sessions :
             sessions'[sid].authenticated = sessions[sid].authenticated
    BY <1>12 DEF Tick, TypeOK, SessionsTypeOK, SessionEntries
  <2> QED  BY <1>12, <2>1 DEF Tick, FrameStep, Rests, NoneOpens
<1>13. CASE ClearSessions \/ OtherFrame \/ TakePersistentChange \/ UNCHANGED vars
  <2>1. UNCHANGED durable
        /\ sessions' \in {Live, [s \in {} |-> {}], sessions}
    BY <1>13 DEF ClearSessions, OtherFrame, TakePersistentChange, vars, durable, optionVars
  <2> QED  BY <2>1, TablesOpenNobody DEF FrameStep, Rests
<1>14. ASSUME NEW sid \in DOMAIN sessions, BrokenMessage(sid) \/ CloseCommand(sid)
       PROVE  Rests
  BY <1>14, TablesOpenNobody DEF BrokenMessage, CloseCommand, Rests
<1>15. ASSUME NEW sid \in DOMAIN sessions, NEW command \in Commands,
              RefusedCommand(sid, command)
       PROVE  Rests
  BY <1>1, <1>15, TablesOpenNobody DEF RefusedCommand, Rests
<1> QED
  BY <1>3, <1>4, <1>5, <1>6, <1>7, <1>8, <1>9, <1>10, <1>11, <1>12, <1>13, <1>14,
     <1>15 DEF Next, SessionFrame, OtherCommand, FrameStep

-----------------------------------------------------------------------------
(* The log is the tail of its chain *)

Entry(log, key, command, ok) ==
  [ number |-> log.next_number, command |-> command, session_key |-> key, ok |-> ok,
    digest |-> log.previous_digest + 1 ]

\* LogIsChainTail of any log.
Whole(log) ==
  /\ IsFiniteSet(log.entries)
  /\ Cardinality(log.entries) <= LogCapacity
  /\ Numbered(log.next_number, log.previous_digest + 1)
  /\ \A entry \in log.entries :
       /\ entry.digest \in 1 .. log.previous_digest
       /\ Numbered(entry.number, entry.digest)
       /\ \A other \in log.entries : other.digest = entry.digest => other = entry
       /\ log.previous_digest <= MaxNumber =>
            \A d \in entry.digest .. log.previous_digest :
              \E later \in log.entries : later.digest = d

\* On the first lap a number is the place in the chain; the number after that
\* of one place belongs to the next place.
LEMMA NumberFacts ==
  ASSUME NEW number, NEW digest \in Nat, Numbered(number, digest)
  PROVE  /\ digest <= MaxNumber => number = digest
         /\ Numbered(NextNumber(number), digest + 1)
<1>1. MaxNumber \in Nat \ {0}
  BY AuditAssumption DEF AuditAssumption
<1>2. PICK lap \in 0..digest : digest = lap * MaxNumber + number
  BY DEF Numbered
<1>3. number \in 1..MaxNumber /\ lap \in Nat
  BY <1>2 DEF Numbered
<1>4. ASSUME digest <= MaxNumber PROVE number = digest
  <2>1. lap # 0 => lap * MaxNumber >= MaxNumber
    BY <1>1, <1>3
  <2>2. lap * MaxNumber \in Nat
    BY <1>1, <1>3
  <2>3. lap = 0
    BY <1>1, <1>2, <1>3, <1>4, <2>1, <2>2
  <2>4. 0 * MaxNumber = 0
    BY <1>1
  <2> QED  BY <1>2, <1>3, <2>3, <2>4
<1>5. CASE number # MaxNumber
  <2>1. NextNumber(number) = number + 1 /\ number + 1 \in 1..MaxNumber
    BY <1>1, <1>3, <1>5 DEF NextNumber
  <2>2. lap * MaxNumber \in Nat
    BY <1>1, <1>3
  <2>3. lap \in 0 .. digest + 1 /\ digest + 1 = lap * MaxNumber + (number + 1)
    BY <1>2, <1>3, <2>2
  <2> QED  BY <1>4, <2>1, <2>3 DEF Numbered
<1>6. CASE number = MaxNumber
  <2>1. NextNumber(number) = 1 /\ 1 \in 1..MaxNumber
    BY <1>1, <1>6 DEF NextNumber
  <2>2. (lap + 1) * MaxNumber = lap * MaxNumber + MaxNumber
    BY <1>1, <1>3
  <2>3. lap + 1 \in 0 .. digest + 1
    BY <1>2, <1>3
  <2>4. digest + 1 = (lap + 1) * MaxNumber + 1
    BY <1>2, <1>6, <2>2
  <2> QED  BY <1>4, <2>1, <2>3, <2>4 DEF Numbered
<1> QED  BY <1>5, <1>6

LEMMA LogFields ==
  ASSUME NEW log \in AuditStates
  PROVE  /\ log.entries \subseteq AuditEntries /\ log.next_number \in 1..MaxNumber
         /\ log.previous_digest \in 0..MaxAppends /\ log.previous_digest \in Nat
         /\ log.unlogged_authentication \in 0..MaxUnlogged
         /\ \A entry \in log.entries : entry.digest \in 1..MaxAppends
                                       /\ entry.number \in 1..MaxNumber
BY BoundFacts DEF AuditStates, AuditEntries

\* append_audit_entry with room left.
LEMMA AppendFacts ==
  ASSUME NEW log \in AuditStates, NEW key, NEW command, NEW ok, ~Full(log),
         NEW next, next = AppendEntry(log, key, command, ok)
  PROVE  /\ next.entries = log.entries \cup {Entry(log, key, command, ok)}
         /\ next.next_number = NextNumber(log.next_number)
         /\ next.previous_digest = log.previous_digest + 1
         /\ next.unlogged_authentication = log.unlogged_authentication
<1> DEFINE entry == Entry(log, key, command, ok)
<1>1. next = [log EXCEPT !.entries = @ \cup {entry}, !.next_number = NextNumber(@),
                         !.previous_digest = @ + 1]
  BY DEF AppendEntry, Entry
<1> HIDE DEF entry
<1>2. /\ next.entries = log.entries \cup {entry}
      /\ next.next_number = NextNumber(log.next_number)
      /\ next.previous_digest = log.previous_digest + 1
      /\ next.unlogged_authentication = log.unlogged_authentication
  BY <1>1 DEF AuditStates
<1> QED  BY <1>2 DEF entry

LEMMA FreshLogWhole == Whole(FreshLog) /\ ~Full(FreshLog) /\ FreshLog \in AuditStates
<1>1. FreshLog.entries = {} /\ FreshLog.previous_digest = 0 /\ FreshLog.next_number = 1
  BY DEF FreshLog
<1>2. Numbered(1, 0 + 1)
  BY AuditAssumption, 1 = 0 * MaxNumber + 1 DEF AuditAssumption, Numbered
<1>3. Whole(FreshLog) /\ ~Full(FreshLog)
  BY <1>1, <1>2, FS_EmptySet, BoundFacts DEF Whole, Full
<1>4. FreshLog \in AuditStates
  BY BoundFacts DEF FreshLog, AuditStates
<1> QED  BY <1>3, <1>4

\* The counter of unlogged authentications does not touch the chain; an
\* acknowledged entry is dropped with everything before it.
LEMMA OtherLogsWhole ==
  ASSUME NEW log \in AuditStates, Whole(log), NEW index \in 0..MaxNumber
  PROVE  /\ Whole(RecordUnloggedAuthentication(log))
         /\ Whole(RetainAfter(log, index))
<1>1. Whole(RecordUnloggedAuthentication(log))
  <2> DEFINE next == RecordUnloggedAuthentication(log)
  <2>1. /\ next.entries = log.entries /\ next.next_number = log.next_number
        /\ next.previous_digest = log.previous_digest
    BY DEF RecordUnloggedAuthentication, AuditStates
  <2> HIDE DEF next
  <2> QED  BY <2>1 DEF Whole, next
<1>2. Whole(RetainAfter(log, index))
  <2> DEFINE next == RetainAfter(log, index)
  <2>1. /\ next.entries = {entry \in log.entries : entry.number > index}
        /\ next.next_number = log.next_number
        /\ next.previous_digest = log.previous_digest
    BY DEF RetainAfter, AuditStates
  <2> HIDE DEF next
  <2>2. /\ next.entries \subseteq log.entries /\ IsFiniteSet(next.entries)
        /\ Cardinality(next.entries) <= Cardinality(log.entries)
    BY <2>1, FS_Subset DEF Whole
  <2>3. Cardinality(next.entries) <= LogCapacity
    BY <2>2, FS_CardinalityType, BoundFacts DEF Whole
  <2>4. \A entry \in next.entries :
          /\ entry.digest \in 1 .. next.previous_digest
          /\ Numbered(entry.number, entry.digest)
          /\ \A other \in next.entries : other.digest = entry.digest => other = entry
    BY <2>1, <2>2 DEF Whole
  <2>5. ASSUME next.previous_digest <= MaxNumber, NEW entry \in next.entries,
               NEW d \in entry.digest .. next.previous_digest
        PROVE  \E later \in next.entries : later.digest = d
    <3>1. PICK later \in log.entries : later.digest = d
      BY <2>1, <2>5 DEF Whole
    <3>2. \A e \in log.entries : e.number = e.digest
      <4> SUFFICES ASSUME NEW e \in log.entries PROVE e.number = e.digest
        OBVIOUS
      <4>1. e.digest \in Nat /\ e.digest <= MaxNumber /\ Numbered(e.number, e.digest)
        BY <2>1, <2>5, LogFields, BoundFacts DEF Whole
      <4> QED  BY <4>1, NumberFacts
    <3>3. entry.number > index /\ entry.number = entry.digest /\ later.number = d
      BY <2>1, <2>5, <3>1, <3>2
    <3>4. later.number > index
      BY <2>1, <2>4, <2>5, <3>3, LogFields, BoundFacts
    <3> QED  BY <2>1, <3>1, <3>4
  <2> QED  BY <2>1, <2>2, <2>3, <2>4, <2>5 DEF Whole, next
<1> QED  BY <1>1, <1>2

\* Appending extends the chain by its next link.
LEMMA LoggedWhole ==
  ASSUME NEW log \in AuditStates, Whole(log), NEW shouldAudit \in BOOLEAN,
         NEW key, NEW command, NEW ok
  PROVE  Whole(Logged(log, shouldAudit, key, command, ok))
<1>1. CASE ~shouldAudit \/ Full(log)
  BY <1>1 DEF Logged, AppendEntry
<1>2. CASE shouldAudit /\ ~Full(log)
  <2> DEFINE next == Logged(log, shouldAudit, key, command, ok)
             entry == Entry(log, key, command, ok)
             pd == log.previous_digest
  <2>1. next = AppendEntry(log, key, command, ok)
    BY <1>2 DEF Logged
  <2> HIDE DEF next
  <2>2. /\ next.entries = log.entries \cup {entry}
        /\ next.next_number = NextNumber(log.next_number)
        /\ next.previous_digest = pd + 1
    BY <1>2, <2>1, AppendFacts
  <2>3. entry.number = log.next_number /\ entry.digest = pd + 1
    BY DEF Entry
  <2>4. pd \in Nat /\ log.next_number \in 1..MaxNumber
    BY LogFields
  <2> HIDE DEF entry, pd
  <2>5. IsFiniteSet(next.entries) /\ Cardinality(next.entries) <= LogCapacity
    <3>1. /\ IsFiniteSet(log.entries) /\ Cardinality(log.entries) \in Nat
          /\ Cardinality(log.entries) < LogCapacity
      BY <1>2, FS_CardinalityType, BoundFacts DEF Whole, Full
    <3>2. /\ IsFiniteSet(log.entries \cup {entry})
          /\ Cardinality(log.entries \cup {entry})
               \in {Cardinality(log.entries), Cardinality(log.entries) + 1}
      BY <3>1, FS_AddElement
    <3> QED  BY <2>2, <3>1, <3>2, BoundFacts
  <2>6. \A e \in log.entries :
          /\ e.digest \in 1..pd /\ Numbered(e.number, e.digest)
          /\ \A other \in log.entries : other.digest = e.digest => other = e
    BY DEF Whole, pd
  <2>7. Numbered(log.next_number, pd + 1) /\ Numbered(next.next_number, pd + 1 + 1)
    <3>1. Numbered(log.next_number, pd + 1) /\ pd + 1 \in Nat
      BY <2>4 DEF Whole, pd
    <3> QED  BY <2>2, <3>1, NumberFacts
  <2>8. ASSUME NEW e \in next.entries
        PROVE  /\ e.digest \in 1 .. pd + 1 /\ Numbered(e.number, e.digest)
               /\ \A other \in next.entries : other.digest = e.digest => other = e
    <3>1. e.digest \in 1 .. pd + 1 /\ Numbered(e.number, e.digest)
      BY <2>2, <2>3, <2>4, <2>6, <2>7, <2>8
    <3>2. \A other \in log.entries : other.digest # pd + 1
      BY <2>4, <2>6
    <3> QED  BY <2>2, <2>3, <2>6, <2>8, <3>1, <3>2
  <2>9. ASSUME pd + 1 <= MaxNumber, NEW e \in next.entries, NEW d \in e.digest .. pd + 1
        PROVE  \E later \in next.entries : later.digest = d
    <3>1. CASE d = pd + 1
      BY <2>2, <2>3, <3>1
    <3>2. CASE d # pd + 1
      <4>1. d \in e.digest .. pd /\ e.digest # pd + 1
        BY <2>4, <2>8, <2>9, <3>2
      <4>2. e \in log.entries
        BY <2>2, <2>3, <4>1, <2>9
      <4>3. pd <= MaxNumber
        BY <2>4, <2>9, BoundFacts
      <4> QED  BY <2>2, <4>1, <4>2, <4>3 DEF Whole, pd
    <3> QED  BY <3>1, <3>2
  <2> QED  BY <2>2, <2>5, <2>7, <2>8, <2>9 DEF Whole, next
<1> QED  BY <1>1, <1>2

LEMMA WholeStep == TypeOK /\ Whole(audit) /\ [Next]_vars => Whole(audit')
<1> SUFFICES ASSUME TypeOK, Whole(audit), [Next]_vars PROVE Whole(audit')
  OBVIOUS
<1>1. audit \in AuditStates /\ FrameStep
  BY FrameSteps DEF TypeOK
<1>2. CASE Rests
  BY <1>2 DEF Rests, durable
<1>3. \A command : ShouldAudit(command) \in BOOLEAN
  BY DEF ShouldAudit, CanBeAudited
<1>4. /\ RecordUnloggedAuthentication(audit) \in AuditStates /\ FreshLog \in AuditStates
      /\ \A index : RetainAfter(audit, index) \in AuditStates
  BY <1>1, OtherLogTypes
<1>5. 0 \in 0..MaxNumber
  BY BoundFacts
<1>6. /\ Whole(RecordUnloggedAuthentication(audit)) /\ Whole(FreshLog)
      /\ \A index \in 0..MaxNumber : Whole(RetainAfter(audit, index))
  BY <1>1, <1>5, OtherLogsWhole, FreshLogWhole
<1>7. CASE Shakes
  <2>1. \E log \in AuditStates : Whole(log) /\
          \E command, key, ok : audit' = Logged(log, ShouldAudit(command), key, command, ok)
    BY <1>1, <1>4, <1>6, <1>7 DEF Shakes
  <2> QED  BY <1>3, <2>1, LoggedWhole
<1>8. CASE Serves
  <2>1. \E log \in AuditStates : Whole(log) /\
          \E command, key, ok : audit' = Logged(log, ShouldAudit(command), key, command, ok)
    BY <1>1, <1>4, <1>6, <1>8 DEF Serves
  <2> QED  BY <1>3, <2>1, LoggedWhole
<1> QED  BY <1>1, <1>2, <1>7, <1>8 DEF FrameStep

LEMMA LogInvariant == Spec => [](TypeOK /\ Whole(audit))
<1>1. Init => Whole(audit)
  BY FreshLogWhole DEF Init, AuditInit
<1>2. TypeOK /\ Whole(audit) /\ [Next]_vars => Whole(audit)'
  BY WholeStep
<1> QED  BY <1>1, <1>2, TypeCorrect, PTL DEF Spec

\* The log never outgrows its capacity, its entries have places of their own in
\* the hash chain and the numbers of those places on every lap, and until the
\* numbers wrap it is the chain's unbroken tail, whatever is appended,
\* acknowledged and reset in whatever order (device.rs append_audit_entry,
\* set_log_index).  Inductive with the finiteness of the log.
THEOREM LogIsWhole == Spec => []LogIsChainTail
<1>1. Whole(audit) => LogIsChainTail
  BY DEF Whole, LogIsChainTail
<1> QED  BY <1>1, LogInvariant, PTL

-----------------------------------------------------------------------------
(* What the log and the persistence layer are told *)

\* Whatever changes in the durable state, the log and its counter included, is
\* announced to the persistence layer in the same step (device.rs
\* execute_inner_with_session, append_audit_entry,
\* record_unlogged_authentication_if_full).
THEOREM ChangesAnnounced == Spec => DurableChangesAreAnnounced
<1>1. TypeOK /\ [Next]_vars => (durable' # durable => persistent_change')
  <2> SUFFICES ASSUME TypeOK, [Next]_vars, durable' # durable PROVE persistent_change'
    OBVIOUS
  <2>1. FrameStep
    BY FrameSteps
  <2>2. \A command, key, ok :
          Logged(audit, ShouldAudit(command), key, command, ok) # audit
            => Appends(audit, command)
    BY DEF Logged, AppendEntry, Appends
  <2>3. UNCHANGED stateVars => audit' # audit
    BY DEF durable, stateVars
  <2>4. CASE Rests
    BY <2>4 DEF Rests
  <2>5. CASE Shakes
    <3>1. ~CountsUnlogged(audit) => RecordUnloggedAuthentication(audit) = audit
      BY DEF RecordUnloggedAuthentication
    <3> QED  BY <2>2, <2>3, <2>5, <3>1 DEF Shakes
  <2>6. CASE Serves
    BY <2>2, <2>3, <2>6 DEF Serves
  <2> QED  BY <2>1, <2>4, <2>5, <2>6 DEF FrameStep
<1> QED  BY <1>1, TypeCorrect, PTL DEF Spec, DurableChangesAreAnnounced

\* Under force audit no durable change escapes the log: a command that would
\* find it full is refused before it changes anything, and every other one
\* leaves its own link of the chain (device.rs execute_inner_with_session).
THEOREM ChangesLogged == Spec => AuditedChangesAreLogged
<1> DEFINE Told == \E entry \in audit'.entries :
                     /\ entry.ok
                     /\ entry.command \in ChangesPersistentState
                     /\ entry.digest = audit'.previous_digest
                     /\ \/ FactoryReset
                        \/ entry.digest = audit.previous_digest + 1
<1>1. ASSUME TypeOK, [Next]_vars, ForcedFor(ChangesPersistentState), stateVars' # stateVars
      PROVE  Told
  <2>1. Serves
    BY <1>1, FrameSteps DEF FrameStep, Rests, Shakes, durable, stateVars
  <2>2. PICK sid \in DOMAIN sessions, command \in Commands, log \in AuditStates :
          /\ Executes(sid, command)
          /\ audit' = Logged(log, ShouldAudit(command), Auth(sid).key, command, TRUE)
          /\ command \in ChangesPersistentState /\ Ordinary(command)
          /\ \/ log = audit
             \/ log = FreshLog /\ FactoryReset
    <3>1. audit \in AuditStates /\ FreshLog \in AuditStates
      BY <1>1, FreshLogWhole DEF TypeOK
    <3>2. "ResetDevice" \in ChangesPersistentState /\ Ordinary("ResetDevice")
      BY ChangingCommands
    <3>3. \A ok \in BOOLEAN : ok => ok = TRUE
      OBVIOUS
    <3> QED  BY <1>1, <2>1, <3>1, <3>2, <3>3 DEF Serves, Changes
  <2>3. force_audit # OFF /\ ShouldAudit(command)
    <3>1. CanBeAudited(command)
      BY <2>2 DEF Ordinary, CanBeAudited
    <3> QED  BY <1>1, <2>2, <3>1 DEF ForcedFor, Audits, ShouldAudit
  <2>4. ~Full(log)
    BY <2>2, <2>3, FreshLogWhole DEF Executes, RejectsForFullLog
  <2> DEFINE entry == Entry(log, Auth(sid).key, command, TRUE)
  <2>5. audit' = AppendEntry(log, Auth(sid).key, command, TRUE)
    BY <2>2, <2>3 DEF Logged
  <2>6. /\ audit'.entries = log.entries \cup {entry}
        /\ audit'.previous_digest = log.previous_digest + 1
    <3>1. PICK key, ok : key = Auth(sid).key /\ ok = TRUE
      OBVIOUS
    <3>2. PICK next : next = AppendEntry(log, key, command, ok)
      OBVIOUS
    <3>3. /\ next.entries = log.entries \cup {Entry(log, key, command, ok)}
          /\ next.previous_digest = log.previous_digest + 1
      BY <2>4, <3>2, AppendFacts
    <3> QED  BY <2>5, <3>1, <3>2, <3>3
  <2>7. /\ entry.ok = TRUE /\ entry.command = command
        /\ entry.digest = log.previous_digest + 1
    BY DEF Entry
  <2> HIDE DEF entry
  <2>8. entry.ok
    BY <2>7
  <2> QED  BY <2>2, <2>6, <2>7, <2>8
<1>2. TypeOK /\ [Next]_vars => (ForcedFor(ChangesPersistentState)
        /\ <<objects, sequence_history, optionVars>>'
             # <<objects, sequence_history, optionVars>> => Told)
  BY <1>1 DEF stateVars
<1> QED  BY <1>2, TypeCorrect, PTL DEF Spec, AuditedChangesAreLogged

\* Under force audit every authentication leaves a new entry or is counted,
\* whichever handshake it used and however full the log is (device.rs
\* create_session, authenticate_session).
THEOREM AuthenticationsCounted == Spec => AuthenticationsAreAccounted
<1> DEFINE Told ==
      \/ \E entry \in audit'.entries \ audit.entries :
           entry.ok /\ entry.command \in {"CreateSession", "AuthenticateSession"}
      \/ audit'.unlogged_authentication = audit.unlogged_authentication + 1
      \/ audit.unlogged_authentication = MaxUnlogged
<1>1. ASSUME TypeOK, Whole(audit), [Next]_vars,
             ForcedFor({"CreateSession", "AuthenticateSession"}),
             \E sid \in Sids : IsOpen(sessions', sid) /\ ~IsOpen(sessions, sid)
      PROVE  Told
  <2>1. ~NoneOpens
    BY <1>1 DEF NoneOpens, IsOpen
  <2>2. Shakes
    BY <1>1, <2>1, FrameSteps DEF FrameStep, Rests, Serves
  <2>3. PICK command \in {"CreateSession", "AuthenticateSession"}, key \in Ids :
          audit' = Logged(RecordUnloggedAuthentication(audit), ShouldAudit(command),
                          key, command, TRUE)
    <3>1. \A ok \in BOOLEAN : ok => ok = TRUE
      OBVIOUS
    <3> QED  BY <2>1, <2>2, <3>1 DEF Shakes
  <2>4. ShouldAudit(command) /\ force_audit # OFF
    BY <1>1, BoundFacts DEF ForcedFor, Audits, ShouldAudit, CanBeAudited
  <2>5. audit \in AuditStates
    BY <1>1 DEF TypeOK
  <2>6. CASE Full(audit)
    <3> DEFINE log == RecordUnloggedAuthentication(audit)
    <3>1. log = [audit EXCEPT !.unlogged_authentication =
                   IF @ = MaxUnlogged THEN @ ELSE @ + 1]
      BY <2>4, <2>6 DEF RecordUnloggedAuthentication, CountsUnlogged
    <3> HIDE DEF log
    <3>2. /\ log.entries = audit.entries
          /\ audit.unlogged_authentication # MaxUnlogged =>
               log.unlogged_authentication = audit.unlogged_authentication + 1
      BY <2>5, <3>1 DEF AuditStates
    <3>3. audit' = log
      BY <2>3, <2>4, <2>6, <3>2 DEF Logged, AppendEntry, Full, log
    <3> QED  BY <3>2, <3>3
  <2>7. CASE ~Full(audit)
    <3> DEFINE entry == Entry(audit, key, command, TRUE)
    <3>1. RecordUnloggedAuthentication(audit) = audit
      BY <2>7 DEF RecordUnloggedAuthentication, CountsUnlogged
    <3>2. audit' = AppendEntry(audit, key, command, TRUE)
      BY <2>3, <2>4, <3>1 DEF Logged
    <3>3. audit'.entries = audit.entries \cup {entry}
      <4>1. PICK ok : ok = TRUE
        OBVIOUS
      <4>2. PICK next : next = AppendEntry(audit, key, command, ok)
        OBVIOUS
      <4>3. next.entries = audit.entries \cup {Entry(audit, key, command, ok)}
        BY <2>5, <2>7, <4>2, AppendFacts
      <4> QED  BY <3>2, <4>1, <4>2, <4>3
    <3>4. /\ entry.ok = TRUE /\ entry.command = command
          /\ entry.digest = audit.previous_digest + 1
      BY DEF Entry
    <3> HIDE DEF entry
    <3>5. entry \notin audit.entries
      <4>1. \A e \in audit.entries : e.digest <= audit.previous_digest
        BY <1>1 DEF Whole
      <4>2. audit.previous_digest \in Nat
        BY <2>5, LogFields
      <4> QED  BY <3>4, <4>1, <4>2
    <3>6. entry.ok
      BY <3>4
    <3> QED  BY <2>3, <3>3, <3>4, <3>5, <3>6
  <2> QED  BY <2>6, <2>7
<1>2. TypeOK /\ Whole(audit) /\ [Next]_vars =>
        (ForcedFor({"CreateSession", "AuthenticateSession"})
           /\ (\E sid \in Sids : IsOpen(sessions', sid) /\ ~IsOpen(sessions, sid)) => Told)
  BY <1>1
<1> QED  BY <1>2, LogInvariant, PTL DEF Spec, AuthenticationsAreAccounted

\* Objects, generations and options move only for a session that is open and
\* within its deadline, which the command renews unless it resets the device
\* (device.rs handle_frame_with_hooks, session_message_with).
THEOREM LiveSessionsChange == Spec => OnlyLiveSessionsChangeState
<1> DEFINE Renews == \E sid \in DOMAIN sessions :
                       /\ sessions[sid].authenticated
                       /\ sessions[sid].idle < Timeout
                       /\ \/ FactoryReset
                          \/ /\ sid \in DOMAIN sessions' /\ sessions'[sid].idle = 0
                             /\ \A other \in DOMAIN sessions' \ {sid} :
                                  /\ other \in DOMAIN sessions
                                  /\ sessions[other].idle < Timeout
                                  /\ sessions'[other] = sessions[other]
<1>1. ASSUME TypeOK, [Next]_vars, stateVars' # stateVars PROVE Renews
  <2>1. Serves
    BY <1>1, FrameSteps DEF FrameStep, Rests, Shakes, durable, stateVars
  <2>2. PICK sid \in DOMAIN sessions :
          /\ Arrives(sid)
          /\ sessions' = Refreshed(sid) \/ FactoryReset
    BY <1>1, <2>1 DEF Serves, Changes, Executes
  <2>3. sid \in DOMAIN Live /\ sessions[sid].authenticated /\ sessions[sid].idle < Timeout
    BY <2>2 DEF Arrives, Live
  <2>4. ASSUME sessions' = Refreshed(sid)
        PROVE  /\ sid \in DOMAIN sessions' /\ sessions'[sid].idle = 0
               /\ \A other \in DOMAIN sessions' \ {sid} :
                    /\ other \in DOMAIN sessions
                    /\ sessions[other].idle < Timeout
                    /\ sessions'[other] = sessions[other]
    <3>1. sid \in DOMAIN sessions' /\ sessions'[sid] = [sessions[sid] EXCEPT !.idle = 0]
      BY <2>3, <2>4 DEF Refreshed, Live
    <3>2. sessions[sid] \in SessionEntries
      BY <1>1 DEF TypeOK, SessionsTypeOK
    <3>3. sessions'[sid].idle = 0
      BY <3>1, <3>2 DEF SessionEntries
    <3>4. \A other \in DOMAIN sessions' \ {sid} :
            /\ other \in DOMAIN sessions
            /\ sessions[other].idle < Timeout
            /\ sessions'[other] = sessions[other]
      BY <2>4 DEF Refreshed, Live
    <3> QED  BY <3>1, <3>3, <3>4
  <2> QED  BY <2>2, <2>3, <2>4
<1>2. TypeOK /\ [Next]_vars =>
        (<<objects, sequence_history, optionVars>>'
           # <<objects, sequence_history, optionVars>> => Renews)
  BY <1>1 DEF stateVars
<1> QED  BY <1>2, TypeCorrect, PTL DEF Spec, OnlyLiveSessionsChangeState


-----------------------------------------------------------------------------
(* Options *)

\* Only SetOption and ResetDevice move an option.
LEMMA OptionSteps ==
  [Next]_vars => \/ UNCHANGED optionVars
                 \/ \E sid \in DOMAIN sessions : OptionCommand(sid) \/ ResetCommand(sid)
BY DEF Next, vars, optionVars, durable, Tick, SessionFrame, OpenSession,
  FailToOpenSession, AuthenticateSession, FailAuthentication, BrokenMessage,
  OtherFrame, ClearSessions, StoreCommand, CreateCommand, ChangeKeyCommand,
  DeleteCommand, OtherCommand, ReadCommand, FailedCommand, RefusedCommand,
  SetLogIndexCommand, CloseCommand, TakePersistentChange

\* A fixed option stays fixed until the device is reset, in every request
\* that names several of them (device.rs set_option, set_option_value).
THEOREM FixedStay == Spec => FixedOptionsStay
<1> DEFINE Stay ==
      /\ force_audit = FIX => force_audit' = FIX
      /\ fips_mode = FIX => fips_mode' = FIX
      /\ \A c \in Commands : command_audit[c] = FIX => command_audit'[c] = FIX
      /\ \A a \in Algorithms :
           algorithm_toggle[a] = FIX => algorithm_toggle'[a] = FIX
<1>1. ASSUME UNCHANGED optionVars PROVE Stay
  BY <1>1 DEF optionVars
<1>2. ASSUME NEW sid, NEW value, SetForceAuditCommand(sid, value) PROVE Stay
  BY <1>2 DEF SetForceAuditCommand, SetForceAudit, MaySet, algorithmVars
<1>3. ASSUME NEW sid, NEW update, SetCommandAuditCommand(sid, update) PROVE Stay
  BY <1>3 DEF SetCommandAuditCommand, SetCommandAudit, MaySet, algorithmVars
<1>4. ASSUME NEW sid, NEW update, SetAlgorithmToggleCommand(sid, update) PROVE Stay
  BY <1>4 DEF SetAlgorithmToggleCommand, SetAlgorithmToggle, MaySet, auditOptions
<1>5. ASSUME NEW sid, NEW value, SetFipsModeCommand(sid, value) PROVE Stay
  BY <1>5 DEF SetFipsModeCommand, SetFipsMode, MaySet, auditOptions
<1>6. ASSUME NEW sid, ResetCommand(sid) PROVE FactoryReset
  BY <1>6 DEF ResetCommand, ResetStore, FactoryReset
<1> HIDE DEF Stay
<1>7. [Next]_vars => FactoryReset \/ Stay
  BY <1>1, <1>2, <1>3, <1>4, <1>5, <1>6, OptionSteps DEF OptionCommand
<1>8. [Next]_vars =>
        [ \/ FactoryReset
          \/ /\ force_audit = FIX => force_audit' = FIX
             /\ fips_mode = FIX => fips_mode' = FIX
             /\ \A c \in Commands : command_audit[c] = FIX => command_audit'[c] = FIX
             /\ \A a \in Algorithms :
                  algorithm_toggle[a] = FIX => algorithm_toggle'[a] = FIX ]_vars
  BY <1>7 DEF Stay
<1> QED  BY <1>8, PTL DEF Spec, FixedOptionsStay

\* What a command may write: enabled, or brought in by a wrapped import.
Admitted(info) ==
  AlgorithmEnabled(info.algorithm) \/ "wrapped" \in info.origin

Admits ==
  \E key \in Keys, info \in ObjectInfo : Admitted(info) /\ WriteObject(key, info)

\* The put and generate commands look the algorithm up (device.rs
\* require_algorithm_enabled).
LEMMA CreateObjectAdmits ==
  ASSUME NEW auth, NEW type \in ObjectTypes, NEW capability,
         NEW header \in HeaderSet, NEW delegated \in SUBSET Capabilities,
         NEW origin \in Origins,
         CreateObject(auth, type, capability, header, delegated, origin)
  PROVE  Admits
<1> DEFINE info == Requested(header, delegated, origin)
<1>1. info \in ObjectInfo /\ info.algorithm = header.algorithm
  BY RequestedType DEF Requested
<1>2. PICK id \in Ids : WriteObject(<<type, id>>, info)
  BY DEF CreateObject
<1>3. AlgorithmEnabled(header.algorithm)
  BY DEF CreateObject
<1>4. <<type, id>> \in Keys
  BY DEF Keys
<1> HIDE DEF info
<1> QED  BY <1>1, <1>2, <1>3, <1>4 DEF Admits, Admitted

\* Wrapped imports mark what they bring in.
LEMMA WrappedAdmits ==
  ASSUME NEW auth, NEW wrapId, NEW header \in HeaderSet,
         \/ \E algorithm : WrappedCreation(auth, wrapId, algorithm, header)
         \/ \E type \in ObjectTypes : PutRsaWrappedKey(auth, wrapId, type, header)
  PROVE  Admits
<1>1. PICK type \in ObjectTypes, delegated \in SUBSET Capabilities,
           origin \in Origins, id \in Ids :
        /\ "wrapped" \in origin
        /\ WriteObject(<<type, id>>, Requested(header, delegated, origin))
  <2>1. /\ header.delegated \in SUBSET Capabilities /\ {} \in SUBSET Capabilities
        /\ {"imported", "wrapped"} \in Origins
        /\ \A origin \in CarriedOrigins : origin \cup {"wrapped"} \in Origins
    BY DEF HeaderSet, Origins, CarriedOrigins
  <2>2. ASSUME NEW algorithm, WrappedCreation(auth, wrapId, algorithm, header)
        PROVE  \E type \in ObjectTypes, origin \in CarriedOrigins, id \in Ids :
                 WriteObject(<<type, id>>,
                   Requested(header, header.delegated, origin \cup {"wrapped"}))
    BY <2>2 DEF WrappedCreation
  <2>3. ASSUME NEW type \in ObjectTypes, PutRsaWrappedKey(auth, wrapId, type, header)
        PROVE  \E id \in Ids : WriteObject(<<type, id>>,
                 Requested(header, {}, {"imported", "wrapped"}))
    BY <2>3 DEF PutRsaWrappedKey
  <2>4. \A origin : "wrapped" \in origin \cup {"wrapped"}
    OBVIOUS
  <2>5. "wrapped" \in {"imported", "wrapped"}
    OBVIOUS
  <2> QED  BY <2>1, <2>2, <2>3, <2>4, <2>5
<1> DEFINE info == Requested(header, delegated, origin)
<1>2. info \in ObjectInfo /\ info.origin = origin
  BY RequestedType DEF Requested
<1>3. <<type, id>> \in Keys
  BY DEF Keys
<1> HIDE DEF info
<1>4. WriteObject(<<type, id>>, info)
  BY <1>1 DEF info
<1> QED  BY <1>1, <1>2, <1>3, <1>4 DEF Admits, Admitted

\* Every command that writes the store writes what is admitted.
LEMMA DispatchAdmits ==
  ASSUME TypeOK, NEW auth, NEW command, NEW header \in HeaderSet,
         Dispatch(auth, command, header)
  PROVE  Admits
<1>1. /\ header.delegated \in SUBSET Capabilities
      /\ {} \in SUBSET Capabilities
      /\ {"imported"} \in Origins
      /\ {"generated"} \in Origins
      /\ \A generate \in BOOLEAN : Origin(generate) \in Origins
  BY DEF HeaderSet, Origins, Origin
<1>2. ASSUME ReplaceOpaque(auth, header) PROVE Admits
  <2> DEFINE key == <<"Opaque", header.requested>>
  <2>1. /\ key \in DOMAIN objects /\ WriteObject(key, objects[key])
        /\ AlgorithmEnabled(header.algorithm)
        /\ header.algorithm = objects[key].algorithm
    BY <1>2 DEF ReplaceOpaque
  <2>2. key \in Keys /\ objects[key] \in ObjectInfo
    BY <2>1 DEF TypeOK, StoreTypeOK
  <2> HIDE DEF key
  <2> QED  BY <2>1, <2>2 DEF Admits, Admitted
<1>3. PutOpaque(auth, header) => Admits
  BY <1>1, <1>2, CreateObjectAdmits DEF PutOpaque, ObjectTypes
<1>4. PutAuthenticationKey(auth, header) => Admits
  BY <1>1, CreateObjectAdmits DEF PutAuthenticationKey, ObjectTypes
<1>5. \A generate \in BOOLEAN : PutAsymmetricKey(auth, header, generate) => Admits
  BY <1>1, CreateObjectAdmits DEF PutAsymmetricKey, ObjectTypes
<1>6. \A generate \in BOOLEAN : PutHmacKey(auth, header, generate) => Admits
  BY <1>1, CreateObjectAdmits DEF PutHmacKey, ObjectTypes
<1>7. \A generate \in BOOLEAN : PutSymmetricKey(auth, header, generate) => Admits
  BY <1>1, CreateObjectAdmits DEF PutSymmetricKey, ObjectTypes
<1>8. \A generate \in BOOLEAN : PutWrapKey(auth, header, generate) => Admits
  BY <1>1, CreateObjectAdmits DEF PutWrapKey, ObjectTypes
<1>9. PutPublicWrapKey(auth, header) => Admits
  BY <1>1, CreateObjectAdmits DEF PutPublicWrapKey, ObjectTypes
<1>10. \A generate \in BOOLEAN : PutOtpAeadKey(auth, header, generate) => Admits
  BY <1>1, CreateObjectAdmits DEF PutOtpAeadKey, ObjectTypes
<1>11. PutTemplate(auth, header) => Admits
  BY <1>1, CreateObjectAdmits DEF PutTemplate, ObjectTypes
<1>12. \A wrapId \in Ids :
         ( \/ ImportWrapped(auth, wrapId, header)
           \/ ImportRsaWrapped(auth, wrapId, header)
           \/ \E type \in ObjectTypes : PutRsaWrappedKey(auth, wrapId, type, header) )
           => Admits
  BY WrappedAdmits DEF ImportWrapped, ImportRsaWrapped
<1> QED
  BY <1>1, <1>3, <1>4, <1>5, <1>6, <1>7, <1>8, <1>9, <1>10, <1>11, <1>12 DEF Dispatch

\* While the options stand still an admitted write keeps the store clean.
LEMMA AdmittedWriteKeeps ==
  ASSUME StoreTypeOK, DisabledAlgorithmsHaveNoKeys, UNCHANGED optionVars, Admits
  PROVE  DisabledAlgorithmsHaveNoKeys'
<1>1. PICK key \in Keys, info \in ObjectInfo : Admitted(info) /\ WriteObject(key, info)
  BY DEF Admits
<1>2. \A a : AlgorithmEnabled(a)' <=> AlgorithmEnabled(a)
  BY DEF AlgorithmEnabled, optionVars
<1>3. /\ DOMAIN objects' = DOMAIN objects \cup {key}
      /\ \A other \in DOMAIN objects : other # key => objects'[other] = objects[other]
  BY <1>1, WriteEffect
<1>4. /\ objects'[key].algorithm = info.algorithm
      /\ objects'[key].origin = info.origin
  <2>1. PICK g : objects'[key] = [info EXCEPT !.sequence = g]
    BY <1>1 DEF WriteObject, Insert
  <2> QED  BY <2>1 DEF ObjectInfo
<1>5. ASSUME NEW other \in DOMAIN objects'
      PROVE  \/ AlgorithmEnabled(objects'[other].algorithm)
             \/ "wrapped" \in objects'[other].origin
             \/ other = FactoryKey
  BY <1>1, <1>3, <1>4, <1>5 DEF Admitted, DisabledAlgorithmsHaveNoKeys
<1> QED  BY <1>2, <1>5 DEF DisabledAlgorithmsHaveNoKeys

\* No key of a disabled algorithm is on the device but the factory slot's and
\* what came wrapped, however options, imports, deletions and resets are
\* interleaved (device.rs require_fresh_device_for_algorithm_options,
\* require_algorithm_enabled).
THEOREM NoDisabledKeys == Spec => []DisabledAlgorithmsHaveNoKeys
<1>1. ASSUME objects = FactoryObjects PROVE DisabledAlgorithmsHaveNoKeys
  BY <1>1, FactoryFacts DEF DisabledAlgorithmsHaveNoKeys
<1>2. Init => DisabledAlgorithmsHaveNoKeys
  BY <1>1 DEF Init, StoreInit
<1>3. TypeOK /\ DisabledAlgorithmsHaveNoKeys /\ [Next]_vars
        => DisabledAlgorithmsHaveNoKeys'
  <2> SUFFICES ASSUME TypeOK, DisabledAlgorithmsHaveNoKeys, [Next]_vars
               PROVE  DisabledAlgorithmsHaveNoKeys'
    OBVIOUS
  <2>0. StoreTypeOK
    BY DEF TypeOK
  <2>1. ASSUME UNCHANGED optionVars, Admits PROVE DisabledAlgorithmsHaveNoKeys'
    BY <2>0, <2>1, AdmittedWriteKeeps
  <2>2. ASSUME UNCHANGED <<algorithm_toggle, fips_mode>>,
               \/ UNCHANGED objects
               \/ \E key : objects' = Remove(objects, key)
        PROVE  DisabledAlgorithmsHaveNoKeys'
    BY <2>2 DEF DisabledAlgorithmsHaveNoKeys, AlgorithmEnabled, Remove
  <2>3. ASSUME DOMAIN objects' = {FactoryKey} PROVE DisabledAlgorithmsHaveNoKeys'
    BY <2>3 DEF DisabledAlgorithmsHaveNoKeys
  <2>4. ASSUME NEW sid \in DOMAIN sessions, StoreCommand(sid)
        PROVE  DisabledAlgorithmsHaveNoKeys'
    <3>1. ASSUME NEW command, NEW header \in Headers, CreateCommand(sid, command, header)
          PROVE  DisabledAlgorithmsHaveNoKeys'
      <4>1. header \in HeaderSet
        BY StoreAssumption DEF StoreAssumption
      <4> QED  BY <2>1, <3>1, <4>1, DispatchAdmits DEF CreateCommand
    <3>2. ASSUME NEW algorithm, ChangeKeyCommand(sid, algorithm)
          PROVE  DisabledAlgorithmsHaveNoKeys'
      <4> DEFINE key == <<"AuthenticationKey", Auth(sid).key>>
                 info == [objects[key] EXCEPT !.algorithm = algorithm]
      <4>1. /\ key \in DOMAIN objects /\ AlgorithmEnabled(algorithm)
            /\ algorithm \in Algorithms /\ WriteObject(key, info)
            /\ UNCHANGED optionVars
        BY <3>2 DEF ChangeKeyCommand, ChangeAuthenticationKey, AlgorithmsOf, Algorithms
      <4>2. key \in Keys /\ objects[key] \in ObjectInfo
        BY <2>0, <4>1 DEF StoreTypeOK
      <4>3. info \in ObjectInfo /\ info.algorithm = algorithm
        BY <4>1, <4>2 DEF ObjectInfo
      <4> HIDE DEF key, info
      <4> QED  BY <2>1, <4>1, <4>2, <4>3 DEF Admits, Admitted
    <3>3. ASSUME NEW key, DeleteCommand(sid, key) PROVE DisabledAlgorithmsHaveNoKeys'
      BY <2>2, <3>3 DEF DeleteCommand, DeleteObject, optionVars
    <3> QED  BY <2>4, <3>1, <3>2, <3>3 DEF StoreCommand
  <2>5. ASSUME NEW sid \in DOMAIN sessions, OptionCommand(sid)
        PROVE  DisabledAlgorithmsHaveNoKeys'
    <3>1. \/ UNCHANGED <<algorithm_toggle, fips_mode, objects>>
          \/ DOMAIN objects = {FactoryKey} /\ UNCHANGED objects
      BY <2>5 DEF OptionCommand, SetForceAuditCommand, SetCommandAuditCommand,
        SetAlgorithmToggleCommand, SetFipsModeCommand, SetAlgorithmToggle, SetFipsMode,
        RequireFreshDevice, algorithmVars
    <3> QED  BY <2>2, <2>3, <3>1
  <2>6. ASSUME NEW sid \in DOMAIN sessions, ResetCommand(sid)
        PROVE  DisabledAlgorithmsHaveNoKeys'
    BY <2>3, <2>6, FactoryFacts DEF ResetCommand, ResetStore
  <2>7. \/ UNCHANGED <<algorithm_toggle, fips_mode, objects>>
        \/ \E sid \in DOMAIN sessions :
             StoreCommand(sid) \/ OptionCommand(sid) \/ ResetCommand(sid)
    BY DEF Next, vars, optionVars, durable, Tick, SessionFrame, OpenSession,
      FailToOpenSession, AuthenticateSession, FailAuthentication, BrokenMessage,
      OtherFrame, ClearSessions, OtherCommand, ReadCommand, FailedCommand,
      RefusedCommand, SetLogIndexCommand, CloseCommand, TakePersistentChange
  <2> QED  BY <2>2, <2>4, <2>5, <2>6, <2>7
<1> QED  BY <1>2, <1>3, TypeCorrect, PTL DEF Spec

=============================================================================

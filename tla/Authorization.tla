--------------------------- MODULE Authorization ---------------------------
(***************************************************************************)
(* The pure rules of crates/virtual-yubihsm-core/src/authorization.rs.     *)
(* A session carries a snapshot of its Authentication Key:                 *)
(*   [key, capabilities, delegated, domains]                               *)
(* and an object is described by                                           *)
(*   [capabilities, delegated, domains, algorithm, origin, sequence].      *)
(* Capability sets and domain masks are sets, so that "subset of" and      *)
(* "shares a bit with" are \subseteq and non-empty intersection.           *)
(***************************************************************************)

\* A cross-domain object answers like a missing one.
CanSee(auth, info) == auth.domains \cap info.domains # {}

\* Command capability on the session, operation capability on the object.
AuthorizeUse(auth, info, capability) ==
  /\ CanSee(auth, info)
  /\ capability \in auth.capabilities
  /\ capability \in info.capabilities

\* Mutant: the delegated capabilities of the new object are not looked at.
AuthorizeCreateUndelegated(auth, info, capability) ==
  /\ capability \in auth.capabilities
  /\ info.domains # {}
  /\ info.domains \subseteq auth.domains
  /\ info.capabilities \subseteq auth.delegated

\* A new object stays below the session's domains and delegated ceiling.
AuthorizeCreate(auth, info, capability) ==
  /\ capability \in auth.capabilities
  /\ info.domains # {}
  /\ info.domains \subseteq auth.domains
  /\ info.capabilities \subseteq auth.delegated
  /\ info.delegated \subseteq auth.delegated

\* Deletion asks nothing of the object but a shared domain.
AuthorizeDelete(auth, info, capability) ==
  CanSee(auth, info) /\ capability \in auth.capabilities

\* The wrap key's delegated set bounds what it may carry out...
AuthorizeWrappedExport(auth, target, wrapKey) ==
  /\ AuthorizeUse(auth, wrapKey, "ExportWrapped")
  /\ CanSee(auth, target)
  /\ "ExportableUnderWrap" \in target.capabilities
  /\ target.capabilities \subseteq wrapKey.delegated

\* Mutant: only the wrap key bounds what is imported.
AuthorizeWrappedCreationByKey(auth, info, wrapKey) ==
  /\ "ImportWrapped" \in auth.capabilities
  /\ info.domains # {}
  /\ info.capabilities \subseteq wrapKey.delegated

\* ... and what it may bring in, on top of the session's own ceiling.
AuthorizeWrappedCreation(auth, info, wrapKey) ==
  /\ AuthorizeCreate(auth, info, "ImportWrapped")
  /\ info.capabilities \subseteq wrapKey.delegated

=============================================================================

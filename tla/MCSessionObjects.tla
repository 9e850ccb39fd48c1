-------------------------- MODULE MCSessionObjects --------------------------
(***************************************************************************)
(* Two sessions, side by side or one after the other under one sid, which  *)
(* draw from the same three handles for tables of two objects; and bit     *)
(* extraction from every base of up to three bytes of three bits.          *)
(***************************************************************************)
EXTENDS SessionObjects, BitExtraction, TLC

MCKeys ==
  { [type |-> "asymmetric", capabilities |-> {"DeriveEcdh", "EncryptEcb"},
     usable |-> TRUE, size |-> 32],
    [type |-> "symmetric", capabilities |-> {"EncryptEcb"}, usable |-> TRUE,
     size |-> 16],
    [type |-> "symmetric", capabilities |-> {"EncryptEcb"}, usable |-> FALSE,
     size |-> 16] }

\* Handles, and sids, are only told apart, so they may be permuted.
Symmetric == Permutations(Handles) \cup Permutations(SessionIds)

\* Evaluated once: the extraction loop computes its definition.
ASSUME ExtractionIsExact == ExtractsConsecutiveBits

\* Open to both uses, or sealed.
Opened == {"READABLE", "DERIVE"}
Sealed == {"VERIFY"}
MCFlagSets == {Opened, Sealed}

\* An AES key, a secret longer than a hash, a sealed one and none at all.
MCHeaders ==
  { <<Opened, "Aes", 16>>, <<Opened, "GenericSecret", 33>>,
    <<Sealed, "GenericSecret", 16>>, <<Opened, "GenericSecret", 0>> }

\* The asymmetric key allows the second session's one capability too, which
\* is not the one its use takes.
MCGrants == {{"DeriveEcdh", "EncryptEcb"}, {"EncryptEcb"}}

=============================================================================

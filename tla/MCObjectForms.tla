--------------------------- MODULE MCObjectForms ---------------------------
(***************************************************************************)
(* Every algorithm an object may have, and byte strings of every length    *)
(* some key has, of the lengths next to the limits, and of none at all.    *)
(***************************************************************************)
EXTENDS ObjectForms

KeySizes ==
  { AsymmetricKeyLength(a) : a \in Algorithms } \cup { AesKeyLength(a) : a \in Algorithms }
    \cup { AuthenticationKeyLength(a) : a \in Algorithms }

EverySize ==
  (KeySizes \ {None}) \cup {0, 1, 128, 129}
    \cup UNION { EncodedLengths(a) : a \in MlDsa \cup MlKem }

=============================================================================

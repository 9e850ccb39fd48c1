------------------------------ MODULE MCChannel ------------------------------
(* Two hosts, one with a symmetric and one with an asymmetric key. *)
EXTENDS SecureChannel

=============================================================================

--------------------------- MODULE MCKTLSHandshake ---------------------------
(* KTLSHandshake for TLC; the constants are given in the configurations. *)
EXTENDS KTLSHandshakeProofs
=============================================================================

-------------------------- MODULE MCRevocationSync --------------------------
(* Small instances of RevocationSync for TLC.                              *)
EXTENDS RevocationSync
=============================================================================

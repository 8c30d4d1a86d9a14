--------------------------- MODULE MCSecureSocket ---------------------------
(* A module of its own for the run, so that TLC evaluates the assumption of  *)
(* SecureSocket with the sizes of the configuration.                        *)
EXTENDS SecureSocket
=============================================================================

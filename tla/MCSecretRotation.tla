--------------------------- MODULE MCSecretRotation ---------------------------
(* Model-checking instance of SecretRotation.                                  *)
EXTENDS SecretRotation
=============================================================================

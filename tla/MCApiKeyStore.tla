---------------------------- MODULE MCApiKeyStore ---------------------------
(* Instances of ApiKeyStore for TLC. *)
EXTENDS ApiKeyStore

=============================================================================

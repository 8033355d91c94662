---------------------------- MODULE MCApiClient ----------------------------
(* Small instances of ApiClient for TLC. *)
EXTENDS ApiClient
=============================================================================

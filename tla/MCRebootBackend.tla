--------------------------- MODULE MCRebootBackend ---------------------------
(* Instances of RebootBackend for TLC. *)
EXTENDS RebootBackendProps
=============================================================================

------------------------------ MODULE MCEventDb ------------------------------
(* Instances of EventDb for TLC. *)
EXTENDS EventDbProps

\* A type as known, with another severity, disabled, not known.
EveryProfile == [Type -> Severity \union {Disabled, Absent}]
=============================================================================

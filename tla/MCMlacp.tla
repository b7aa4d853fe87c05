------------------------------ MODULE MCMlacp ------------------------------
(* Instances of Mlacp for TLC. *)
EXTENDS MlacpProps
=============================================================================

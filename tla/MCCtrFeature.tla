---------------------------- MODULE MCCtrFeature ----------------------------
(* An instance of CtrFeature for TLC. *)
EXTENDS CtrFeatureProps

\* Two containers of kubernetes, one of them of the version of the local image.
TwoVersions == [p1 |-> "v2", p2 |-> "v1"]
=============================================================================

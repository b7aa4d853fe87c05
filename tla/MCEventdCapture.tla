--------------------------- MODULE MCEventdCapture ---------------------------
(* Instances of EventdCapture for TLC. *)
EXTENDS EventdCaptureProps
=============================================================================

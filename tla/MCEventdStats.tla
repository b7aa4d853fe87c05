---------------------------- MODULE MCEventdStats ----------------------------
(* Instances of EventdStats for TLC. *)
EXTENDS EventdStatsProps

\* Off, the least possible, and one whose product leaves an int of 13 bits and
\* comes out as 3 timeouts; the configured one (2 s, 7 timeouts) is what the
\* collector starts with.
SomeOptions == {-1, 0, 9}
=============================================================================

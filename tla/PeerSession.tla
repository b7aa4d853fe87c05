---------------------------- MODULE PeerSession ----------------------------
(***************************************************************************)
(* What the ICCP connection layer of iccpd promises the applications that  *)
(* run on top of it (mLACP): a session between the two MLAG peers.         *)
(*                                                                         *)
(* A session instance lives on one TCP connection.  The two daemons come   *)
(* up in it, and drop out of it, at different times, but a daemon that is  *)
(* up is never joined by a peer that is up in another instance: as long as *)
(* one side still holds the old session, the other side stays down.        *)
(***************************************************************************)
CONSTANT Node       \* the two MLAG peers

VARIABLES
  up,     \* the peers whose application state machine is operational
  inst    \* the peers that hold the connection of the current instance

sessionVars == <<up, inst>>

SessionInit == up = {} /\ inst = {}

\* The first peer comes up.  The other one is still on the connection, or has
\* already left it with its last messages still in flight.
Open(n) ==
  /\ up = {}
  /\ up' = {n}
  /\ inst' \in {Node, {n}}

\* The second peer comes up in the instance the first one opened.
Join(n) ==
  /\ n \in inst \ up
  /\ up' = up \cup {n}
  /\ inst' = inst

\* A peer drops the connection of the instance.
Leave(n) ==
  /\ n \in inst
  /\ up' = up \ {n}
  /\ inst' = IF up' = {} THEN {} ELSE inst \ {n}

SessionNext == \E n \in Node : Open(n) \/ Join(n) \/ Leave(n)

SessionSpec == SessionInit /\ [][SessionNext]_sessionVars
=============================================================================

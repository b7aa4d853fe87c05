---------------------------- MODULE MlacpProps ----------------------------
(***************************************************************************)
(* What the mLACP application of iccpd has to guarantee.                   *)
(***************************************************************************)
EXTENDS Mlacp

\* The types of the state; chan and the fields of node are what the handlers
\* of mlacp_fsm.c leave behind.
TypeOK ==
  /\ up \subseteq Node
  /\ inst \subseteq Node
  /\ chan \in [Node -> Seq(Msg)]
  /\ node \in [Node -> NodeState]
  /\ left \in [links : Nat, vlans : Nat, unbinds : Nat, leaves : Nat]

(* ---- The initial synchronisation ---- *)

\* No message is dropped by mlacp_stage_sync_send_handler, which discards
\* whatever is not a request, nor by mlacp_stage_sync_request_handler, which
\* ignores the message of the pass in which it sends its own request: a peer
\* that waits to send has nothing but a request in its queue, and a peer that
\* has still to ask has nothing in it.
NothingDropped ==
  \A n \in up :
    LET s == node[n] IN
    (s.current_state \in {"STAGE1", "STAGE2"} /\ ~s.wait_for_sync_data)
      => chan[n] = << >> \/ (Head(chan[n]) = "SYNC_REQ"
                             /\ (n = Active) = (s.current_state = "STAGE1"))

\* The stages keep in step: a peer that has finished its part of a stage knows
\* that the other one, while it holds the same session, has reached it.
StagesInStep ==
  LET a == node[Active].current_state
      s == node[Standby].current_state
  IN  up = Node =>
        /\ s \in {"STAGE2", "EXCHANGE"} => a \in {"STAGE2", "EXCHANGE"}
        /\ a = "EXCHANGE" => s = "EXCHANGE"

\* mlacp_fsm_transit never reaches MLACP_STATE_ERROR.
NoError == \A n \in Node : node[n].current_state # "ERROR"

\* Once the session is no longer dropped, both peers reach the exchange state.
SyncCompletes == <>[](\A n \in Node : Exchange(node[n]))

(* ---- What each peer knows of the other ---- *)

\* Both peers have handled every message, and another pass of
\* mlacp_fsm_transit would do nothing.
Quiet ==
  /\ up = Node
  /\ \A n \in Node : /\ Exchange(node[n])
                     /\ chan[n] = << >>
                     /\ FsmTransit(n, node[n], None) = node[n]

\* When there is nothing left to do, each peer has the right view of the
\* port-channel of the other: it has a peer interface exactly if the other one
\* is bound, with the state it has there.
PeerViewConverges ==
  Quiet => \A n \in Node :
             LET p == node[Peer(n)] IN
             node[n].pif = IF ~p.bound THEN "none"
                           ELSE IF p.state THEN "up" ELSE "down"

\* When there is nothing left to do, the port-channel of a peer on which it is
\* up is isolated from the peer link exactly if it is up on the other peer too:
\* otherwise hosts get frames twice, or not at all.
IsolationConverges ==
  Quiet => \A n \in Node :
    (node[n].bound /\ node[n].state /\ node[Peer(n)].bound)
      => node[n].isolated = node[Peer(n)].state

\* Nothing is isolated, and no member port-channel is blocked, while the session
\* is down or being synchronised: peerlink_port_isolate_cleanup and
\* mlacp_peer_disconn_handler take effect on every way out of a session.  Without
\* one nobody would acknowledge.
CleanWithoutSession ==
  \A n \in Node :
    LET s == node[n] IN
    /\ s.isolated => Exchange(s) /\ s.bound
    /\ (s.bound /\ s.is_traffic_disable)
         => s.current_state \in {"EXCHANGE", "ERROR"}

\* A port-channel that is taken out of the domain is taken out of the isolation
\* group first: none that is not a member stays isolated in the exchange.
UnboundNotIsolated ==
  \A n \in Node : (Exchange(node[n]) /\ ~node[n].bound) => ~node[n].isolated

(* ---- Traffic of a port-channel that was down ---- *)

\* In the exchange state a member port-channel that is down is blocked, so that
\* it carries no traffic when it comes up before the peer knows, or it is about
\* to be blocked when its configuration is sent.
DownPortIsBlocked ==
  \A n \in Node :
    LET s == node[n] IN
    (Exchange(s) /\ s.bound /\ ~s.state)
      => s.is_traffic_disable \/ s.port_config_sync

\* A port-channel that stays up carries traffic in the end: the acknowledgement
\* for its last change of state comes, or the session goes.
TrafficRestored ==
  <>[](\A n \in Node : (node[n].bound /\ node[n].state)
                          => ~node[n].is_traffic_disable)

\* po_active, on which isolation and blocking depend, is the state that is sent
\* to the peer.
PoActiveTracksState == \A n \in Node : node[n].po_active = node[n].state
=============================================================================

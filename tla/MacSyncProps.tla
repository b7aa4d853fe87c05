---------------------------- MODULE MacSyncProps ----------------------------
(***************************************************************************)
(* What the MAC tables of the two peers promise, each for itself and       *)
(* together.                                                               *)
(***************************************************************************)
EXTENDS MacSync

(* An address is kept on the peer link only while its own port-channel is  *)
(* down, and is then in the switch whenever the peer link is up: whatever  *)
(* the order of port-channel, peer-link, session, learning and ageing      *)
(* events, update_l2_mac_state takes back what was redirected and          *)
(* mlacp_peerlink_up_handler adds what mlacp_peerlink_down_handler took    *)
(* out.                                                                    *)
Forwarding ==
  \A n \in Node : LET s == node[n] IN
    /\ Known(s) /\ s.mac.ifname = s.itf /\ PeerLinkUp(s) => s.row = s.itf
    /\ Known(s) /\ s.mac.origin = Po /\ s.po => s.mac.ifname = Po

(* Once all messages have arrived, an address that a daemon keeps for the *)
(* peer alone is one the peer has: it would never be removed otherwise,    *)
(* since the entry waits for the DEL of the peer.  So whatever ADDs and    *)
(* DELs cross (set_mac_local_age_flag), each handler that takes the        *)
(* address away from a daemon leaves a DEL as the last word.  The          *)
(* exception is what update_l2_mac_state asks in a comment ("do we need to *)
(* send delete notification to peer"): a pending address that is dropped   *)
(* without one, there and in mlacp_local_lif_state_mac_handler.            *)
RemoteIsHeld ==
  Quiet /\ (\A n \in Node : Exchange(node[n])) =>
    \A n \in Node : LET s == node[n]  p == node[Peer(n)] IN
      Known(s) /\ s.mac.age = {"local"} /\ ~p.silent =>
        Known(p) /\ "local" \notin p.mac.age

(* No entry is kept that both peers have aged, and a daemon without a      *)
(* session keeps addresses of its own switch only:                         *)
(* mlacp_peer_disconn_fdb_handler removed those of the peer or made them   *)
(* local, and nothing marks one as the peer's before the next session.     *)
AgeFlags ==
  \A n \in Node : LET s == node[n] IN
    Known(s) => s.mac.age # Both /\ (s.st = "off" => s.mac.age = {"peer"})
=============================================================================

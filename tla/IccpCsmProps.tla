--------------------------- MODULE IccpCsmProps ---------------------------
(***************************************************************************)
(* What the connection layer of IccpCsm has to keep true.                  *)
(***************************************************************************)
EXTENDS IccpCsm

\* Type invariant of the connection layer's state (struct CSM, struct AppCSM).
TypeOK ==
  /\ state \in [Node -> State]
  /\ app \in [Node -> {"NONEXISTENT", "OPERATIONAL"}]
  /\ info \in [Node -> Info]
  /\ sock \in [Node -> Conn \cup {None}]
  /\ polled \in [Node -> BOOLEAN]
  /\ msg_list \in [Node -> Seq(Msg)]
  /\ mlacp_list \in [Node -> Seq(Msg)]
  /\ mlacp \in [Node -> BOOLEAN]
  /\ config \in [Node -> BOOLEAN]
  /\ wire \in [Conn -> [Node -> Seq(Msg)]]
  /\ open \in [Conn -> SUBSET Node]
  /\ backlog \in Seq(Conn)
  /\ faults \in Nat

\* The three state machines never outlive the socket or one another: whatever
\* path closes the socket resets all of them.  It follows that the "No
\* connection, but have state change" branch of iccp_csm_transit, which frees
\* the csm under its caller, and the torn-down branches of app_csm_transit and
\* mlacp_fsm_transit are never taken.  No application message is queued before,
\* although the peer may come up (and send) first.
SocketBacksState ==
  \A n \in Node :
    /\ state[n] # "NONEXISTENT" => sock[n] # None
    /\ app[n] = "OPERATIONAL" => state[n] = "OPERATIONAL"
    /\ mlacp[n] => app[n] = "OPERATIONAL"
    /\ mlacp_list[n] # << >> => state[n] = "OPERATIONAL"

\* iccp_csm_transit dequeues a message before it looks at the state, and drops
\* it in NONEXISTENT.  No handshake message is ever there to be dropped: a
\* session starts with an empty queue, and leaves NONEXISTENT in its first pass.
NoMessageDropped ==
  \A n \in Node :
    state[n] = "NONEXISTENT" =>
      msg_list[n] = << >> /\ (sock[n] # None => config[n])

\* A peer is OPERATIONAL on a connection only while the other end of it has
\* sent its connect message: that end is CONNECTING or OPERATIONAL, or has
\* left the connection.  Two peers that are both OPERATIONAL talk to each other:
\* a daemon that still holds a dead session cannot be up together with a peer
\* that has already reconnected, as scheduler_server_accept rejects it.
HandshakeAgreement ==
  /\ \A n \in Node :
       (state[n] = "OPERATIONAL" /\ sock[Peer(n)] = sock[n])
         => state[Peer(n)] \in {"CONNECTING", "OPERATIONAL"}
  /\ (\A n \in Node : state[n] = "OPERATIONAL") => sock[Active] = sock[Standby]

\* Peers configured with different MLAG domain ids never come up, although a
\* connect message of the wrong group sets peer_rg_connect_flag.
MismatchNeverOperational ==
  RgId[Active] # RgId[Standby] => \A n \in Node : state[n] # "OPERATIONAL"

\* Once faults and configuration changes cease, both peers come up and stay up:
\* no pattern of disconnects leaves them rejecting or waiting for each other.
EventuallyUp == <>[](\A n \in Node : state[n] = "OPERATIONAL")

upMap == {n \in Node : app[n] = "OPERATIONAL"}
instMap == upMap \cup {n \in Node : \E p \in upMap : sock[n] = sock[p]}
Session == INSTANCE PeerSession WITH up <- upMap, inst <- instMap

\* The connection layer gives mLACP the session PeerSession promises: the up
\* peers are those whose app_csm is APP_OPERATIONAL, the instance is the
\* connection they hold.
ImplementsSession == Session!SessionSpec
=============================================================================

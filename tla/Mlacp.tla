------------------------------- MODULE Mlacp -------------------------------
(***************************************************************************)
(* The mLACP application of iccpd, on top of the session the connection    *)
(* layer provides (PeerSession): the initial synchronisation of the two    *)
(* peers, the exchange of configuration and state of an MLAG port-channel, *)
(* and what the daemon makes of it for the data plane: isolation of the    *)
(* port-channel from the peer link, and blocking of its traffic while it   *)
(* is down until the peer acknowledges that it is up again.                *)
(*                                                                         *)
(* One port-channel, which exists on both peers and may be a member of the *)
(* MLAG domain (bound) or not, and a peer link that stays configured.      *)
(* A daemon is one thread: a message is read from the socket into a queue, *)
(* and at most one is read before each pass over the state machines, so    *)
(* reading and handling a message are one step here.                       *)
(***************************************************************************)
EXTENDS Naturals, Sequences

CONSTANTS
  Active,          \* the peer of role STP_ROLE_ACTIVE
  Standby,         \* the peer of role STP_ROLE_STANDBY
  MaxLinkChanges,  \* bound: port-channel up and down events
  MaxVlanChanges,  \* bound: VLAN membership changes
  MaxUnbinds,      \* bound: removals of the port-channel from the domain
  MaxLeaves        \* bound: sessions dropped without the peer having gone

Node == {Active, Standby}

ASSUME NodeAssumption == Active # Standby
ASSUME BoundAssumption ==
  /\ MaxLinkChanges \in Nat
  /\ MaxVlanChanges \in Nat
  /\ MaxUnbinds \in Nat
  /\ MaxLeaves \in Nat

VARIABLES
  up, inst,   \* the session, as in PeerSession
  chan,       \* chan[n]: messages sent to n and not handled, oldest first
  node,       \* node[n]: the mLACP state of n
  left        \* what is left of the bounds

vars == <<up, inst, chan, node, left>>

Session == INSTANCE PeerSession

Peer(n) == IF n = Active THEN Standby ELSE Active

MlacpState == {"INIT", "STAGE1", "STAGE2", "EXCHANGE", "ERROR"}
Msg == {"SYNC_REQ", "SYNC_START", "SYNC_DONE", "CONFIG", "PURGE",
        "STATE_UP", "STATE_DOWN", "IF_UP_ACK"}

(* The fields of MLACP(csm), of the LocalInterface of the port-channel     *)
(* (from bound on) and of its PeerInterface (pif).  isolated is what the   *)
(* last message to mclagsyncd said of the port-channel; out collects the   *)
(* messages a handler writes and is empty between handlers.                *)
NodeState ==
  [current_state : MlacpState,
   wait_for_sync_data : BOOLEAN,
   need_to_sync : BOOLEAN,
   purge : BOOLEAN,                  \* it is on lif_purge_list
   bound : BOOLEAN,                  \* lif->csm is set: it is on lif_list
   state : BOOLEAN,                  \* lif->state = PORT_STATE_UP
   po_active : BOOLEAN,
   changed : BOOLEAN,
   port_config_sync : BOOLEAN,
   is_traffic_disable : BOOLEAN,
   isolate_to_peer_link : BOOLEAN,
   isolated : BOOLEAN,
   pif : {"none", "up", "down"},     \* the peer interface and its state
   out : Seq(Msg)]

Exchange(s) == s.current_state = "EXCHANGE"

\* iccp_csm_send.
Send(s, ms) == [s EXCEPT !.out = @ \o ms]

StateMsg(s) == IF s.state THEN "STATE_UP" ELSE "STATE_DOWN"

-----------------------------------------------------------------------------
(* Port isolation and traffic distribution.                                *)

\* update_peerlink_isolate_from_all_csm_lif: the isolation group sent to
\* mclagsyncd holds the port-channels of lif_list with the flag set.
UpdateIsolateFromAllLif(s) ==
  [s EXCEPT !.isolated = s.bound /\ s.isolate_to_peer_link]

\* set_peerlink_mlag_port_isolate.
SetPortIsolate(s, enable) ==
  LET t == [s EXCEPT !.isolate_to_peer_link = enable]
  IN  IF Exchange(s) THEN UpdateIsolateFromAllLif(t) ELSE t

\* update_peerlink_isolate_from_pif, for a peer interface that was created or
\* whose state changed.
UpdateIsolateFromPif(s, pif_up) ==
  IF Exchange(s) /\ s.bound /\ s.po_active THEN SetPortIsolate(s, pif_up)
  ELSE s

\* update_peerlink_isolate_from_lif: a peer interface that does not exist
\* counts as up.
UpdateIsolateFromLif(s, lif_up) ==
  IF Exchange(s) /\ lif_up THEN SetPortIsolate(s, s.pif # "down") ELSE s

\* mlacp_link_disable_traffic_distribution.
DisableTraffic(s) ==
  IF s.bound /\ Exchange(s) /\ ~s.po_active
  THEN [s EXCEPT !.is_traffic_disable = TRUE] ELSE s

\* mlacp_link_enable_traffic_distribution.
EnableTraffic(s) ==
  IF s.bound THEN [s EXCEPT !.is_traffic_disable = FALSE] ELSE s

\* Mutant: the change is not marked.
UpdatePoIfInfo_Unmarked(s, po_up) == [s EXCEPT !.po_active = po_up]

\* update_po_if_info.
UpdatePoIfInfo(s, po_up) ==
  IF s.po_active # po_up
  THEN [s EXCEPT !.changed = TRUE, !.po_active = po_up] ELSE s

\* mlacp_portchannel_state_handler.
PortchannelStateHandler(s, po_up) ==
  LET t == UpdatePoIfInfo(UpdateIsolateFromLif(s, po_up), po_up)
  IN  IF po_up THEN t ELSE DisableTraffic(t)

-----------------------------------------------------------------------------
(* Messages.                                                               *)

\* The state that follows in the order of MLACP_APP_STATE (current_state++).
NextStage(st) ==
  CASE st = "STAGE1" -> "STAGE2"
    [] st = "STAGE2" -> "EXCHANGE"
    [] OTHER -> "ERROR"

\* Mutant: the stage does not advance.
SendAllInfo_SameStage(s) ==
  LET data == IF s.bound THEN <<"CONFIG", StateMsg(s)>> ELSE << >>
  IN  [Send(s, <<"SYNC_START">> \o data \o <<"SYNC_DONE">>) EXCEPT
         !.wait_for_sync_data = FALSE]

\* mlacp_sync_send_all_info_handler: everything the peer has to know, and
\* the next stage.
SendAllInfo(s) ==
  LET data == IF s.bound THEN <<"CONFIG", StateMsg(s)>> ELSE << >>
      t == Send(s, <<"SYNC_START">> \o data \o <<"SYNC_DONE">>)
  IN  [t EXCEPT !.changed = IF s.bound THEN FALSE ELSE @,
                !.port_config_sync = IF s.bound THEN FALSE ELSE @,
                !.wait_for_sync_data = FALSE,
                !.current_state = NextStage(@)]

\* mlacp_fsm_update_Agg_conf: a new peer interface is up until its state
\* arrives; a purge of one that does not exist asks for everything again.
UpdateAggConf(s, purge) ==
  CASE purge /\ s.pif # "none" -> [s EXCEPT !.pif = "none"]
    [] purge /\ s.pif = "none" -> [s EXCEPT !.need_to_sync = TRUE]
    [] ~purge /\ s.pif # "none" -> s
    [] ~purge /\ s.pif = "none" ->
         UpdateIsolateFromPif([s EXCEPT !.pif = "up"], TRUE)

\* mlacp_fsm_update_Aggport_state.
UpdateAggportState(s, pif_up) ==
  LET new == IF pif_up THEN "up" ELSE "down"
  IN  IF s.pif \in {"none", new} THEN s
      ELSE UpdateIsolateFromPif([s EXCEPT !.pif = new], pif_up)

\* mlacp_fsm_send_if_up_ack.
SendIfUpAck(s) == IF Exchange(s) THEN Send(s, <<"IF_UP_ACK">>) ELSE s

\* mlacp_fsm_recv_if_up_ack: ignored if the interface has gone down.
RecvIfUpAck(s) == IF s.po_active THEN EnableTraffic(s) ELSE s

\* mlacp_sync_receiver_handler.
Receive(s, m) ==
  CASE m = "SYNC_REQ" -> SendAllInfo(s)
    [] m = "SYNC_START" -> s
    [] m = "SYNC_DONE" -> [s EXCEPT !.wait_for_sync_data = FALSE]
    [] m = "CONFIG" -> UpdateAggConf(s, FALSE)
    [] m = "PURGE" -> UpdateAggConf(s, TRUE)
    [] m = "STATE_UP" -> SendIfUpAck(UpdateAggportState(s, TRUE))
    [] m = "STATE_DOWN" -> UpdateAggportState(s, FALSE)
    [] m = "IF_UP_ACK" -> RecvIfUpAck(s)

-----------------------------------------------------------------------------
(* The state machine.  m is the message of the pass, None if the queue is  *)
(* empty.                                                                  *)

None == "none"

\* mlacp_stage_sync_send_handler: wait for the request of the peer; any other
\* message is dropped.
StageSyncSend(s, m) ==
  IF ~s.wait_for_sync_data /\ m = "SYNC_REQ" THEN SendAllInfo(s) ELSE s

\* mlacp_stage_sync_request_handler: the pass that sends the request does not
\* look at its message.
StageSyncRequest(s, m) ==
  IF ~s.wait_for_sync_data
  THEN Send([s EXCEPT !.wait_for_sync_data = TRUE], <<"SYNC_REQ">>)
  ELSE LET t == IF m = None THEN s ELSE Receive(s, m)
       IN  IF t.wait_for_sync_data THEN t
           ELSE [t EXCEPT !.current_state = NextStage(@)]

\* Mutant: the roles do not change between the stages.
StageHandler_SameRoles(n, s, m) ==
  IF n = Active THEN StageSyncSend(s, m) ELSE StageSyncRequest(s, m)

\* mlacp_stage_handler: the active peer is the first to send.
StageHandler(n, s, m) ==
  IF (n = Active) = (s.current_state = "STAGE1")
  THEN StageSyncSend(s, m) ELSE StageSyncRequest(s, m)

\* The purge list of mlacp_exchange_handler.  The port-channel has no csm any
\* more, so that enabling its traffic does nothing.
SendPurge(s) ==
  IF s.purge THEN EnableTraffic(Send([s EXCEPT !.purge = FALSE], <<"PURGE">>))
  ELSE s

\* Mutant: a port-channel that is down is not blocked with its configuration.
SendConfig_NoDisable(s) ==
  IF s.bound /\ s.port_config_sync
  THEN Send([s EXCEPT !.port_config_sync = FALSE], <<"CONFIG">>) ELSE s

\* lif_list of mlacp_exchange_handler: configuration, then state.
SendConfig(s) ==
  IF s.bound /\ s.port_config_sync
  THEN Send([DisableTraffic(s) EXCEPT !.port_config_sync = FALSE], <<"CONFIG">>)
  ELSE s

SendState(s) ==
  IF s.bound /\ s.changed
  THEN Send([s EXCEPT !.changed = FALSE], <<StateMsg(s)>>) ELSE s

SendSyncRequest(s) ==
  IF s.need_to_sync THEN Send([s EXCEPT !.need_to_sync = FALSE], <<"SYNC_REQ">>)
  ELSE s

\* mlacp_exchange_handler.
ExchangeHandler(s, m) ==
  LET t == IF m = None THEN s ELSE Receive(s, m)
  IN  SendState(SendConfig(SendPurge(SendSyncRequest(t))))

\* Mutant: the port-channels are not looked at again.
PeerConnHandler_NoPorts(s) == UpdateIsolateFromAllLif(s)

\* mlacp_peer_conn_handler: the local state is handled again, and the
\* isolation group is sent.
PeerConnHandler(s) ==
  UpdateIsolateFromAllLif(
    IF s.bound THEN PortchannelStateHandler(s, s.state) ELSE s)

\* Mutant: wait_for_sync_data is left over from the session before.
Pass_StaleWait(n, s, m, prev) ==
  CASE s.current_state = "INIT" ->
         StageHandler(n, [s EXCEPT !.current_state = "STAGE1"], m)
    [] s.current_state \in {"STAGE1", "STAGE2"} -> StageHandler(n, s, m)
    [] s.current_state = "EXCHANGE" ->
         ExchangeHandler(IF prev # "EXCHANGE" THEN PeerConnHandler(s) ELSE s, m)
    [] s.current_state = "ERROR" -> s

\* One turn of the loop of mlacp_fsm_transit; prev is current_state in the
\* turn before (prev_state).
Pass(n, s, m, prev) ==
  LET t == IF Exchange(s) /\ prev # "EXCHANGE" THEN PeerConnHandler(s) ELSE s
  IN  CASE s.current_state = "INIT" ->
             StageHandler(n, [s EXCEPT !.wait_for_sync_data = FALSE,
                                       !.current_state = "STAGE1"], m)
        [] s.current_state \in {"STAGE1", "STAGE2"} -> StageHandler(n, s, m)
        [] s.current_state = "EXCHANGE" -> ExchangeHandler(t, m)
        [] s.current_state = "ERROR" -> s

\* Mutant: the scheduler clears the changed flags after each pass.
FsmTransit_ClearsChanged(n, s, m) ==
  LET t == Pass(n, s, m, s.current_state)
      u == IF m = None /\ s.current_state # "INIT" THEN t
           ELSE Pass(n, t, None, s.current_state)
  IN  [u EXCEPT !.changed = FALSE]

\* mlacp_fsm_transit of an operational session: a turn for the message m, and
\* one that finds the queue empty.
FsmTransit(n, s, m) ==
  LET t == Pass(n, s, m, s.current_state)
  IN  IF m = None /\ s.current_state # "INIT" THEN t
      ELSE Pass(n, t, None, s.current_state)

-----------------------------------------------------------------------------
(* Steps.                                                                  *)

\* The handler leaves n in state s and the channels as in ch; what it wrote
\* reaches a peer that is still on the connection.
Commit(n, s, ch) ==
  /\ node' = [node EXCEPT ![n] = [s EXCEPT !.out = << >>]]
  /\ chan' = IF Peer(n) \in inst' THEN [ch EXCEPT ![Peer(n)] = @ \o s.out]
             ELSE ch

NoMessages == [n \in Node |-> << >>]

\* The application session of n becomes operational, on a new connection; on
\* one that the other peer has left, maybe with messages under way; or as the
\* second one.
Up(n) ==
  /\ \/ Session!Open(n) /\ inst' = Node /\ left' = left
     \/ /\ Session!Open(n) /\ inst' = {n} /\ left.leaves > 0
        /\ left' = [left EXCEPT !.leaves = @ - 1]
     \/ Session!Join(n) /\ left' = left
  /\ \E ch \in IF n \in inst THEN {chan}
               ELSE IF inst' = Node THEN {NoMessages}
               ELSE {NoMessages, [NoMessages EXCEPT ![n] = chan[n]]} :
       Commit(n, FsmTransit(n, node[n], None), ch)

\* One iteration of the scheduler loop with the session up.
Transit(n) ==
  /\ n \in up
  /\ UNCHANGED <<up, inst, left>>
  /\ IF chan[n] = << >> THEN Commit(n, FsmTransit(n, node[n], None), chan)
     ELSE Commit(n, FsmTransit(n, node[n], Head(chan[n])),
                 [chan EXCEPT ![n] = Tail(@)])

\* mlacp_peer_disconn_handler.
PeerDisconn(s) ==
  IF s.bound THEN EnableTraffic(SetPortIsolate(s, FALSE)) ELSE s

\* mlacp_init: the peer interfaces, the purge list and the queue go.
MlacpReset(s) ==
  [s EXCEPT !.current_state = "INIT", !.need_to_sync = FALSE,
            !.pif = "none", !.purge = FALSE]

\* Mutant: the state is reset before the peer is cleaned up after.
SessionDisconnect_ResetFirst(n) ==
  Commit(n, PeerDisconn(MlacpReset(node[n])), [chan EXCEPT ![n] = << >>])

\* scheduler_session_disconnect_handler.
SessionDisconnect(n) ==
  Commit(n, MlacpReset(PeerDisconn(node[n])), [chan EXCEPT ![n] = << >>])

\* The peer has closed the connection.
LeaveAfterPeer(n) ==
  /\ Peer(n) \notin inst
  /\ Session!Leave(n)
  /\ left' = left
  /\ SessionDisconnect(n)

\* A heartbeat time-out, an error on the socket or a configuration change; the
\* application session need not have been up.
Leave(n) ==
  /\ left.leaves > 0
  /\ left' = [left EXCEPT !.leaves = @ - 1]
  /\ \/ Session!Leave(n)
     \/ n \notin inst /\ UNCHANGED <<up, inst>>
  /\ SessionDisconnect(n)

\* A netlink message says that the port-channel went up or down.
LinkChange(n) ==
  LET po_up == ~node[n].state
      s == [node[n] EXCEPT !.state = po_up]
  IN  /\ left.links > 0
      /\ left' = [left EXCEPT !.links = @ - 1]
      /\ UNCHANGED <<up, inst>>
      /\ Commit(n, IF s.bound THEN PortchannelStateHandler(s, po_up)
                   ELSE [s EXCEPT !.po_active = po_up], chan)

\* local_if_add_vlan, local_if_del_vlan: the configuration has to be sent.
VlanChange(n) ==
  /\ left.vlans > 0
  /\ left' = [left EXCEPT !.vlans = @ - 1]
  /\ UNCHANGED <<up, inst>>
  /\ Commit(n, [node[n] EXCEPT !.port_config_sync = TRUE], chan)

\* iccp_cli_attach_mclag_domain_to_port_channel.
Bind(n) ==
  LET s == [node[n] EXCEPT !.bound = TRUE, !.purge = FALSE,
                           !.port_config_sync = TRUE]
  IN  /\ ~node[n].bound
      /\ UNCHANGED <<up, inst, left>>
      /\ Commit(n, UpdateIsolateFromLif(s, s.po_active), chan)

\* Mutant: the isolation of the port-channel is not taken back.
IntfDetach_KeepsIsolation(s, peer_link) ==
  IF peer_link THEN s ELSE EnableTraffic(s)

\* mlacp_mlag_intf_detach_handler: blocked traffic is enabled only if the peer
\* link is not known, which may be so while the session is down.
IntfDetach(s, peer_link) ==
  LET t == IF Exchange(s) THEN SetPortIsolate(s, FALSE) ELSE s
  IN  IF peer_link THEN t ELSE EnableTraffic(t)

\* iccp_cli_detach_mclag_domain_to_port_channel.
Unbind(n) ==
  /\ node[n].bound
  /\ left.unbinds > 0
  /\ left' = [left EXCEPT !.unbinds = @ - 1]
  /\ UNCHANGED <<up, inst>>
  /\ \E peer_link \in IF n \in up THEN {TRUE} ELSE BOOLEAN :
       Commit(n, [IntfDetach(node[n], peer_link) EXCEPT
                    !.bound = FALSE, !.purge = Exchange(node[n])], chan)

Next ==
  \E n \in Node :
    \/ Up(n) \/ Transit(n) \/ Leave(n) \/ LeaveAfterPeer(n)
    \/ LinkChange(n) \/ VlanChange(n) \/ Bind(n) \/ Unbind(n)

\* local_if_create: the state of a new interface is still to be sent; the
\* configuration of one that is bound too.
Init ==
  /\ Session!SessionInit
  /\ chan = NoMessages
  /\ \E b \in [Node -> BOOLEAN], l \in [Node -> BOOLEAN] :
       node = [n \in Node |->
         [current_state |-> "INIT", wait_for_sync_data |-> FALSE,
          need_to_sync |-> FALSE, purge |-> FALSE,
          bound |-> b[n], state |-> l[n], po_active |-> l[n],
          changed |-> TRUE, port_config_sync |-> b[n],
          is_traffic_disable |-> FALSE, isolate_to_peer_link |-> FALSE,
          isolated |-> FALSE, pif |-> "none", out |-> << >>]]
  /\ left = [links |-> MaxLinkChanges, vlans |-> MaxVlanChanges,
             unbinds |-> MaxUnbinds, leaves |-> MaxLeaves]

Spec == Init /\ [][Next]_vars

\* A pass of n has something to do.
Pending(n) ==
  n \in up /\ (chan[n] # << >> \/ FsmTransit(n, node[n], None) # node[n])

\* The loop of each daemon goes on (weak fairness of Transit, whose being enabled
\* is spelled out), a closed connection is noticed, and the connection layer
\* brings the session up again (EventuallyUp of IccpCsmProps).
FairSpec ==
  /\ Spec
  /\ \A n \in Node : /\ []<>(~Pending(n)) \/ []<><<Transit(n)>>_vars
                     /\ WF_vars(Up(n))
                     /\ WF_vars(LeaveAfterPeer(n))
=============================================================================

---------------------------- MODULE MlacpProofs ----------------------------
(***************************************************************************)
(* Proofs about Mlacp, for all bounds.  Its state has its type; a member    *)
(* port-channel that is down is blocked in the exchange, and one that is    *)
(* not a member is not isolated there; the synchronisation drops nothing    *)
(* (OrderInv, below).  If none is removed from the domain, it keeps the two *)
(* peers in step and ends with each knowing the port-channel of the other   *)
(* (SyncInv, below).                                                        *)
(***************************************************************************)
EXTENDS MlacpProps, TLAPS

\* A leaf is left to Zenon unless it names a prover: SMT where arithmetic or the
\* theory of sequences is needed, PTL for temporal logic.
USE Zenon

-----------------------------------------------------------------------------
(* Sequences.                                                              *)

\* A concatenation takes every element from the part it falls in.
LEMMA ConcatParts ==
  ASSUME NEW S, NEW s \in Seq(S), NEW t \in Seq(S)
  PROVE  /\ s \o t \in Seq(S)
         /\ Len(s \o t) = Len(s) + Len(t)
         /\ \A i \in 1..(Len(s) + Len(t)) :
              (s \o t)[i] = IF i <= Len(s) THEN s[i] ELSE t[i - Len(s)]
  BY SMT

\* Two sequences with the same elements in the same places are the same.
LEMMA SameSeq ==
  ASSUME NEW S, NEW s \in Seq(S), NEW t \in Seq(S), Len(s) = Len(t),
         \A i \in 1..Len(s) : s[i] = t[i]
  PROVE  s = t
  BY SMT

\* Nothing is added by the empty sequence.
LEMMA ConcatNil ==
  ASSUME NEW S, NEW s \in Seq(S)
  PROVE  s \o << >> = s /\ << >> \o s = s
  <1>1. /\ s \o << >> \in Seq(S) /\ Len(s \o << >>) = Len(s)
        /\ \A i \in 1..Len(s) : (s \o << >>)[i] = s[i]
    BY SMT
  <1>2. /\ << >> \o s \in Seq(S) /\ Len(<< >> \o s) = Len(s)
        /\ \A i \in 1..Len(s) : (<< >> \o s)[i] = s[i]
    BY SMT
  <1> QED  BY <1>1, <1>2, SameSeq

\* Concatenation is associative.
LEMMA ConcatAssoc ==
  ASSUME NEW S, NEW s \in Seq(S), NEW t \in Seq(S), NEW u \in Seq(S)
  PROVE  (s \o t) \o u = s \o (t \o u)
  <1> DEFINE l == (s \o t) \o u
             r == s \o (t \o u)
  <1>1. /\ l \in Seq(S) /\ r \in Seq(S)
        /\ Len(l) = Len(s) + Len(t) + Len(u)
        /\ Len(r) = Len(s) + Len(t) + Len(u)
    BY SMT
  <1>2. ASSUME NEW i \in 1..Len(l)  PROVE l[i] = r[i]
    BY <1>1, SMT
  <1> QED  BY <1>1, <1>2, SameSeq

-----------------------------------------------------------------------------
(* Every handler takes a state of a node to a state of a node.             *)

\* iccp_csm_send adds messages to what the handler has written.
LEMMA SendType ==
  ASSUME NEW s \in NodeState, NEW ms \in Seq(Msg)
  PROVE  Send(s, ms) \in NodeState
  <1>1. s.out \o ms \in Seq(Msg)
    BY SMT DEF NodeState
  <1> DEFINE o == s.out \o ms
  <1>2. [s EXCEPT !.out = o] \in NodeState
    <2> HIDE DEF o
    <2>1. o \in Seq(Msg)
      BY <1>1 DEF o
    <2> QED  BY <2>1 DEF NodeState
  <1> QED
    BY <1>2 DEF Send

\* The isolation helpers of mlacp_link_handler.c keep the type.
LEMMA SetPortIsolateType ==
  ASSUME NEW s \in NodeState, NEW e \in BOOLEAN
  PROVE  SetPortIsolate(s, e) \in NodeState
  <1> DEFINE t == [s EXCEPT !.isolate_to_peer_link = e]
  <1>1. t \in NodeState
    BY DEF NodeState
  <1>2. UpdateIsolateFromAllLif(t) \in NodeState
    <2> HIDE DEF t
    <2> QED  BY <1>1 DEF UpdateIsolateFromAllLif, NodeState
  <1> QED
    BY <1>1, <1>2 DEF SetPortIsolate

\* update_peerlink_isolate_from_pif and update_peerlink_isolate_from_lif.
LEMMA UpdateIsolateType ==
  ASSUME NEW s \in NodeState, NEW u \in BOOLEAN
  PROVE  /\ UpdateIsolateFromPif(s, u) \in NodeState
         /\ UpdateIsolateFromLif(s, u) \in NodeState
  <1> QED
    BY SetPortIsolateType DEF UpdateIsolateFromPif, UpdateIsolateFromLif

\* Blocking and unblocking of traffic.
LEMMA TrafficType ==
  ASSUME NEW s \in NodeState
  PROVE  DisableTraffic(s) \in NodeState /\ EnableTraffic(s) \in NodeState
  <1>1. [s EXCEPT !.is_traffic_disable = TRUE] \in NodeState
    BY DEF NodeState
  <1>2. [s EXCEPT !.is_traffic_disable = FALSE] \in NodeState
    BY DEF NodeState
  <1> QED
    BY <1>1, <1>2 DEF DisableTraffic, EnableTraffic

\* update_po_if_info and mlacp_portchannel_state_handler.
LEMMA PortchannelStateType ==
  ASSUME NEW s \in NodeState, NEW u \in BOOLEAN
  PROVE  PortchannelStateHandler(s, u) \in NodeState
  <1>1. \A r \in NodeState : UpdatePoIfInfo(r, u) \in NodeState
    <2> SUFFICES ASSUME NEW r \in NodeState
                 PROVE  UpdatePoIfInfo(r, u) \in NodeState
      OBVIOUS
    <2>1. [r EXCEPT !.changed = TRUE, !.po_active = u] \in NodeState
      BY DEF NodeState
    <2> QED
      BY <2>1 DEF UpdatePoIfInfo
  <1> QED
    BY <1>1, UpdateIsolateType, TrafficType DEF PortchannelStateHandler

\* The messages of a synchronisation are messages.
LEMMA StateMsgType ==
  ASSUME NEW s
  PROVE  StateMsg(s) \in Msg
  BY DEF StateMsg, Msg

\* current_state++ stays inside the enumeration.
LEMMA NextStageType ==
  ASSUME NEW st \in MlacpState
  PROVE  NextStage(st) \in MlacpState
  BY DEF NextStage, MlacpState

\* mlacp_sync_send_all_info_handler.
LEMMA SendAllInfoType ==
  ASSUME NEW s \in NodeState
  PROVE  SendAllInfo(s) \in NodeState
  <1> DEFINE data == IF s.bound THEN <<"CONFIG", StateMsg(s)>> ELSE << >>
             ms == <<"SYNC_START">> \o data \o <<"SYNC_DONE">>
             t == Send(s, ms)
  <1>1. ms \in Seq(Msg)
    <2>1. data \in Seq(Msg)
      <3>1. <<"CONFIG", StateMsg(s)>> \in Seq(Msg)
        <4>1. StateMsg(s) \in Msg  BY StateMsgType
        <4> QED  BY <4>1, SMT DEF Msg
      <3> QED  BY <3>1, SMT
    <2>2. <<"SYNC_START">> \in Seq(Msg) /\ <<"SYNC_DONE">> \in Seq(Msg)
      BY SMT DEF Msg
    <2> HIDE DEF data
    <2> QED  BY <2>1, <2>2, SMT
  <1>2. t \in NodeState
    <2> HIDE DEF ms
    <2> QED  BY <1>1, SendType
  <1>3. NextStage(t.current_state) \in MlacpState
    <2> HIDE DEF t
    <2> QED  BY <1>2, NextStageType DEF NodeState
  <1> DEFINE c == IF s.bound THEN FALSE ELSE t.changed
             p == IF s.bound THEN FALSE ELSE t.port_config_sync
             st == NextStage(t.current_state)
  <1>5. c \in BOOLEAN /\ p \in BOOLEAN
    <2> HIDE DEF t
    <2> QED  BY <1>2 DEF NodeState
  <1>6. [t EXCEPT !.changed = c, !.port_config_sync = p,
                  !.wait_for_sync_data = FALSE, !.current_state = st]
          \in NodeState
    <2>1. st \in MlacpState  BY <1>3
    <2> HIDE DEF t, c, p, st
    <2> QED  BY <1>2, <1>5, <2>1 DEF NodeState
  <1> QED
    BY <1>6 DEF SendAllInfo

\* The updates of the peer interface (mlacp_sync_update.c).
LEMMA PifUpdateType ==
  ASSUME NEW s \in NodeState, NEW b \in BOOLEAN
  PROVE  UpdateAggConf(s, b) \in NodeState /\ UpdateAggportState(s, b) \in NodeState
  <1>1. \A x \in {"none", "up", "down"} : [s EXCEPT !.pif = x] \in NodeState
    BY DEF NodeState
  <1>2. [s EXCEPT !.need_to_sync = TRUE] \in NodeState
    BY DEF NodeState
  <1>3. /\ [s EXCEPT !.pif = "none"] \in NodeState
        /\ [s EXCEPT !.pif = "up"] \in NodeState
        /\ [s EXCEPT !.pif = "down"] \in NodeState
    BY <1>1
  <1>4. UpdateAggConf(s, b) \in NodeState
    <2>1. UpdateIsolateFromPif([s EXCEPT !.pif = "up"], TRUE) \in NodeState
      BY <1>3, UpdateIsolateType
    <2>2. CASE b
      BY <2>2, <1>2, <1>3 DEF UpdateAggConf
    <2>3. CASE ~b
      BY <2>1, <2>3 DEF UpdateAggConf
    <2> QED  BY <2>2, <2>3
  <1>5. UpdateAggportState(s, b) \in NodeState
    <2>1. CASE b
      <3>1. UpdateIsolateFromPif([s EXCEPT !.pif = "up"], b) \in NodeState
        BY <1>3, UpdateIsolateType
      <3> QED  BY <2>1, <3>1 DEF UpdateAggportState
    <2>2. CASE ~b
      <3>1. UpdateIsolateFromPif([s EXCEPT !.pif = "down"], b) \in NodeState
        BY <1>3, UpdateIsolateType
      <3> QED  BY <2>2, <3>1 DEF UpdateAggportState
    <2> QED  BY <2>1, <2>2
  <1> QED
    BY <1>4, <1>5

\* mlacp_sync_receiver_handler.
LEMMA ReceiveType ==
  ASSUME NEW s \in NodeState, NEW m \in Msg
  PROVE  Receive(s, m) \in NodeState
  <1>1. [s EXCEPT !.wait_for_sync_data = FALSE] \in NodeState
    BY DEF NodeState
  <1>2. /\ UpdateAggConf(s, TRUE) \in NodeState
        /\ UpdateAggConf(s, FALSE) \in NodeState
        /\ UpdateAggportState(s, TRUE) \in NodeState
        /\ UpdateAggportState(s, FALSE) \in NodeState
    BY PifUpdateType
  <1>3. SendIfUpAck(UpdateAggportState(s, TRUE)) \in NodeState
    <2>1. <<"IF_UP_ACK">> \in Seq(Msg)  BY SMT DEF Msg
    <2> QED  BY <1>2, <2>1, SendType DEF SendIfUpAck
  <1>4. RecvIfUpAck(s) \in NodeState
    BY TrafficType DEF RecvIfUpAck
  <1> QED
    BY <1>1, <1>2, <1>3, <1>4, SendAllInfoType DEF Receive, Msg

\* The handlers of the two stages.
LEMMA StageType ==
  ASSUME NEW n \in Node, NEW s \in NodeState, NEW m \in Msg \cup {None}
  PROVE  StageHandler(n, s, m) \in NodeState
  <1>1. StageSyncSend(s, m) \in NodeState
    BY SendAllInfoType DEF StageSyncSend
  <1>2. StageSyncRequest(s, m) \in NodeState
    <2>1. Send([s EXCEPT !.wait_for_sync_data = TRUE], <<"SYNC_REQ">>)
            \in NodeState
      <3>1. [s EXCEPT !.wait_for_sync_data = TRUE] \in NodeState
        BY DEF NodeState
      <3>2. <<"SYNC_REQ">> \in Seq(Msg)  BY SMT DEF Msg
      <3> QED  BY <3>1, <3>2, SendType
    <2> DEFINE t == IF m = None THEN s ELSE Receive(s, m)
    <2>2. t \in NodeState
      BY ReceiveType
    <2>3. [t EXCEPT !.current_state = NextStage(t.current_state)] \in NodeState
      <3> HIDE DEF t
      <3> DEFINE st == NextStage(t.current_state)
      <3>1. st \in MlacpState
        BY <2>2, NextStageType DEF NodeState
      <3> HIDE DEF st
      <3>2. [t EXCEPT !.current_state = st] \in NodeState
        BY <2>2, <3>1 DEF NodeState
      <3> QED  BY <3>2 DEF st
    <2> QED
      BY <2>1, <2>2, <2>3 DEF StageSyncRequest
  <1> QED
    BY <1>1, <1>2 DEF StageHandler

\* mlacp_exchange_handler.
LEMMA ExchangeType ==
  ASSUME NEW s \in NodeState, NEW m \in Msg \cup {None}
  PROVE  ExchangeHandler(s, m) \in NodeState
  <1>1. /\ <<"PURGE">> \in Seq(Msg)
        /\ <<"CONFIG">> \in Seq(Msg)
        /\ <<"SYNC_REQ">> \in Seq(Msg)
    BY SMT DEF Msg
  <1>2. \A r \in NodeState : SendSyncRequest(r) \in NodeState
    <2> SUFFICES ASSUME NEW r \in NodeState
                 PROVE  SendSyncRequest(r) \in NodeState
      OBVIOUS
    <2>1. [r EXCEPT !.need_to_sync = FALSE] \in NodeState  BY DEF NodeState
    <2> QED  BY <1>1, <2>1, SendType DEF SendSyncRequest
  <1>3. \A r \in NodeState : SendPurge(r) \in NodeState
    <2> SUFFICES ASSUME NEW r \in NodeState
                 PROVE  SendPurge(r) \in NodeState
      OBVIOUS
    <2>1. [r EXCEPT !.purge = FALSE] \in NodeState  BY DEF NodeState
    <2> QED  BY <1>1, <2>1, SendType, TrafficType DEF SendPurge
  <1>4. \A r \in NodeState : SendConfig(r) \in NodeState
    <2> SUFFICES ASSUME NEW r \in NodeState
                 PROVE  SendConfig(r) \in NodeState
      OBVIOUS
    <2> DEFINE d == DisableTraffic(r)
    <2>1. d \in NodeState  BY TrafficType
    <2> HIDE DEF d
    <2>2. [d EXCEPT !.port_config_sync = FALSE] \in NodeState
      BY <2>1 DEF NodeState
    <2> QED  BY <1>1, <2>2, SendType DEF SendConfig, d
  <1>5. \A r \in NodeState : SendState(r) \in NodeState
    <2> SUFFICES ASSUME NEW r \in NodeState
                 PROVE  SendState(r) \in NodeState
      OBVIOUS
    <2>1. [r EXCEPT !.changed = FALSE] \in NodeState  BY DEF NodeState
    <2>2. <<StateMsg(r)>> \in Seq(Msg)
      <3>1. StateMsg(r) \in Msg  BY StateMsgType
      <3> QED  BY <3>1, SMT
    <2> QED  BY <2>1, <2>2, SendType DEF SendState
  <1>6. (IF m = None THEN s ELSE Receive(s, m)) \in NodeState
    BY ReceiveType
  <1> QED
    BY <1>2, <1>3, <1>4, <1>5, <1>6 DEF ExchangeHandler

\* One turn of mlacp_fsm_transit, and the two that make a pass.
LEMMA FsmTransitType ==
  ASSUME NEW n \in Node, NEW s \in NodeState, NEW m \in Msg \cup {None}
  PROVE  FsmTransit(n, s, m) \in NodeState
  <1>1. \A r \in NodeState : PeerConnHandler(r) \in NodeState
    <2> SUFFICES ASSUME NEW r \in NodeState
                 PROVE  PeerConnHandler(r) \in NodeState
      OBVIOUS
    <2> DEFINE q == IF r.bound THEN PortchannelStateHandler(r, r.state) ELSE r
    <2>1. r.state \in BOOLEAN
      BY DEF NodeState
    <2>2. q \in NodeState
      BY <2>1, PortchannelStateType
    <2> HIDE DEF q
    <2>3. UpdateIsolateFromAllLif(q) \in NodeState
      BY <2>2 DEF UpdateIsolateFromAllLif, NodeState
    <2> QED
      BY <2>3 DEF PeerConnHandler, q
  <1>2. \A r \in NodeState, k \in Msg \cup {None}, prev \in MlacpState :
          Pass(n, r, k, prev) \in NodeState
    <2> SUFFICES ASSUME NEW r \in NodeState, NEW k \in Msg \cup {None},
                        NEW prev \in MlacpState
                 PROVE  Pass(n, r, k, prev) \in NodeState
      OBVIOUS
    <2> DEFINE i == [r EXCEPT !.wait_for_sync_data = FALSE,
                              !.current_state = "STAGE1"]
               t == IF Exchange(r) /\ prev # "EXCHANGE" THEN PeerConnHandler(r)
                    ELSE r
    <2>1. i \in NodeState
      BY DEF NodeState, MlacpState
    <2>2. StageHandler(n, i, k) \in NodeState
      <3> HIDE DEF i
      <3> QED  BY <2>1, StageType
    <2>3. StageHandler(n, r, k) \in NodeState
      BY StageType
    <2>4. t \in NodeState
      BY <1>1
    <2>5. ExchangeHandler(t, k) \in NodeState
      <3> HIDE DEF t
      <3> QED  BY <2>4, ExchangeType
    <2>6. r.current_state \in MlacpState
      BY DEF NodeState
    <2> QED
      BY <2>2, <2>3, <2>5, <2>6 DEF Pass, MlacpState
  <1>3. s.current_state \in MlacpState
    BY DEF NodeState
  <1>4. None \in Msg \cup {None}
    OBVIOUS
  <1>5. Pass(n, s, m, s.current_state) \in NodeState
    BY <1>2, <1>3
  <1>6. Pass(n, Pass(n, s, m, s.current_state), None, s.current_state)
          \in NodeState
    BY <1>2, <1>3, <1>4, <1>5
  <1> QED
    BY <1>5, <1>6 DEF FsmTransit

\* scheduler_session_disconnect_handler.
LEMMA DisconnectType ==
  ASSUME NEW s \in NodeState
  PROVE  MlacpReset(PeerDisconn(s)) \in NodeState
  <1> DEFINE d == PeerDisconn(s)
  <1>1. d \in NodeState
    BY SetPortIsolateType, TrafficType DEF PeerDisconn
  <1> HIDE DEF d
  <1>2. MlacpReset(d) \in NodeState
    BY <1>1, ZenonT(30) DEF MlacpReset, NodeState, MlacpState
  <1> QED
    BY <1>2 DEF d

-----------------------------------------------------------------------------
(* Type correctness.                                                       *)

\* What a handler commits has its type.
LEMMA CommitType ==
  ASSUME TypeOK, NEW n \in Node, NEW s \in NodeState,
         NEW ch \in [Node -> Seq(Msg)], Commit(n, s, ch)
  PROVE  chan' \in [Node -> Seq(Msg)] /\ node' \in [Node -> NodeState]
  <1>1. [s EXCEPT !.out = << >>] \in NodeState
    <2> DEFINE e == << >>
    <2>1. e \in Seq(Msg)
      BY SMT
    <2> HIDE DEF e
    <2>2. [s EXCEPT !.out = e] \in NodeState
      BY <2>1 DEF NodeState
    <2> QED  BY <2>2 DEF e
  <1>2. node' \in [Node -> NodeState]
    BY <1>1 DEF Commit, TypeOK
  <1>3. Peer(n) \in Node
    BY DEF Peer, Node
  <1>4. ch[Peer(n)] \o s.out \in Seq(Msg)
    <2>1. ch[Peer(n)] \in Seq(Msg)  BY <1>3
    <2>2. s.out \in Seq(Msg)  BY DEF NodeState
    <2> QED  BY <2>1, <2>2, SMT
  <1>5. [ch EXCEPT ![Peer(n)] = ch[Peer(n)] \o s.out] \in [Node -> Seq(Msg)]
    BY <1>4
  <1> QED
    BY <1>2, <1>5 DEF Commit

\* Every step keeps the type.
LEMMA TypeOKStep ==
  ASSUME TypeOK, Next
  PROVE  TypeOK'
  <1> PICK n \in Node :
        \/ Up(n) \/ Transit(n) \/ Leave(n) \/ LeaveAfterPeer(n)
        \/ LinkChange(n) \/ VlanChange(n) \/ Bind(n) \/ Unbind(n)
    BY DEF Next
  <1> DEFINE Left == [links : Nat, vlans : Nat, unbinds : Nat, leaves : Nat]
  <1>1. /\ node[n] \in NodeState
        /\ chan \in [Node -> Seq(Msg)] /\ chan[n] \in Seq(Msg)
        /\ left \in Left /\ up \subseteq Node /\ inst \subseteq Node
    BY DEF TypeOK
  <1>2. [chan EXCEPT ![n] = << >>] \in [Node -> Seq(Msg)]
    BY <1>1, SMT
  <1>3. SUFFICES /\ up' \subseteq Node /\ inst' \subseteq Node
                 /\ left' \in Left
                 /\ \E s \in NodeState, ch \in [Node -> Seq(Msg)] :
                      Commit(n, s, ch)
    BY CommitType DEF TypeOK
  <1>4. left.leaves > 0 => [left EXCEPT !.leaves = @ - 1] \in Left
    BY <1>1, SMT
  <1>5. left.links > 0 => [left EXCEPT !.links = @ - 1] \in Left
    BY <1>1, SMT
  <1>6. left.vlans > 0 => [left EXCEPT !.vlans = @ - 1] \in Left
    BY <1>1, SMT
  <1>7. left.unbinds > 0 => [left EXCEPT !.unbinds = @ - 1] \in Left
    BY <1>1, SMT
  <1>9. FsmTransit(n, node[n], None) \in NodeState
    BY <1>1, FsmTransitType
  <1>10. CASE Up(n)
    <2>1. up' \subseteq Node /\ inst' \subseteq Node
      BY <1>10, <1>1 DEF Up, Session!Open, Session!Join, Node
    <2>2. left' \in Left
      <3> HIDE DEF Left
      <3> QED  BY <1>10, <1>1, <1>4 DEF Up
    <2>3. NoMessages \in [Node -> Seq(Msg)]
      BY SMT DEF NoMessages
    <2>4. [NoMessages EXCEPT ![n] = chan[n]] \in [Node -> Seq(Msg)]
      BY <1>1, <2>3
    <2>5. PICK ch \in {chan, NoMessages, [NoMessages EXCEPT ![n] = chan[n]]} :
            Commit(n, FsmTransit(n, node[n], None), ch)
      BY <1>10 DEF Up
    <2>6. ch \in [Node -> Seq(Msg)]
      BY <1>1, <2>3, <2>4
    <2> QED
      BY <1>9, <2>1, <2>2, <2>5, <2>6
  <1>11. CASE Transit(n)
    <2>1. up' \subseteq Node /\ inst' \subseteq Node /\ left' \in Left
      BY <1>11, <1>1 DEF Transit
    <2>2. CASE chan[n] = << >>
      BY <1>1, <1>9, <1>11, <2>1, <2>2 DEF Transit
    <2>3. CASE chan[n] # << >>
      <3>1. Head(chan[n]) \in Msg /\ Tail(chan[n]) \in Seq(Msg)
        BY <1>1, <2>3, SMT
      <3>2. [chan EXCEPT ![n] = Tail(chan[n])] \in [Node -> Seq(Msg)]
        BY <1>1, <3>1
      <3>3. FsmTransit(n, node[n], Head(chan[n])) \in NodeState
        BY <1>1, <3>1, FsmTransitType
      <3>4. Commit(n, FsmTransit(n, node[n], Head(chan[n])),
                   [chan EXCEPT ![n] = Tail(chan[n])])
        BY <1>11, <2>3 DEF Transit
      <3> QED  BY <2>1, <3>2, <3>3, <3>4
    <2> QED  BY <2>2, <2>3
  <1>12. CASE Leave(n)
    <2>1. up' \subseteq Node /\ inst' \subseteq Node
      BY <1>12, <1>1 DEF Leave, Session!Leave
    <2>2. left' \in Left
      <3> HIDE DEF Left
      <3> QED  BY <1>12, <1>4 DEF Leave
    <2> QED
      BY <1>1, <1>2, <1>12, <2>1, <2>2, DisconnectType
         DEF Leave, SessionDisconnect
  <1>13. CASE LeaveAfterPeer(n)
    <2>1. up' \subseteq Node /\ inst' \subseteq Node /\ left' \in Left
      BY <1>13, <1>1 DEF LeaveAfterPeer, Session!Leave
    <2> QED
      BY <1>1, <1>2, <1>13, <2>1, DisconnectType
         DEF LeaveAfterPeer, SessionDisconnect
  <1>14. CASE LinkChange(n)
    <2> DEFINE u == ~node[n].state
               s == [node[n] EXCEPT !.state = u]
               r == IF s.bound THEN PortchannelStateHandler(s, u)
                    ELSE [s EXCEPT !.po_active = u]
    <2>1. up' \subseteq Node /\ inst' \subseteq Node /\ left' \in Left
      <3> HIDE DEF Left
      <3> QED  BY <1>14, <1>1, <1>5 DEF LinkChange
    <2>2. u \in BOOLEAN /\ s \in NodeState
      BY <1>1 DEF NodeState
    <2>3. r \in NodeState
      <3> HIDE DEF s, u
      <3>1. [s EXCEPT !.po_active = u] \in NodeState
        BY <2>2 DEF NodeState
      <3> QED  BY <2>2, <3>1, PortchannelStateType
    <2>4. Commit(n, r, chan)
      BY <1>14 DEF LinkChange
    <2> HIDE DEF r
    <2> QED  BY <1>1, <2>1, <2>3, <2>4
  <1>15. CASE VlanChange(n)
    <2>1. up' \subseteq Node /\ inst' \subseteq Node /\ left' \in Left
      <3> HIDE DEF Left
      <3> QED  BY <1>15, <1>1, <1>6 DEF VlanChange
    <2>2. [node[n] EXCEPT !.port_config_sync = TRUE] \in NodeState
      BY <1>1 DEF NodeState
    <2> QED  BY <1>1, <1>15, <2>1, <2>2 DEF VlanChange
  <1>16. CASE Bind(n)
    <2> DEFINE s == [node[n] EXCEPT !.bound = TRUE, !.purge = FALSE,
                                    !.port_config_sync = TRUE]
    <2>1. up' \subseteq Node /\ inst' \subseteq Node /\ left' \in Left
      BY <1>16, <1>1 DEF Bind
    <2>2. s \in NodeState
      BY <1>1 DEF NodeState
    <2>3. UpdateIsolateFromLif(s, s.po_active) \in NodeState
      <3> HIDE DEF s
      <3>1. s.po_active \in BOOLEAN  BY <2>2 DEF NodeState
      <3> QED  BY <2>2, <3>1, UpdateIsolateType
    <2>4. Commit(n, UpdateIsolateFromLif(s, s.po_active), chan)
      BY <1>16 DEF Bind
    <2> HIDE DEF s
    <2> QED  BY <1>1, <2>1, <2>3, <2>4
  <1>17. CASE Unbind(n)
    <2>1. up' \subseteq Node /\ inst' \subseteq Node /\ left' \in Left
      <3> HIDE DEF Left
      <3> QED  BY <1>17, <1>1, <1>7 DEF Unbind
    <2>2. PICK k \in BOOLEAN :
            Commit(n, [IntfDetach(node[n], k) EXCEPT
                         !.bound = FALSE, !.purge = Exchange(node[n])], chan)
      BY <1>17 DEF Unbind
    <2> DEFINE d == IntfDetach(node[n], k)
               x == Exchange(node[n])
    <2>3. d \in NodeState
      BY <1>1, SetPortIsolateType, TrafficType DEF IntfDetach
    <2>4. x \in BOOLEAN
      BY DEF Exchange
    <2>5. [d EXCEPT !.bound = FALSE, !.purge = x] \in NodeState
      <3> HIDE DEF d, x
      <3> QED  BY <2>3, <2>4 DEF NodeState
    <2> QED  BY <1>1, <2>1, <2>2, <2>5
  <1> QED
    BY <1>10, <1>11, <1>12, <1>13, <1>14, <1>15, <1>16, <1>17

\* The state of the model has its type, for all bounds.
THEOREM TypeCorrect == Spec => []TypeOK
  <1>1. Init => TypeOK
    <2> SUFFICES ASSUME Init PROVE TypeOK
      OBVIOUS
    <2>1. up \subseteq Node /\ inst \subseteq Node
      BY DEF Init, Session!SessionInit
    <2>2. chan \in [Node -> Seq(Msg)]
      BY SMT DEF Init, NoMessages
    <2>3. node \in [Node -> NodeState]
      BY SMT DEF Init, NodeState, MlacpState
    <2>4. left \in [links : Nat, vlans : Nat, unbinds : Nat, leaves : Nat]
      BY BoundAssumption DEF Init
    <2> QED
      BY <2>1, <2>2, <2>3, <2>4 DEF TypeOK
  <1>2. TypeOK /\ [Next]_vars => TypeOK'
    <2>1. ASSUME TypeOK, UNCHANGED vars PROVE TypeOK'
      BY <2>1 DEF TypeOK, vars
    <2> QED
      BY <2>1, TypeOKStep
  <1> QED
    BY <1>1, <1>2, PTL DEF Spec

-----------------------------------------------------------------------------
(* A member port-channel that is down is blocked in the exchange.          *)
(*                                                                         *)
(* The inductive invariant is Good for each node.  It needs, beyond the    *)
(* property, that po_active is the state of the interface, for blocking    *)
(* and acknowledgements look at po_active, and that a port-channel on the  *)
(* purge list is not a member, for the purge enables traffic.  Inside a    *)
(* pass only Weak holds: the turn that reaches the exchange leaves it to   *)
(* mlacp_peer_conn_handler, in the turn after, to block the port-channel.  *)

Weak(s) == s.po_active = s.state /\ ~(s.purge /\ s.bound)

Blocked(s) ==
  (Exchange(s) /\ s.bound /\ ~s.state)
    => s.is_traffic_disable \/ s.port_config_sync

Good(s) == Weak(s) /\ Blocked(s)

\* s and t agree in the fields that Good looks at.
SameCore(s, t) ==
  /\ t.current_state = s.current_state
  /\ t.bound = s.bound
  /\ t.state = s.state
  /\ t.po_active = s.po_active
  /\ t.is_traffic_disable = s.is_traffic_disable
  /\ t.port_config_sync = s.port_config_sync
  /\ t.purge = s.purge

\* Handlers that agree in these fields agree in Good.
LEMMA SameCoreGood ==
  ASSUME NEW s, NEW t, SameCore(s, t)
  PROVE  /\ Weak(s) => Weak(t)
         /\ Good(s) => Good(t)
  BY DEF SameCore, Weak, Good, Blocked, Exchange

\* Agreement goes through two handlers.
LEMMA SameCoreTrans ==
  ASSUME NEW s, NEW t, NEW u, SameCore(s, t), SameCore(t, u)
  PROVE  SameCore(s, u)
  BY DEF SameCore

\* What touches only messages, isolation or the peer interface.
LEMMA FrameCore ==
  ASSUME NEW s \in NodeState, NEW ms \in Seq(Msg), NEW b \in BOOLEAN
  PROVE  /\ SameCore(s, Send(s, ms))
         /\ SameCore(s, SetPortIsolate(s, b))
         /\ SameCore(s, UpdateIsolateFromAllLif(s))
         /\ SameCore(s, UpdateIsolateFromPif(s, b))
         /\ SameCore(s, UpdateIsolateFromLif(s, b))
  <1>1. SameCore(s, s)
    BY DEF SameCore
  <1>2. SameCore(s, Send(s, ms))
    BY DEF SameCore, Send, NodeState
  <1>3. \A r \in NodeState : SameCore(r, UpdateIsolateFromAllLif(r))
    BY DEF SameCore, UpdateIsolateFromAllLif, NodeState
  <1>4. \A e \in BOOLEAN : SameCore(s, SetPortIsolate(s, e))
    <2> SUFFICES ASSUME NEW e \in BOOLEAN
                 PROVE  SameCore(s, SetPortIsolate(s, e))
      OBVIOUS
    <2> DEFINE t == [s EXCEPT !.isolate_to_peer_link = e]
    <2>1. t \in NodeState /\ SameCore(s, t)
      BY DEF SameCore, NodeState
    <2>2. SameCore(s, UpdateIsolateFromAllLif(t))
      <3> HIDE DEF t
      <3> QED  BY <1>3, <2>1, SameCoreTrans
    <2> QED
      BY <2>1, <2>2 DEF SetPortIsolate
  <1>5. SameCore(s, UpdateIsolateFromPif(s, b))
    BY <1>1, <1>4 DEF UpdateIsolateFromPif
  <1>6. SameCore(s, UpdateIsolateFromLif(s, b))
    <2>1. (s.pif # "down") \in BOOLEAN  OBVIOUS
    <2> QED  BY <1>1, <1>4, <2>1 DEF UpdateIsolateFromLif
  <1> QED
    BY <1>2, <1>3, <1>4, <1>5, <1>6

\* The messages about the peer interface do not touch these fields either.
LEMMA PifUpdateCore ==
  ASSUME NEW s \in NodeState, NEW b \in BOOLEAN
  PROVE  /\ SameCore(s, UpdateAggConf(s, b))
         /\ SameCore(s, UpdateAggportState(s, b))
         /\ SameCore(s, SendIfUpAck(UpdateAggportState(s, b)))
  <1>1. SameCore(s, s)
    BY DEF SameCore
  <1>2. \A x \in {"none", "up", "down"}, u \in BOOLEAN :
          /\ [s EXCEPT !.pif = x] \in NodeState
          /\ SameCore(s, [s EXCEPT !.pif = x])
          /\ SameCore(s, UpdateIsolateFromPif([s EXCEPT !.pif = x], u))
    <2> SUFFICES ASSUME NEW x \in {"none", "up", "down"}, NEW u \in BOOLEAN
                 PROVE  /\ [s EXCEPT !.pif = x] \in NodeState
                        /\ SameCore(s, [s EXCEPT !.pif = x])
                        /\ SameCore(s, UpdateIsolateFromPif(
                                           [s EXCEPT !.pif = x], u))
      OBVIOUS
    <2> DEFINE t == [s EXCEPT !.pif = x]
    <2>1. t \in NodeState /\ SameCore(s, t)
      BY DEF NodeState, SameCore
    <2> HIDE DEF t
    <2>2. SameCore(t, UpdateIsolateFromPif(t, u))
      <3>1. << >> \in Seq(Msg)  BY SMT
      <3> QED  BY <2>1, <3>1, FrameCore
    <2>3. SameCore(s, UpdateIsolateFromPif(t, u))
      BY <2>1, <2>2, SameCoreTrans
    <2> QED
      BY <2>1, <2>3 DEF t
  <1>3. SameCore(s, [s EXCEPT !.need_to_sync = TRUE])
    BY DEF NodeState, SameCore
  <1>4. /\ SameCore(s, [s EXCEPT !.pif = "none"])
        /\ SameCore(s, UpdateIsolateFromPif([s EXCEPT !.pif = "up"], TRUE))
        /\ SameCore(s, UpdateIsolateFromPif([s EXCEPT !.pif = "up"], b))
        /\ SameCore(s, UpdateIsolateFromPif([s EXCEPT !.pif = "down"], b))
    BY <1>2
  <1>5. SameCore(s, UpdateAggConf(s, b))
    <2>1. CASE b
      BY <2>1, <1>3, <1>4 DEF UpdateAggConf
    <2>2. CASE ~b
      BY <2>2, <1>1, <1>4 DEF UpdateAggConf
    <2> QED  BY <2>1, <2>2
  <1>6. SameCore(s, UpdateAggportState(s, b))
    <2>1. CASE b
      BY <1>1, <1>4 DEF UpdateAggportState
    <2>2. CASE ~b
      BY <1>1, <1>4 DEF UpdateAggportState
    <2> QED  BY <2>1, <2>2
  <1>7. SameCore(s, SendIfUpAck(UpdateAggportState(s, b)))
    <2> DEFINE t == UpdateAggportState(s, b)
    <2>1. t \in NodeState  BY PifUpdateType
    <2>2. <<"IF_UP_ACK">> \in Seq(Msg)  BY SMT DEF Msg
    <2> HIDE DEF t
    <2>3. SameCore(t, Send(t, <<"IF_UP_ACK">>))
      BY <2>1, <2>2, FrameCore
    <2>4. SameCore(s, t)
      BY <1>6 DEF t
    <2>5. SameCore(s, Send(t, <<"IF_UP_ACK">>))
      BY <2>3, <2>4, SameCoreTrans
    <2> QED
      BY <2>4, <2>5 DEF SendIfUpAck, t
  <1> QED
    BY <1>5, <1>6, <1>7

\* Sending everything moves to the next stage, and from the exchange to the
\* error state.
LEMMA SendAllInfoWeak ==
  ASSUME NEW s \in NodeState, Weak(s)
  PROVE  /\ Weak(SendAllInfo(s))
         /\ Exchange(s) => ~Exchange(SendAllInfo(s))
  <1> DEFINE data == IF s.bound THEN <<"CONFIG", StateMsg(s)>> ELSE << >>
             ms == <<"SYNC_START">> \o data \o <<"SYNC_DONE">>
             o == s.out \o ms
             t == [s EXCEPT !.out = o]
             c == IF s.bound THEN FALSE ELSE t.changed
             p == IF s.bound THEN FALSE ELSE t.port_config_sync
             st == NextStage(t.current_state)
             r == [t EXCEPT !.changed = c, !.port_config_sync = p,
                            !.wait_for_sync_data = FALSE, !.current_state = st]
  <1>1. SendAllInfo(s) = r
    BY DEF SendAllInfo, Send
  <1>2. /\ t.current_state = s.current_state
        /\ r.current_state = st /\ r.po_active = s.po_active
        /\ r.state = s.state /\ r.purge = s.purge /\ r.bound = s.bound
    <2> HIDE DEF o, c, p, st
    <2> QED  BY DEF NodeState
  <1>3. Exchange(s) => st = "ERROR"
    <2> HIDE DEF t
    <2> QED  BY <1>2 DEF Exchange, NextStage
  <1> HIDE DEF r, st
  <1> QED
    BY <1>1, <1>2, <1>3 DEF Weak, Exchange

\* A message keeps Weak in every state, and Good in the exchange: the
\* acknowledgement enables traffic only if the port-channel is up.
LEMMA ReceiveGood ==
  ASSUME NEW s \in NodeState, NEW m \in Msg
  PROVE  /\ Weak(s) => Weak(Receive(s, m))
         /\ Good(s) /\ Exchange(s) => Good(Receive(s, m))
  <1>1. CASE m = "SYNC_REQ"
    <2>1. Receive(s, m) = SendAllInfo(s)
      BY <1>1 DEF Receive
    <2> QED
      BY <2>1, SendAllInfoWeak DEF Good, Blocked
  <1>2. CASE m = "IF_UP_ACK"
    <2>1. Receive(s, m) = RecvIfUpAck(s)
      BY <1>2 DEF Receive
    <2>2. \/ RecvIfUpAck(s) = s
          \/ s.po_active /\ RecvIfUpAck(s) =
                               [s EXCEPT !.is_traffic_disable = FALSE]
      BY DEF RecvIfUpAck, EnableTraffic
    <2>3. CASE RecvIfUpAck(s) = s
      BY <2>1, <2>3
    <2>4. CASE s.po_active /\ RecvIfUpAck(s) =
                                 [s EXCEPT !.is_traffic_disable = FALSE]
      <3> DEFINE r == [s EXCEPT !.is_traffic_disable = FALSE]
      <3>1. /\ r.po_active = s.po_active /\ r.state = s.state
            /\ r.purge = s.purge /\ r.bound = s.bound
        BY DEF NodeState
      <3> HIDE DEF r
      <3>2. Receive(s, m) = r
        BY <2>1, <2>4 DEF r
      <3> QED
        BY <2>4, <3>1, <3>2 DEF Weak, Good, Blocked
    <2> QED  BY <2>2, <2>3, <2>4
  <1>3. CASE m \notin {"SYNC_REQ", "IF_UP_ACK"}
    <2>1. SameCore(s, [s EXCEPT !.wait_for_sync_data = FALSE])
      BY DEF SameCore, NodeState
    <2>2. SameCore(s, s)
      BY DEF SameCore
    <2>3. /\ SameCore(s, UpdateAggConf(s, TRUE))
          /\ SameCore(s, UpdateAggConf(s, FALSE))
          /\ SameCore(s, SendIfUpAck(UpdateAggportState(s, TRUE)))
          /\ SameCore(s, UpdateAggportState(s, FALSE))
      BY PifUpdateCore
    <2>4. SameCore(s, Receive(s, m))
      BY <1>3, <2>1, <2>2, <2>3 DEF Receive, Msg
    <2> QED
      BY <2>4, SameCoreGood
  <1> QED
    BY <1>1, <1>2, <1>3

\* mlacp_exchange_handler keeps Good: a port-channel that is down is blocked
\* before port_config_sync is cleared, and the purge concerns no member.
LEMMA ExchangeGood ==
  ASSUME NEW s \in NodeState, NEW m \in Msg \cup {None}, Good(s), Exchange(s)
  PROVE  Good(ExchangeHandler(s, m))
  <1>1. /\ <<"PURGE">> \in Seq(Msg)
        /\ <<"CONFIG">> \in Seq(Msg)
        /\ <<"SYNC_REQ">> \in Seq(Msg)
    BY SMT DEF Msg
  <1>2. ASSUME NEW r \in NodeState, NEW ms \in Seq(Msg), Good(r)
        PROVE  Send(r, ms) \in NodeState /\ Good(Send(r, ms))
    <2> QED  BY <1>2, SendType, FrameCore, SameCoreGood
  <1>3. ASSUME NEW r \in NodeState, Good(r)
        PROVE  SendSyncRequest(r) \in NodeState /\ Good(SendSyncRequest(r))
    <2> DEFINE t == [r EXCEPT !.need_to_sync = FALSE]
    <2>1. t \in NodeState /\ SameCore(r, t)
      BY DEF NodeState, SameCore
    <2> HIDE DEF t
    <2>2. Good(t)
      BY <1>3, <2>1, SameCoreGood
    <2>3. Send(t, <<"SYNC_REQ">>) \in NodeState /\ Good(Send(t, <<"SYNC_REQ">>))
      BY <1>1, <1>2, <2>1, <2>2
    <2> QED
      BY <1>3, <2>3 DEF SendSyncRequest, t
  <1>4. ASSUME NEW r \in NodeState, Good(r)
        PROVE  SendPurge(r) \in NodeState /\ Good(SendPurge(r))
    <2>1. CASE ~r.purge
      BY <1>4, <2>1 DEF SendPurge
    <2>2. CASE r.purge
      <3> DEFINE t == [r EXCEPT !.purge = FALSE]
                 u == Send(t, <<"PURGE">>)
      <3>1. /\ t \in NodeState
            /\ t.bound = r.bound /\ t.state = r.state
            /\ t.po_active = r.po_active /\ ~t.purge
        BY DEF NodeState
      <3>2. ~r.bound
        BY <1>4, <2>2 DEF Good, Weak
      <3> HIDE DEF t
      <3>3. Good(t)
        BY <1>4, <3>1, <3>2 DEF Good, Weak, Blocked
      <3>4. u \in NodeState /\ Good(u)
        BY <1>1, <1>2, <3>1, <3>3
      <3>5. u.bound = t.bound
        BY <3>1 DEF Send, NodeState
      <3> HIDE DEF u
      <3>6. EnableTraffic(u) = u
        BY <3>1, <3>2, <3>5 DEF EnableTraffic
      <3>7. SendPurge(r) = u
        BY <2>2, <3>6 DEF SendPurge, u, t
      <3> QED  BY <3>4, <3>7
    <2> QED  BY <2>1, <2>2
  <1>5. ASSUME NEW r \in NodeState, Good(r)
        PROVE  SendConfig(r) \in NodeState /\ Good(SendConfig(r))
    <2>1. CASE ~(r.bound /\ r.port_config_sync)
      BY <1>5, <2>1 DEF SendConfig
    <2>2. CASE r.bound /\ r.port_config_sync
      <3> DEFINE d == DisableTraffic(r)
                 t == [d EXCEPT !.port_config_sync = FALSE]
      <3>1. d \in NodeState
        BY TrafficType
      <3>2. /\ d.current_state = r.current_state
            /\ d.bound = r.bound /\ d.state = r.state
            /\ d.po_active = r.po_active /\ d.purge = r.purge
            /\ (Exchange(r) /\ ~r.po_active) => d.is_traffic_disable
        BY <2>2 DEF DisableTraffic, NodeState
      <3> HIDE DEF d
      <3>3. /\ t \in NodeState
            /\ t.current_state = d.current_state
            /\ t.bound = d.bound /\ t.state = d.state
            /\ t.po_active = d.po_active /\ t.purge = d.purge
            /\ t.is_traffic_disable = d.is_traffic_disable
        BY <3>1 DEF NodeState
      <3> HIDE DEF t
      <3>4. Good(t)
        BY <1>5, <3>2, <3>3 DEF Good, Weak, Blocked, Exchange
      <3>5. Send(t, <<"CONFIG">>) \in NodeState /\ Good(Send(t, <<"CONFIG">>))
        BY <1>1, <1>2, <3>3, <3>4
      <3> QED
        BY <2>2, <3>5 DEF SendConfig, t, d
    <2> QED  BY <2>1, <2>2
  <1>6. ASSUME NEW r \in NodeState, Good(r)
        PROVE  Good(SendState(r))
    <2> DEFINE t == [r EXCEPT !.changed = FALSE]
    <2>1. t \in NodeState /\ SameCore(r, t)
      BY DEF NodeState, SameCore
    <2>2. <<StateMsg(r)>> \in Seq(Msg)
      <3>1. StateMsg(r) \in Msg  BY StateMsgType
      <3> QED  BY <3>1, SMT
    <2> HIDE DEF t
    <2>3. Good(t)
      BY <1>6, <2>1, SameCoreGood
    <2>4. Good(Send(t, <<StateMsg(r)>>))
      BY <1>2, <2>1, <2>2, <2>3
    <2> QED
      BY <1>6, <2>4 DEF SendState, t
  <1> DEFINE t == IF m = None THEN s ELSE Receive(s, m)
  <1>7. t \in NodeState /\ Good(t)
    BY ReceiveType, ReceiveGood
  <1> HIDE DEF t
  <1>8. Good(SendState(SendConfig(SendPurge(SendSyncRequest(t)))))
    BY <1>3, <1>4, <1>5, <1>6, <1>7
  <1> QED
    BY <1>8 DEF ExchangeHandler, t

\* mlacp_portchannel_state_handler of a member with the state it has blocks it
\* if it is down.
LEMMA PortchannelStateGood ==
  ASSUME NEW s \in NodeState, s.bound, ~s.purge
  PROVE  LET r == PortchannelStateHandler(s, s.state)
         IN  Good(r) /\ r.current_state = s.current_state
  <1> DEFINE i == UpdateIsolateFromLif(s, s.state)
             p == UpdatePoIfInfo(i, s.state)
             r == PortchannelStateHandler(s, s.state)
  <1>1. s.state \in BOOLEAN
    BY DEF NodeState
  <1>2. i \in NodeState /\ SameCore(s, i)
    <2>1. << >> \in Seq(Msg)  BY SMT
    <2> QED  BY <1>1, <2>1, UpdateIsolateType, FrameCore
  <1> HIDE DEF i
  <1>3. /\ p \in NodeState
        /\ p.current_state = i.current_state /\ p.bound = i.bound
        /\ p.state = i.state /\ p.purge = i.purge
        /\ p.po_active = s.state
    <2>1. CASE i.po_active = s.state
      BY <1>2, <2>1 DEF UpdatePoIfInfo
    <2>2. CASE i.po_active # s.state
      BY <1>2, <2>2 DEF UpdatePoIfInfo, NodeState
    <2> QED  BY <2>1, <2>2
  <1> HIDE DEF p
  <1>4. CASE s.state
    <2>1. r = p
      BY <1>4 DEF PortchannelStateHandler, p, i
    <2> QED
      BY <1>2, <1>3, <1>4, <2>1 DEF Good, Weak, Blocked, SameCore
  <1>5. CASE ~s.state
    <2>1. r = DisableTraffic(p)
      BY <1>5 DEF PortchannelStateHandler, p, i
    <2>2. /\ r.current_state = p.current_state /\ r.bound = p.bound
          /\ r.state = p.state /\ r.purge = p.purge
          /\ r.po_active = p.po_active
          /\ (p.bound /\ Exchange(p) /\ ~p.po_active) => r.is_traffic_disable
      BY <1>3, <2>1 DEF DisableTraffic, NodeState
    <2> HIDE DEF r
    <2>3. Good(r) /\ r.current_state = s.current_state
      BY <1>2, <1>3, <1>5, <2>2 DEF Good, Weak, Blocked, SameCore, Exchange
    <2> QED
      BY <2>3 DEF r
  <1> QED
    BY <1>4, <1>5

\* mlacp_peer_conn_handler establishes Good.
LEMMA PeerConnGood ==
  ASSUME NEW s \in NodeState, Weak(s), Exchange(s)
  PROVE  /\ PeerConnHandler(s) \in NodeState
         /\ Good(PeerConnHandler(s))
         /\ Exchange(PeerConnHandler(s))
  <1> DEFINE q == IF s.bound THEN PortchannelStateHandler(s, s.state) ELSE s
  <1>1. s.state \in BOOLEAN
    BY DEF NodeState
  <1>2. q \in NodeState /\ Good(q) /\ Exchange(q)
    <2>1. CASE s.bound
      <3>1. ~s.purge
        BY <2>1 DEF Weak
      <3> QED
        BY <1>1, <2>1, <3>1, PortchannelStateType, PortchannelStateGood
           DEF Exchange
    <2>2. CASE ~s.bound
      BY <2>2 DEF Good, Blocked
    <2> QED  BY <2>1, <2>2
  <1> HIDE DEF q
  <1>3. SameCore(q, UpdateIsolateFromAllLif(q))
    <2>1. << >> \in Seq(Msg) /\ TRUE \in BOOLEAN  BY SMT
    <2> QED  BY <1>2, <2>1, FrameCore
  <1>4. UpdateIsolateFromAllLif(q) \in NodeState
    BY <1>2 DEF UpdateIsolateFromAllLif, NodeState
  <1>5. Good(UpdateIsolateFromAllLif(q))
    BY <1>2, <1>3, SameCoreGood
  <1>6. Exchange(UpdateIsolateFromAllLif(q))
    BY <1>2, <1>3 DEF Exchange, SameCore
  <1> QED
    BY <1>4, <1>5, <1>6 DEF PeerConnHandler, q

\* The stage handlers keep Weak, and without a message do not reach the
\* exchange.
LEMMA StageWeak ==
  ASSUME NEW n \in Node, NEW s \in NodeState, NEW m \in Msg \cup {None},
         Weak(s)
  PROVE  /\ Weak(StageHandler(n, s, m))
         /\ m = None => StageHandler(n, s, m).current_state = s.current_state
  <1>1. /\ Weak(StageSyncSend(s, m))
        /\ m = None => StageSyncSend(s, m).current_state = s.current_state
    BY SendAllInfoWeak DEF StageSyncSend, None
  <1>2. /\ Weak(StageSyncRequest(s, m))
        /\ m = None => StageSyncRequest(s, m).current_state = s.current_state
    <2>1. CASE ~s.wait_for_sync_data
      <3> DEFINE t == [s EXCEPT !.wait_for_sync_data = TRUE]
      <3>1. t \in NodeState /\ SameCore(s, t)
        BY DEF NodeState, SameCore
      <3> HIDE DEF t
      <3>2. SameCore(t, Send(t, <<"SYNC_REQ">>))
        <4>1. <<"SYNC_REQ">> \in Seq(Msg) /\ TRUE \in BOOLEAN  BY SMT DEF Msg
        <4> QED  BY <3>1, <4>1, FrameCore
      <3>3. StageSyncRequest(s, m) = Send(t, <<"SYNC_REQ">>)
        BY <2>1 DEF StageSyncRequest, t
      <3>4. SameCore(s, StageSyncRequest(s, m))
        BY <3>1, <3>2, <3>3, SameCoreTrans
      <3> QED
        BY <3>4, SameCoreGood DEF SameCore
    <2>2. CASE s.wait_for_sync_data
      <3> DEFINE t == IF m = None THEN s ELSE Receive(s, m)
                 st == NextStage(t.current_state)
                 r == [t EXCEPT !.current_state = st]
      <3>1. t \in NodeState /\ Weak(t)
        BY ReceiveType, ReceiveGood
      <3>2. Weak(r)
        <4> HIDE DEF t, st
        <4> QED  BY <3>1 DEF Weak, NodeState
      <3>3. StageSyncRequest(s, m) = IF t.wait_for_sync_data THEN t ELSE r
        BY <2>2 DEF StageSyncRequest
      <3>4. m = None => StageSyncRequest(s, m) = s
        BY <2>2, <3>3
      <3> HIDE DEF t, r
      <3> QED
        BY <3>1, <3>2, <3>3, <3>4
    <2> QED  BY <2>1, <2>2
  <1> QED
    BY <1>1, <1>2 DEF StageHandler

\* A turn of the loop keeps Weak; without a message, or in the exchange, it
\* leaves Good.
LEMMA PassWeak ==
  ASSUME NEW n \in Node, NEW r \in NodeState, NEW k \in Msg \cup {None},
         NEW prev \in MlacpState, Weak(r), prev = "EXCHANGE" => Good(r)
  PROVE  /\ Pass(n, r, k, prev) \in NodeState
         /\ Weak(Pass(n, r, k, prev))
         /\ Exchange(r) \/ k = None => Good(Pass(n, r, k, prev))
  <1> DEFINE i == [r EXCEPT !.wait_for_sync_data = FALSE,
                            !.current_state = "STAGE1"]
             t == IF Exchange(r) /\ prev # "EXCHANGE" THEN PeerConnHandler(r)
                  ELSE r
             q == Pass(n, r, k, prev)
  <1>1. CASE r.current_state = "INIT"
    <2>1. i \in NodeState /\ Weak(i) /\ i.current_state = "STAGE1"
      BY DEF NodeState, MlacpState, Weak
    <2>2. q = StageHandler(n, i, k)
      BY <1>1 DEF Pass
    <2> HIDE DEF i, q
    <2>3. q \in NodeState /\ Weak(q) /\ (k = None => q.current_state = "STAGE1")
      BY <2>1, <2>2, StageType, StageWeak
    <2>4. k = None => Good(q)
      BY <2>3 DEF Good, Blocked, Exchange
    <2> QED
      BY <1>1, <2>3, <2>4 DEF Exchange, q
  <1>2. CASE r.current_state \in {"STAGE1", "STAGE2"}
    <2>1. q = StageHandler(n, r, k)
      BY <1>2 DEF Pass
    <2> HIDE DEF q
    <2>2. /\ q \in NodeState /\ Weak(q)
          /\ k = None => q.current_state = r.current_state
      BY <2>1, StageType, StageWeak
    <2>3. k = None => Good(q)
      BY <1>2, <2>2 DEF Good, Blocked, Exchange
    <2> QED
      BY <1>2, <2>2, <2>3 DEF Exchange, q
  <1>3. CASE r.current_state = "EXCHANGE"
    <2>1. q = ExchangeHandler(t, k)
      BY <1>3 DEF Pass
    <2>2. t \in NodeState /\ Good(t) /\ Exchange(t)
      BY <1>3, PeerConnGood DEF Exchange
    <2> HIDE DEF t, q
    <2>3. q \in NodeState /\ Good(q)
      BY <2>1, <2>2, ExchangeType, ExchangeGood
    <2> QED
      BY <2>3 DEF Good, q
  <1>4. CASE r.current_state = "ERROR"
    <2>1. q = r
      BY <1>4 DEF Pass
    <2> QED
      BY <1>4, <2>1 DEF Good, Blocked, Exchange
  <1>5. r.current_state \in MlacpState
    BY DEF NodeState
  <1> QED
    BY <1>1, <1>2, <1>3, <1>4, <1>5 DEF MlacpState

\* A pass over the state machine keeps Good.
LEMMA FsmTransitGood ==
  ASSUME NEW n \in Node, NEW s \in NodeState, NEW m \in Msg \cup {None},
         Good(s)
  PROVE  Good(FsmTransit(n, s, m))
  <1> DEFINE st == s.current_state
             t == Pass(n, s, m, st)
             u == Pass(n, t, None, st)
  <1>1. st \in MlacpState /\ Weak(s)
    BY DEF NodeState, Good
  <1>2. /\ t \in NodeState /\ Weak(t)
        /\ Exchange(s) \/ m = None => Good(t)
    BY <1>1, PassWeak
  <1>3. st = "EXCHANGE" => Good(t)
    BY <1>2 DEF Exchange
  <1>4. Good(u)
    <2> HIDE DEF t, st
    <2>1. None \in Msg \cup {None}  OBVIOUS
    <2> QED  BY <1>1, <1>2, <1>3, <2>1, PassWeak
  <1> QED
    BY <1>2, <1>4 DEF FsmTransit

\* The state a node commits is the one a handler left, up to its messages.
LEMMA CommitGood ==
  ASSUME TypeOK, NEW n \in Node, NEW s \in NodeState, NEW ch,
         Commit(n, s, ch), Good(s), \A p \in Node : Good(node[p])
  PROVE  \A p \in Node : Good(node'[p])
  <1> DEFINE t == [s EXCEPT !.out = << >>]
  <1>1. SameCore(s, t)
    BY DEF SameCore, NodeState
  <1> HIDE DEF t
  <1>2. Good(t)
    BY <1>1, SameCoreGood
  <1>3. node' = [node EXCEPT ![n] = t]
    BY DEF Commit, t
  <1> QED
    BY <1>2, <1>3 DEF TypeOK

\* Every step keeps Good of both nodes.
LEMMA GoodStep ==
  ASSUME TypeOK, \A p \in Node : Good(node[p]), Next
  PROVE  \A p \in Node : Good(node'[p])
  <1> PICK n \in Node :
        \/ Up(n) \/ Transit(n) \/ Leave(n) \/ LeaveAfterPeer(n)
        \/ LinkChange(n) \/ VlanChange(n) \/ Bind(n) \/ Unbind(n)
    BY DEF Next
  <1>1. node[n] \in NodeState /\ Good(node[n]) /\ chan[n] \in Seq(Msg)
    BY DEF TypeOK
  <1>2. SUFFICES \E s \in NodeState : \E ch : Commit(n, s, ch) /\ Good(s)
    BY CommitGood
  <1>3. FsmTransit(n, node[n], None) \in NodeState
        /\ Good(FsmTransit(n, node[n], None))
    <2> QED  BY <1>1, FsmTransitType, FsmTransitGood
  <1>4. CASE Up(n)
    BY <1>3, <1>4 DEF Up
  <1>5. CASE Transit(n)
    <2>1. CASE chan[n] = << >>
      BY <1>3, <1>5, <2>1 DEF Transit
    <2>2. CASE chan[n] # << >>
      <3> DEFINE r == FsmTransit(n, node[n], Head(chan[n]))
      <3>1. Head(chan[n]) \in Msg
        BY <1>1, <2>2, SMT
      <3>2. r \in NodeState /\ Good(r)
        BY <1>1, <3>1, FsmTransitType, FsmTransitGood
      <3>3. Commit(n, r, [chan EXCEPT ![n] = Tail(chan[n])])
        BY <1>5, <2>2 DEF Transit
      <3> HIDE DEF r
      <3> QED  BY <3>2, <3>3
    <2> QED  BY <2>1, <2>2
  <1>6. CASE Leave(n) \/ LeaveAfterPeer(n)
    <2> DEFINE d == PeerDisconn(node[n])
               r == MlacpReset(d)
    <2>1. r \in NodeState
      BY <1>1, DisconnectType
    <2>2. /\ d \in NodeState
          /\ d.po_active = node[n].po_active /\ d.state = node[n].state
      <3>1. ASSUME node[n].bound
            PROVE  /\ d.po_active = node[n].po_active
                   /\ d.state = node[n].state
        <4> DEFINE i == SetPortIsolate(node[n], FALSE)
        <4>2. i \in NodeState /\ SameCore(node[n], i)
          BY <1>1, SetPortIsolateType, FrameCore
        <4> HIDE DEF i
        <4>3. /\ EnableTraffic(i).po_active = i.po_active
              /\ EnableTraffic(i).state = i.state
          BY <4>2 DEF EnableTraffic, NodeState
        <4>4. d = EnableTraffic(i)
          BY <3>1 DEF PeerDisconn, i
        <4> QED
          BY <4>2, <4>3, <4>4 DEF SameCore
      <3>2. d \in NodeState
        BY <1>1, SetPortIsolateType, TrafficType DEF PeerDisconn
      <3> QED
        BY <3>1, <3>2 DEF PeerDisconn
    <2> HIDE DEF d
    <2>3. /\ r.po_active = d.po_active /\ r.state = d.state /\ ~r.purge
          /\ r.current_state = "INIT"
      BY <2>2 DEF MlacpReset, NodeState
    <2>4. Commit(n, r, [chan EXCEPT ![n] = << >>])
      BY <1>6 DEF Leave, LeaveAfterPeer, SessionDisconnect, d
    <2> HIDE DEF r
    <2>5. Good(r)
      BY <2>2, <2>3 DEF Good, Weak, Blocked, Exchange
    <2> QED
      BY <2>1, <2>4, <2>5
  <1>7. CASE LinkChange(n)
    <2> DEFINE u == ~node[n].state
               s == [node[n] EXCEPT !.state = u]
               x == [s EXCEPT !.po_active = u]
               r == IF s.bound THEN PortchannelStateHandler(s, u) ELSE x
    <2>1. /\ u \in BOOLEAN /\ s \in NodeState /\ s.state = u
          /\ s.bound = node[n].bound /\ s.purge = node[n].purge
      BY <1>1 DEF NodeState
    <2>2. Commit(n, r, chan)
      BY <1>7 DEF LinkChange
    <2> HIDE DEF s, u
    <2>3. CASE s.bound
      <3>1. ~s.purge
        BY <2>1, <2>3 DEF Good, Weak
      <3>2. r \in NodeState /\ Good(r)
        BY <2>1, <2>3, <3>1, PortchannelStateType, PortchannelStateGood
      <3> QED  BY <2>2, <3>2
    <2>4. CASE ~s.bound
      <3>1. x \in NodeState /\ x.po_active = u /\ x.state = u /\ ~x.bound
        BY <2>1, <2>4 DEF NodeState
      <3>2. Good(x)
        <4> HIDE DEF x
        <4> QED  BY <3>1 DEF Good, Weak, Blocked
      <3> QED  BY <2>2, <2>4, <3>1, <3>2
    <2> QED  BY <2>3, <2>4
  <1>8. CASE VlanChange(n)
    <2> DEFINE r == [node[n] EXCEPT !.port_config_sync = TRUE]
    <2>1. /\ r \in NodeState /\ r.port_config_sync
          /\ r.po_active = node[n].po_active /\ r.state = node[n].state
          /\ r.purge = node[n].purge /\ r.bound = node[n].bound
      BY <1>1 DEF NodeState
    <2>2. Commit(n, r, chan)
      BY <1>8 DEF VlanChange
    <2> HIDE DEF r
    <2>3. Good(r)
      BY <2>1 DEF Good, Weak, Blocked
    <2> QED  BY <2>1, <2>2, <2>3
  <1>9. CASE Bind(n)
    <2> DEFINE s == [node[n] EXCEPT !.bound = TRUE, !.purge = FALSE,
                                    !.port_config_sync = TRUE]
               r == UpdateIsolateFromLif(s, s.po_active)
    <2>1. /\ s \in NodeState /\ s.port_config_sync /\ ~s.purge
          /\ s.po_active = node[n].po_active /\ s.state = node[n].state
          /\ s.po_active \in BOOLEAN
      BY <1>1 DEF NodeState
    <2>2. Commit(n, r, chan)
      BY <1>9 DEF Bind
    <2> HIDE DEF s
    <2>3. Good(s)
      BY <2>1 DEF Good, Weak, Blocked
    <2>4. r \in NodeState /\ SameCore(s, r)
      <3>1. << >> \in Seq(Msg)  BY SMT
      <3> QED  BY <2>1, <3>1, UpdateIsolateType, FrameCore
    <2>5. Good(r)
      BY <2>3, <2>4, SameCoreGood
    <2> QED  BY <2>2, <2>4, <2>5
  <1>10. CASE Unbind(n)
    <2>1. PICK k \in BOOLEAN :
            Commit(n, [IntfDetach(node[n], k) EXCEPT
                         !.bound = FALSE, !.purge = Exchange(node[n])], chan)
      BY <1>10 DEF Unbind
    <2> DEFINE i == IF Exchange(node[n]) THEN SetPortIsolate(node[n], FALSE)
                    ELSE node[n]
               d == IntfDetach(node[n], k)
               x == Exchange(node[n])
               r == [d EXCEPT !.bound = FALSE, !.purge = x]
    <2>2. i \in NodeState /\ SameCore(node[n], i)
      <3>2. SameCore(node[n], node[n])  BY DEF SameCore
      <3> QED  BY <1>1, <3>2, SetPortIsolateType, FrameCore
    <2>3. d = IF k THEN i ELSE EnableTraffic(i)
      BY DEF IntfDetach
    <2> HIDE DEF i, d
    <2>4. d \in NodeState /\ d.po_active = i.po_active /\ d.state = i.state
      <3>1. EnableTraffic(i) \in NodeState
        BY <2>2, TrafficType
      <3>2. /\ EnableTraffic(i).po_active = i.po_active
            /\ EnableTraffic(i).state = i.state
        BY <2>2 DEF EnableTraffic, NodeState
      <3> QED  BY <2>2, <2>3, <3>1, <3>2
    <2>5. x \in BOOLEAN
      BY DEF Exchange
    <2>6. /\ r \in NodeState /\ ~r.bound
          /\ r.po_active = d.po_active /\ r.state = d.state
      <3> HIDE DEF x
      <3> QED  BY <2>4, <2>5 DEF NodeState
    <2>7. Commit(n, r, chan)
      BY <2>1 DEF d
    <2> HIDE DEF r
    <2>8. Good(r)
      BY <2>2, <2>4, <2>6 DEF Good, Weak, Blocked, SameCore
    <2> QED  BY <2>6, <2>7, <2>8
  <1> QED
    BY <1>4, <1>5, <1>6, <1>7, <1>8, <1>9, <1>10

\* The inductive invariant, from the type and Good.
LEMMA GoodInvariant == Spec => [](TypeOK /\ \A p \in Node : Good(node[p]))
  <1>1. Init => \A p \in Node : Good(node[p])
    <2> SUFFICES ASSUME Init, NEW p \in Node PROVE Good(node[p])
      OBVIOUS
    <2>1. /\ node[p].po_active = node[p].state /\ ~node[p].purge
          /\ node[p].current_state = "INIT"
      BY SMT DEF Init
    <2> QED
      BY <2>1 DEF Good, Weak, Blocked, Exchange
  <1>2. TypeOK /\ (\A p \in Node : Good(node[p])) /\ [Next]_vars
          => (\A p \in Node : Good(node[p]))'
    <2>1. ASSUME \A p \in Node : Good(node[p]), UNCHANGED vars
          PROVE  (\A p \in Node : Good(node[p]))'
      BY <2>1 DEF vars, Good, Weak, Blocked, Exchange
    <2>2. ASSUME TypeOK, \A p \in Node : Good(node[p]), Next
          PROVE  (\A p \in Node : Good(node[p]))'
      BY <2>2, GoodStep
    <2> QED
      BY <2>1, <2>2
  <1> QED
    BY <1>1, <1>2, TypeCorrect, PTL DEF Spec

\* In the exchange state a member port-channel that is down is blocked, or will
\* be when its configuration is sent, whatever the order of link changes,
\* removals, acknowledgements and session losses.
THEOREM DownPortBlocked == Spec => []DownPortIsBlocked
  <1>1. (\A p \in Node : Good(node[p])) => DownPortIsBlocked
    BY DEF Good, Blocked, DownPortIsBlocked
  <1> QED
    BY <1>1, GoodInvariant, PTL

\* po_active is the state that is sent to the peer, also while the port-channel
\* is not a member.
THEOREM PoActiveTracks == Spec => []PoActiveTracksState
  <1>1. (\A p \in Node : Good(node[p])) => PoActiveTracksState
    BY DEF Good, Weak, PoActiveTracksState
  <1> QED
    BY <1>1, GoodInvariant, PTL

-----------------------------------------------------------------------------
(* The synchronisation and the exchange without removals.                  *)
(*                                                                         *)
(* From here on no port-channel leaves the domain (MaxUnbinds = 0; with a  *)
(* removal the error state can be reached, and what follows is false).     *)
(* The inductive invariant SyncInv says                                    *)
(*   - of each node (Local): it has nothing to purge and nothing to ask    *)
(*     for, isolates and blocks only in the exchange and only a member,    *)
(*     and isolates a member that is up unless it is known to be down on   *)
(*     the peer;                                                           *)
(*   - of each queue (Queue): which messages it can hold, in which order,  *)
(*     given the stage of the node that reads it;                          *)
(*   - of the two nodes (Joint): how far one is, given the other and what  *)
(*     is under way;                                                       *)
(*   - of what each node knows of the other (View): after the messages     *)
(*     under way it has the state of the port-channel there, or the other  *)
(*     one has still to send it.                                           *)

\* What comes between MLACP_SYNC_DATA start and end, and what comes after.
Info == {"CONFIG", "STATE_UP", "STATE_DOWN"}
Early == Info \cup {"SYNC_START"}
Update == Info \cup {"IF_UP_ACK"}

Holds(q, M) == \E i \in DOMAIN q : q[i] \in M

\* q holds the rest of an answer to a request, and then only updates.
Answer(q) ==
  \E k \in DOMAIN q :
    /\ q[k] = "SYNC_DONE"
    /\ \A i \in DOMAIN q : /\ i < k => q[i] \in Early
                           /\ i > k => q[i] \in Update

\* q holds the rest of an answer, and then one request.
AnswerAndRequest(q) ==
  /\ Len(q) > 1
  /\ q[Len(q)] = "SYNC_REQ"
  /\ q[Len(q) - 1] = "SYNC_DONE"
  /\ \A i \in 1..(Len(q) - 2) : q[i] \in Early

Isolates(s) ==
  (Exchange(s) /\ s.bound /\ s.state) => (s.isolated <=> s.pif # "down")

\* What holds of a node also between the turns of a pass.
Base(s) ==
  /\ ~s.purge /\ ~s.need_to_sync
  /\ s.isolated => Exchange(s) /\ s.bound
  /\ s.is_traffic_disable => Exchange(s) /\ s.bound
  /\ ~s.bound => s.changed
  /\ s.po_active = s.state

Local(s) == Base(s) /\ Isolates(s)

\* What the queue q of a node n in state s can hold while n is up.
Queue(n, s, q) ==
  \/ /\ s.current_state = "STAGE1" /\ n = Active
     /\ ~s.wait_for_sync_data /\ q \in {<< >>, <<"SYNC_REQ">>}
  \/ /\ s.current_state = "STAGE2" /\ n = Active
     /\ s.wait_for_sync_data /\ (q = << >> \/ Answer(q))
  \/ /\ s.current_state = "STAGE1" /\ n = Standby
     /\ s.wait_for_sync_data /\ (q = << >> \/ AnswerAndRequest(q))
  \/ /\ s.current_state = "STAGE2" /\ n = Standby
     /\ ~s.wait_for_sync_data /\ q = <<"SYNC_REQ">>
  \/ /\ s.current_state = "EXCHANGE"
     /\ q \in Seq(Update)

\* Both nodes are up in the same session.
Joint(a, s, qa, qs) ==
  /\ a.current_state = "STAGE1" =>
       /\ s.current_state = "STAGE1"
       /\ qa = <<"SYNC_REQ">> /\ qs = << >>
       /\ a.pif = "none" /\ s.pif = "none"
  /\ a.current_state = "STAGE2" /\ s.current_state # "EXCHANGE" =>
       qa = << >> /\ qs # << >> /\ a.pif = "none"
  /\ a.current_state = "STAGE2" /\ s.current_state = "EXCHANGE" =>
       qa # << >> /\ qs = << >>
  /\ a.current_state = "EXCHANGE" => s.current_state = "EXCHANGE"

\* What the session says of the nodes and the queues.
Phase ==
  /\ \A n \in Node : n \notin up => /\ node[n].current_state = "INIT"
                                    /\ node[n].pif = "none"
  /\ up \subseteq inst
  /\ up = {} => /\ inst = {} /\ chan[Standby] = << >>
                /\ chan[Active] \in {<< >>, <<"SYNC_REQ">>}
  /\ \A n \in Node : up # {} /\ n \notin inst => chan[n] = << >>
  /\ \A n \in up : Queue(n, node[n], chan[n])
  /\ up = Node => Joint(node[Active], node[Standby],
                        chan[Active], chan[Standby])
  /\ inst = Node /\ up = {Active} =>
       /\ node[Active].current_state = "STAGE1" /\ node[Active].pif = "none"
       /\ chan[Active] = << >> /\ chan[Standby] = << >>
  /\ inst = Node /\ up = {Standby} =>
       /\ node[Standby].current_state = "STAGE1" /\ node[Standby].pif = "none"
       /\ chan[Active] = <<"SYNC_REQ">> /\ chan[Standby] = << >>

\* A peer interface in state v has the state x after the messages of q.
Known(q, v, x) ==
  \/ v = x /\ ~Holds(q, {"STATE_UP", "STATE_DOWN"})
  \/ \E k \in DOMAIN q :
       /\ q[k] = IF x = "up" THEN "STATE_UP" ELSE "STATE_DOWN"
       /\ v # "none" \/ \E i \in DOMAIN q : i < k /\ q[i] = "CONFIG"
       /\ \A i \in DOMAIN q : i > k => q[i] \notin {"STATE_UP", "STATE_DOWN"}

StateName(s) == IF s.state THEN "up" ELSE "down"

\* The node that sends is in state s; q is under way to its peer, whose peer
\* interface is in state v.
View(s, q, v) ==
  /\ ~s.bound => v = "none" /\ ~Holds(q, Info)
  /\ s.bound /\ ~s.changed => Known(q, v, StateName(s))
  /\ s.bound /\ s.changed =>
       s.port_config_sync \/ v # "none" \/ Holds(q, {"CONFIG"})

\* n has answered the request of its peer.
HasSent(n, s) ==
  \/ Exchange(s)
  \/ n = Active /\ s.current_state = "STAGE2"

Views ==
  up = Node =>
    \A n \in Node : HasSent(n, node[n])
                      => View(node[n], chan[Peer(n)], node[Peer(n)].pif)

SyncInv ==
  /\ left.unbinds = 0
  /\ \A n \in Node : Local(node[n]) /\ node[n].out = << >>
  /\ Phase
  /\ Views

-----------------------------------------------------------------------------
(* What the handlers do to the fields of a node.                           *)

\* s and t differ at most in the isolation of the port-channel.
OnlyIsolation(s, t) ==
  /\ t.current_state = s.current_state
  /\ t.wait_for_sync_data = s.wait_for_sync_data
  /\ t.need_to_sync = s.need_to_sync
  /\ t.purge = s.purge
  /\ t.bound = s.bound
  /\ t.state = s.state
  /\ t.po_active = s.po_active
  /\ t.changed = s.changed
  /\ t.port_config_sync = s.port_config_sync
  /\ t.is_traffic_disable = s.is_traffic_disable
  /\ t.pif = s.pif
  /\ t.out = s.out

\* set_peerlink_mlag_port_isolate and update_peerlink_isolate_from_all_csm_lif.
LEMMA SetPortIsolateEffect ==
  ASSUME NEW s \in NodeState, NEW e \in BOOLEAN
  PROVE  /\ OnlyIsolation(s, SetPortIsolate(s, e))
         /\ SetPortIsolate(s, e).isolate_to_peer_link = e
         /\ Exchange(s) => (SetPortIsolate(s, e).isolated <=> s.bound /\ e)
         /\ ~Exchange(s) => SetPortIsolate(s, e).isolated = s.isolated
         /\ OnlyIsolation(s, UpdateIsolateFromAllLif(s))
         /\ UpdateIsolateFromAllLif(s).isolated
              <=> s.bound /\ s.isolate_to_peer_link
  <1>1. \A r \in NodeState :
          /\ OnlyIsolation(r, UpdateIsolateFromAllLif(r))
          /\ UpdateIsolateFromAllLif(r).isolate_to_peer_link
               = r.isolate_to_peer_link
          /\ UpdateIsolateFromAllLif(r).isolated
               <=> r.bound /\ r.isolate_to_peer_link
    BY DEF OnlyIsolation, UpdateIsolateFromAllLif, NodeState
  <1> DEFINE t == [s EXCEPT !.isolate_to_peer_link = e]
  <1>2. /\ t \in NodeState /\ OnlyIsolation(s, t)
        /\ t.isolate_to_peer_link = e /\ t.isolated = s.isolated
        /\ t.bound = s.bound
    BY DEF OnlyIsolation, NodeState
  <1>3. SetPortIsolate(s, e) = IF Exchange(s) THEN UpdateIsolateFromAllLif(t)
                               ELSE t
    BY DEF SetPortIsolate
  <1> HIDE DEF t
  <1>4. OnlyIsolation(s, UpdateIsolateFromAllLif(t))
    BY <1>1, <1>2 DEF OnlyIsolation
  <1> QED
    BY <1>1, <1>2, <1>3, <1>4

\* update_peerlink_isolate_from_pif and update_peerlink_isolate_from_lif.
LEMMA UpdateIsolateEffect ==
  ASSUME NEW s \in NodeState, NEW b \in BOOLEAN
  PROVE  /\ OnlyIsolation(s, UpdateIsolateFromPif(s, b))
         /\ Exchange(s) /\ s.bound /\ s.po_active =>
              (UpdateIsolateFromPif(s, b).isolated <=> b)
         /\ ~(Exchange(s) /\ s.bound /\ s.po_active) =>
              UpdateIsolateFromPif(s, b) = s
         /\ OnlyIsolation(s, UpdateIsolateFromLif(s, b))
         /\ Exchange(s) /\ b =>
              /\ UpdateIsolateFromLif(s, b).isolated
                   <=> s.bound /\ s.pif # "down"
              /\ UpdateIsolateFromLif(s, b).isolate_to_peer_link
                   <=> s.pif # "down"
         /\ ~(Exchange(s) /\ b) => UpdateIsolateFromLif(s, b) = s
  <1>1. OnlyIsolation(s, s)
    BY DEF OnlyIsolation
  <1>2. ASSUME Exchange(s), s.bound, s.po_active
        PROVE  /\ OnlyIsolation(s, UpdateIsolateFromPif(s, b))
               /\ UpdateIsolateFromPif(s, b).isolated <=> b
    <2>1. UpdateIsolateFromPif(s, b) = SetPortIsolate(s, b)
      BY <1>2 DEF UpdateIsolateFromPif
    <2> QED  BY <1>2, <2>1, SetPortIsolateEffect, SMT
  <1>3. ~(Exchange(s) /\ s.bound /\ s.po_active) =>
          UpdateIsolateFromPif(s, b) = s
    BY DEF UpdateIsolateFromPif
  <1>4. ASSUME Exchange(s), b
        PROVE  /\ OnlyIsolation(s, UpdateIsolateFromLif(s, b))
               /\ UpdateIsolateFromLif(s, b).isolated
                    <=> s.bound /\ s.pif # "down"
               /\ UpdateIsolateFromLif(s, b).isolate_to_peer_link
                    <=> s.pif # "down"
    <2> DEFINE e == s.pif # "down"
    <2>1. e \in BOOLEAN  OBVIOUS
    <2>2. UpdateIsolateFromLif(s, b) = SetPortIsolate(s, e)
      BY <1>4 DEF UpdateIsolateFromLif
    <2>3. /\ OnlyIsolation(s, SetPortIsolate(s, e))
          /\ SetPortIsolate(s, e).isolated <=> s.bound /\ e
          /\ SetPortIsolate(s, e).isolate_to_peer_link = e
      <3> HIDE DEF e
      <3> QED  BY <1>4, <2>1, SetPortIsolateEffect
    <2> QED  BY <2>2, <2>3
  <1>5. ~(Exchange(s) /\ b) => UpdateIsolateFromLif(s, b) = s
    BY DEF UpdateIsolateFromLif
  <1> QED
    BY <1>1, <1>2, <1>3, <1>4, <1>5

\* s and t agree on what the peer has to know of the port-channel.
SameReport(s, t) ==
  /\ t.bound = s.bound
  /\ t.state = s.state
  /\ t.changed = s.changed
  /\ t.port_config_sync = s.port_config_sync

\* The state of a peer interface after a message.
Takes(v, m) ==
  CASE m = "CONFIG" /\ v = "none" -> "up"
    [] m = "STATE_UP" /\ v # "none" -> "up"
    [] m = "STATE_DOWN" /\ v # "none" -> "down"
    [] OTHER -> v

\* A change of the peer interface, with the isolation that follows it, keeps
\* Local.
LEMMA PifLocal ==
  ASSUME NEW s \in NodeState, NEW x \in {"up", "down"}, Base(s)
  PROVE  LET r == UpdateIsolateFromPif([s EXCEPT !.pif = x], x = "up") IN
         /\ r.current_state = s.current_state
         /\ r.wait_for_sync_data = s.wait_for_sync_data
         /\ SameReport(s, r)
         /\ r.pif = x
         /\ r.out = s.out
         /\ Local(r)
  <1> DEFINE t == [s EXCEPT !.pif = x]
             e == x = "up"
             r == UpdateIsolateFromPif(t, e)
  <1>1. e \in BOOLEAN
    OBVIOUS
  <1>2. /\ t \in NodeState
        /\ t.current_state = s.current_state /\ t.bound = s.bound
        /\ t.wait_for_sync_data = s.wait_for_sync_data
        /\ t.state = s.state /\ t.po_active = s.po_active
        /\ t.changed = s.changed /\ t.port_config_sync = s.port_config_sync
        /\ t.out = s.out /\ t.pif = x /\ t.isolated = s.isolated
        /\ t.is_traffic_disable = s.is_traffic_disable
        /\ t.purge = s.purge /\ t.need_to_sync = s.need_to_sync
    BY DEF NodeState
  <1> HIDE DEF t
  <1>3. /\ OnlyIsolation(t, r)
        /\ Exchange(t) /\ t.bound /\ t.po_active => (r.isolated <=> e)
        /\ ~(Exchange(t) /\ t.bound /\ t.po_active) => r = t
    <2> HIDE DEF e
    <2> QED  BY <1>1, <1>2, UpdateIsolateEffect
  <1>4. e <=> x # "down"
    OBVIOUS
  <1> HIDE DEF r, e
  <1>5. /\ r.current_state = s.current_state
        /\ r.wait_for_sync_data = s.wait_for_sync_data
        /\ SameReport(s, r) /\ r.pif = x /\ r.out = s.out
        /\ r.po_active = s.po_active /\ r.purge = s.purge
        /\ r.need_to_sync = s.need_to_sync
        /\ r.is_traffic_disable = s.is_traffic_disable
    BY <1>2, <1>3 DEF OnlyIsolation, SameReport
  <1>6. r.isolated => Exchange(s) /\ s.bound
    BY <1>2, <1>3 DEF Base, Exchange
  <1>7. Base(r)
    BY <1>5, <1>6 DEF Base, SameReport, Exchange
  <1>8. Isolates(r)
    BY <1>3, <1>4, <1>5 DEF Base, Isolates, SameReport, Exchange
  <1> QED
    BY <1>5, <1>7, <1>8 DEF Local, r, t, e

\* mlacp_sync_receiver_handler, for the messages that are left without
\* removals and requests.
LEMMA ReceiveEffect ==
  ASSUME NEW s \in NodeState, NEW m \in Early \cup Update \cup {"SYNC_DONE"},
         Local(s)
  PROVE  LET r == Receive(s, m) IN
         /\ r \in NodeState
         /\ r.current_state = s.current_state
         /\ m # "SYNC_DONE" => r.wait_for_sync_data = s.wait_for_sync_data
         /\ m = "SYNC_DONE" => ~r.wait_for_sync_data
         /\ SameReport(s, r)
         /\ r.pif = Takes(s.pif, m)
         /\ ~Exchange(s) => r.out = s.out
         /\ r.out = s.out \/ r.out = s.out \o <<"IF_UP_ACK">>
         /\ Local(r)
  <1> DEFINE r == Receive(s, m)
  <1>1. m \in Msg
    BY DEF Early, Update, Info, Msg
  <1>2. r \in NodeState
    BY <1>1, ReceiveType
  <1>3. SameReport(s, s) /\ Base(s)
    BY DEF SameReport, Local
  <1>5. CASE m = "SYNC_START"
    <2>1. r = s
      BY <1>5 DEF Receive
    <2>2. Takes(s.pif, m) = s.pif
      BY <1>5 DEF Takes
    <2> QED  BY <1>3, <1>5, <2>1, <2>2
  <1>6. CASE m = "SYNC_DONE"
    <2>1. r = [s EXCEPT !.wait_for_sync_data = FALSE]
      BY <1>6 DEF Receive
    <2>2. Takes(s.pif, m) = s.pif
      BY <1>6 DEF Takes
    <2>3. /\ r.current_state = s.current_state /\ ~r.wait_for_sync_data
          /\ r.pif = s.pif /\ r.out = s.out /\ SameReport(s, r)
          /\ r.isolated = s.isolated /\ r.po_active = s.po_active
          /\ r.is_traffic_disable = s.is_traffic_disable
          /\ r.purge = s.purge /\ r.need_to_sync = s.need_to_sync
      BY <2>1 DEF NodeState, SameReport
    <2> HIDE DEF r
    <2>4. Local(r)
      BY <2>3 DEF Local, Base, Isolates, SameReport, Exchange
    <2> QED  BY <1>2, <1>6, <2>2, <2>3, <2>4 DEF r
  <1>7. CASE m = "IF_UP_ACK"
    <2>1. r = RecvIfUpAck(s)
      BY <1>7 DEF Receive
    <2>2. r = s \/ r = [s EXCEPT !.is_traffic_disable = FALSE]
      BY <2>1 DEF RecvIfUpAck, EnableTraffic
    <2>3. Takes(s.pif, m) = s.pif
      BY <1>7 DEF Takes
    <2>4. /\ r.current_state = s.current_state
          /\ r.wait_for_sync_data = s.wait_for_sync_data
          /\ r.pif = s.pif /\ r.out = s.out /\ SameReport(s, r)
          /\ r.isolated = s.isolated /\ r.po_active = s.po_active
          /\ r.is_traffic_disable => s.is_traffic_disable
          /\ r.purge = s.purge /\ r.need_to_sync = s.need_to_sync
      BY <2>2 DEF NodeState, SameReport
    <2> HIDE DEF r
    <2>5. Local(r)
      BY <2>4 DEF Local, Base, Isolates, SameReport, Exchange
    <2> QED  BY <1>2, <1>7, <2>3, <2>4, <2>5 DEF r
  <1>8. CASE m = "CONFIG"
    <2>1. r = UpdateAggConf(s, FALSE)
      BY <1>8 DEF Receive
    <2>2. CASE s.pif # "none"
      <3>1. r = s
        BY <2>1, <2>2 DEF UpdateAggConf
      <3>2. Takes(s.pif, m) = s.pif
        BY <1>8, <2>2 DEF Takes
      <3> QED  BY <1>3, <1>8, <3>1, <3>2
    <2>3. CASE s.pif = "none"
      <3>1. r = UpdateIsolateFromPif([s EXCEPT !.pif = "up"], TRUE)
        BY <2>1, <2>3 DEF UpdateAggConf
      <3>2. Takes(s.pif, m) = "up"
        BY <1>8, <2>3 DEF Takes
      <3>3. r = UpdateIsolateFromPif([s EXCEPT !.pif = "up"], "up" = "up")
        BY <3>1
      <3> HIDE DEF r
      <3>4. /\ r.current_state = s.current_state
            /\ r.wait_for_sync_data = s.wait_for_sync_data
            /\ SameReport(s, r) /\ r.pif = "up" /\ r.out = s.out
            /\ Local(r)
        BY <1>3, <3>3, PifLocal
      <3> QED  BY <1>2, <1>8, <3>2, <3>4 DEF r
    <2> QED  BY <2>2, <2>3
  <1>9. \A x \in {"up", "down"} :
          LET t == UpdateAggportState(s, x = "up")
              k == IF x = "up" THEN "STATE_UP" ELSE "STATE_DOWN"
          IN  /\ t \in NodeState
              /\ t.current_state = s.current_state
              /\ t.wait_for_sync_data = s.wait_for_sync_data
              /\ SameReport(s, t)
              /\ t.pif = Takes(s.pif, k)
              /\ t.out = s.out
              /\ Local(t)
    <2> SUFFICES ASSUME NEW x \in {"up", "down"}
                 PROVE  LET t == UpdateAggportState(s, x = "up")
                            k == IF x = "up" THEN "STATE_UP" ELSE "STATE_DOWN"
                        IN  /\ t \in NodeState
                            /\ t.current_state = s.current_state
                            /\ t.wait_for_sync_data = s.wait_for_sync_data
                            /\ SameReport(s, t)
                            /\ t.pif = Takes(s.pif, k)
                            /\ t.out = s.out
                            /\ Local(t)
      OBVIOUS
    <2> DEFINE e == x = "up"
               t == UpdateAggportState(s, e)
               k == IF x = "up" THEN "STATE_UP" ELSE "STATE_DOWN"
               i == UpdateIsolateFromPif([s EXCEPT !.pif = x], e)
    <2>1. e \in BOOLEAN
      OBVIOUS
    <2>2. t \in NodeState
      <3> HIDE DEF e
      <3> QED  BY <2>1, PifUpdateType
    <2>4. t = IF s.pif \in {"none", x} THEN s ELSE i
      BY DEF UpdateAggportState
    <2>5. Takes(s.pif, k) = IF s.pif = "none" THEN "none" ELSE x
      BY DEF Takes
    <2>6. /\ i.current_state = s.current_state
          /\ i.wait_for_sync_data = s.wait_for_sync_data
          /\ SameReport(s, i) /\ i.pif = x /\ i.out = s.out
          /\ Local(i)
      BY <1>3, PifLocal
    <2> HIDE DEF t, k, i
    <2>7. CASE s.pif \in {"none", x}
      BY <1>3, <2>4, <2>5, <2>7 DEF t, k
    <2>8. CASE s.pif \notin {"none", x}
      BY <2>2, <2>4, <2>5, <2>6, <2>8 DEF t, k
    <2> QED  BY <2>7, <2>8
  <1>10. CASE m = "STATE_DOWN"
    <2>1. r = UpdateAggportState(s, "down" = "up")
      BY <1>10 DEF Receive
    <2>2. /\ r.current_state = s.current_state
          /\ r.wait_for_sync_data = s.wait_for_sync_data
          /\ SameReport(s, r) /\ r.pif = Takes(s.pif, "STATE_DOWN")
          /\ r.out = s.out /\ Local(r)
      BY <1>9, <2>1
    <2> HIDE DEF r
    <2> QED  BY <1>2, <1>10, <2>2 DEF r
  <1>11. CASE m = "STATE_UP"
    <2> DEFINE t == UpdateAggportState(s, TRUE)
    <2>1. r = SendIfUpAck(t)
      BY <1>11 DEF Receive
    <2>3. /\ t \in NodeState
          /\ t.current_state = s.current_state
          /\ t.wait_for_sync_data = s.wait_for_sync_data
          /\ SameReport(s, t) /\ t.pif = Takes(s.pif, "STATE_UP")
          /\ t.out = s.out /\ Local(t)
      BY <1>9
    <2> DEFINE o == t.out \o <<"IF_UP_ACK">>
    <2> HIDE DEF t
    <2>4. r = IF Exchange(t) THEN [t EXCEPT !.out = o] ELSE t
      BY <2>1 DEF SendIfUpAck, Send
    <2>5. /\ r.current_state = t.current_state
          /\ r.wait_for_sync_data = t.wait_for_sync_data
          /\ r.pif = t.pif /\ SameReport(t, r)
          /\ r.isolated = t.isolated /\ r.po_active = t.po_active
          /\ r.is_traffic_disable = t.is_traffic_disable
          /\ r.purge = t.purge /\ r.need_to_sync = t.need_to_sync
          /\ r.out = IF Exchange(t) THEN o ELSE t.out
      <3> HIDE DEF o, r
      <3> QED  BY <2>3, <2>4 DEF NodeState, SameReport
    <2> HIDE DEF r
    <2>6. Local(r)
      BY <2>3, <2>5 DEF Local, Base, Isolates, SameReport, Exchange
    <2>7. SameReport(s, r)
      BY <2>3, <2>5 DEF SameReport
    <2> QED
      BY <1>2, <1>11, <2>3, <2>5, <2>6, <2>7 DEF r, Exchange
  <1> QED
    BY <1>5, <1>6, <1>7, <1>8, <1>10, <1>11 DEF Early, Update, Info

-----------------------------------------------------------------------------
(* Queues.                                                                 *)

\* A message behind a queue.
LEMMA Behind ==
  ASSUME NEW q \in Seq(Msg), NEW m \in Msg
  PROVE  /\ q \o <<m>> \in Seq(Msg)
         /\ Len(q \o <<m>>) = Len(q) + 1
         /\ DOMAIN (q \o <<m>>) = 1..(Len(q) + 1)
         /\ \A i \in 1..Len(q) : (q \o <<m>>)[i] = q[i]
         /\ (q \o <<m>>)[Len(q) + 1] = m
  <1>1. <<m>> \in Seq(Msg) /\ Len(<<m>>) = 1
    BY SMT
  <1> DEFINE t == <<m>>
  <1>3. t \in Seq(Msg) /\ Len(t) = 1 /\ t[1] = m
    BY <1>1
  <1> HIDE DEF t
  <1>4. /\ q \o t \in Seq(Msg)
        /\ Len(q \o t) = Len(q) + 1
        /\ \A i \in 1..(Len(q) + 1) :
             (q \o t)[i] = IF i <= Len(q) THEN q[i] ELSE t[i - Len(q)]
    BY <1>3, ConcatParts, SMT
  <1>5. Len(q) \in Nat
    BY SMT
  <1>6. DOMAIN (q \o t) = 1..(Len(q) + 1)
    BY <1>4, SMT
  <1>7. \A i \in 1..Len(q) : (q \o t)[i] = q[i]
    BY <1>4, <1>5, SMT
  <1>8. (q \o t)[Len(q) + 1] = t[1]
    <2>1. Len(q) + 1 \in 1..(Len(q) + 1) /\ ~(Len(q) + 1 <= Len(q))
          /\ (Len(q) + 1) - Len(q) = 1
      BY <1>5, SMT
    <2> QED  BY <1>4, <2>1
  <1> QED
    BY <1>4, <1>6, <1>7, <1>8 DEF t

\* The rest of a queue.
LEMMA Rest ==
  ASSUME NEW q \in Seq(Msg), q # << >>
  PROVE  /\ Tail(q) \in Seq(Msg)
         /\ Head(q) = q[1] /\ Head(q) \in Msg
         /\ Len(q) \in Nat /\ Len(q) > 0 /\ Len(Tail(q)) = Len(q) - 1
         /\ DOMAIN q = 1..Len(q)
         /\ DOMAIN Tail(q) = 1..(Len(q) - 1)
         /\ \A i \in 1..(Len(q) - 1) : Tail(q)[i] = q[i + 1]
  <1>1. Tail(q) \in Seq(Msg) /\ Head(q) = q[1] /\ Head(q) \in Msg
    BY SMT
  <1>2. Len(q) \in Nat /\ Len(q) > 0 /\ Len(Tail(q)) = Len(q) - 1
    BY SMT
  <1>3. DOMAIN q = 1..Len(q)
    BY SMT
  <1>4. DOMAIN Tail(q) = 1..(Len(q) - 1)
    BY <1>1, <1>2, SMT
  <1>5. \A i \in 1..(Len(q) - 1) : Tail(q)[i] = q[i + 1]
    BY SMT
  <1> QED
    BY <1>1, <1>2, <1>3, <1>4, <1>5

\* What a queue holds with one more message.
LEMMA HoldsBehind ==
  ASSUME NEW q \in Seq(Msg), NEW m \in Msg, NEW M
  PROVE  Holds(q \o <<m>>, M) <=> Holds(q, M) \/ m \in M
  <1> DEFINE t == q \o <<m>>
  <1>1. /\ DOMAIN t = 1..(Len(q) + 1) /\ DOMAIN q = 1..Len(q)
        /\ Len(q) \in Nat
        /\ \A i \in 1..Len(q) : t[i] = q[i]
        /\ t[Len(q) + 1] = m
    BY Behind, SMT
  <1> HIDE DEF t
  <1>2. Holds(q, M) => Holds(t, M)
    <2> SUFFICES ASSUME NEW i \in DOMAIN q, q[i] \in M PROVE Holds(t, M)
      BY DEF Holds
    <2>1. i \in DOMAIN t /\ t[i] = q[i]
      BY <1>1, SMT
    <2> QED  BY <2>1 DEF Holds
  <1>3. m \in M => Holds(t, M)
    <2>1. Len(q) + 1 \in DOMAIN t
      BY <1>1, SMT
    <2> QED  BY <1>1, <2>1 DEF Holds
  <1>4. Holds(t, M) => Holds(q, M) \/ m \in M
    <2> SUFFICES ASSUME NEW i \in DOMAIN t, t[i] \in M
                 PROVE  Holds(q, M) \/ m \in M
      BY DEF Holds
    <2>1. CASE i = Len(q) + 1
      BY <1>1, <2>1
    <2>2. CASE i # Len(q) + 1
      <3>1. i \in DOMAIN q /\ t[i] = q[i]
        BY <1>1, <2>2, SMT
      <3> QED  BY <3>1 DEF Holds
    <2> QED  BY <2>1, <2>2
  <1> QED
    BY <1>2, <1>3, <1>4 DEF t

\* The same for the first message.
LEMMA HoldsRest ==
  ASSUME NEW q \in Seq(Msg), q # << >>, NEW M
  PROVE  Holds(q, M) <=> Head(q) \in M \/ Holds(Tail(q), M)
  <1> DEFINE t == Tail(q)
             n == Len(q)
  <1>1. /\ Head(q) = q[1] /\ n \in Nat /\ n > 0
        /\ DOMAIN q = 1..n /\ DOMAIN t = 1..(n - 1)
        /\ \A i \in 1..(n - 1) : t[i] = q[i + 1]
    BY Rest
  <1> HIDE DEF t, n
  <1>2. Head(q) \in M => Holds(q, M)
    <2>1. 1 \in DOMAIN q  BY <1>1, SMT
    <2> QED  BY <1>1, <2>1 DEF Holds
  <1>3. Holds(t, M) => Holds(q, M)
    <2> SUFFICES ASSUME NEW i \in DOMAIN t, t[i] \in M PROVE Holds(q, M)
      BY DEF Holds
    <2>1. i + 1 \in DOMAIN q /\ q[i + 1] = t[i]
      BY <1>1, SMT
    <2> QED  BY <2>1 DEF Holds
  <1>4. Holds(q, M) => Head(q) \in M \/ Holds(t, M)
    <2> SUFFICES ASSUME NEW i \in DOMAIN q, q[i] \in M
                 PROVE  Head(q) \in M \/ Holds(t, M)
      BY DEF Holds
    <2>1. CASE i = 1
      BY <1>1, <2>1
    <2>2. CASE i # 1
      <3> DEFINE j == i - 1
      <3>1. j \in DOMAIN t /\ t[j] = q[j + 1] /\ j + 1 = i
        BY <1>1, <2>2, SMT
      <3> HIDE DEF j
      <3> QED  BY <3>1 DEF Holds
    <2> QED  BY <2>1, <2>2
  <1> QED
    BY <1>2, <1>3, <1>4 DEF t

\* A message that says nothing of the state leaves what is known.
LEMMA KnownBehind ==
  ASSUME NEW q \in Seq(Msg), NEW m \in Msg, NEW v, NEW x,
         m \notin {"STATE_UP", "STATE_DOWN"}, Known(q, v, x)
  PROVE  Known(q \o <<m>>, v, x)
  <1> DEFINE t == q \o <<m>>
             S == {"STATE_UP", "STATE_DOWN"}
             w == IF x = "up" THEN "STATE_UP" ELSE "STATE_DOWN"
  <1>1. /\ DOMAIN t = 1..(Len(q) + 1) /\ DOMAIN q = 1..Len(q)
        /\ Len(q) \in Nat
        /\ \A i \in 1..Len(q) : t[i] = q[i]
        /\ t[Len(q) + 1] = m
    BY Behind, SMT
  <1>2. Holds(t, S) => Holds(q, S)
    BY HoldsBehind
  <1> HIDE DEF t
  <1>3. CASE v = x /\ ~Holds(q, S)
    BY <1>2, <1>3 DEF Known, t
  <1>4. ASSUME NEW k \in DOMAIN q, q[k] = w,
               v # "none" \/ \E i \in DOMAIN q : i < k /\ q[i] = "CONFIG",
               \A i \in DOMAIN q : i > k => q[i] \notin S
        PROVE  Known(t, v, x)
    <2>1. k \in DOMAIN t /\ t[k] = w
      BY <1>1, <1>4, SMT
    <2>2. v # "none" \/ \E i \in DOMAIN t : i < k /\ t[i] = "CONFIG"
      <3> SUFFICES ASSUME NEW i \in DOMAIN q, i < k, q[i] = "CONFIG"
                   PROVE  \E j \in DOMAIN t : j < k /\ t[j] = "CONFIG"
        BY <1>4
      <3>1. i \in DOMAIN t /\ t[i] = q[i]
        BY <1>1, SMT
      <3> QED  BY <3>1
    <2>3. \A i \in DOMAIN t : i > k => t[i] \notin S
      <3> SUFFICES ASSUME NEW i \in DOMAIN t, i > k PROVE t[i] \notin S
        OBVIOUS
      <3>1. CASE i = Len(q) + 1
        BY <1>1, <3>1
      <3>2. CASE i # Len(q) + 1
        <4>1. i \in DOMAIN q /\ t[i] = q[i]
          BY <1>1, <3>2, SMT
        <4> QED  BY <1>4, <4>1
      <3> QED  BY <3>1, <3>2
    <2> QED
      BY <2>1, <2>2, <2>3 DEF Known
  <1> QED
    BY <1>3, <1>4 DEF Known, t

\* The state, behind a queue after which there is a peer interface.
LEMMA KnownState ==
  ASSUME NEW q \in Seq(Msg), NEW v, NEW s,
         v # "none" \/ Holds(q, {"CONFIG"})
  PROVE  Known(q \o <<StateMsg(s)>>, v, StateName(s))
  <1> DEFINE m == StateMsg(s)
             t == q \o <<m>>
             k == Len(q) + 1
  <1>1. m \in Msg /\ m = IF StateName(s) = "up" THEN "STATE_UP" ELSE "STATE_DOWN"
    BY DEF StateMsg, StateName, Msg
  <1> HIDE DEF m
  <1>2. /\ DOMAIN t = 1..(Len(q) + 1) /\ DOMAIN q = 1..Len(q)
        /\ Len(q) \in Nat
        /\ \A i \in 1..Len(q) : t[i] = q[i]
        /\ t[Len(q) + 1] = m
    BY <1>1, Behind, SMT
  <1> HIDE DEF t
  <1>3. k \in DOMAIN t /\ t[k] = m
    BY <1>2, SMT
  <1>4. v # "none" \/ \E i \in DOMAIN t : i < k /\ t[i] = "CONFIG"
    <2> SUFFICES ASSUME NEW i \in DOMAIN q, q[i] = "CONFIG"
                 PROVE  \E j \in DOMAIN t : j < k /\ t[j] = "CONFIG"
      BY DEF Holds
    <2>1. i \in DOMAIN t /\ i < k /\ t[i] = q[i]
      BY <1>2, SMT
    <2> QED  BY <2>1
  <1>5. \A i \in DOMAIN t : ~(i > k)
    BY <1>2, SMT
  <1> HIDE DEF k
  <1>6. Known(t, v, StateName(s))
    BY <1>1, <1>3, <1>4, <1>5 DEF Known
  <1> QED
    BY <1>6 DEF t, m

\* The head of the queue is taken.
LEMMA KnownRest ==
  ASSUME NEW q \in Seq(Msg), q # << >>, NEW v \in {"none", "up", "down"},
         NEW x \in {"up", "down"}, Known(q, v, x)
  PROVE  Known(Tail(q), Takes(v, Head(q)), x)
  <1> DEFINE t == Tail(q)
             n == Len(q)
             m == Head(q)
             u == Takes(v, m)
             S == {"STATE_UP", "STATE_DOWN"}
             w == IF x = "up" THEN "STATE_UP" ELSE "STATE_DOWN"
  <1>1. /\ m = q[1] /\ n \in Nat /\ n > 0
        /\ DOMAIN q = 1..n /\ DOMAIN t = 1..(n - 1)
        /\ \A i \in 1..(n - 1) : t[i] = q[i + 1]
    BY Rest
  <1>2. Holds(q, S) <=> m \in S \/ Holds(t, S)
    BY HoldsRest
  <1> HIDE DEF t, n, m
  <1>3. CASE v = x /\ ~Holds(q, S)
    <2>1. u = v
      BY <1>2, <1>3 DEF Takes
    <2> QED
      BY <1>2, <1>3, <2>1 DEF Known, t, m
  <1>4. ASSUME NEW k \in DOMAIN q, q[k] = w,
               v # "none" \/ \E i \in DOMAIN q : i < k /\ q[i] = "CONFIG",
               \A i \in DOMAIN q : i > k => q[i] \notin S
        PROVE  Known(t, u, x)
    <2>1. CASE k = 1
      <3>1. v # "none"
        BY <1>1, <1>4, <2>1, SMT
      <3>2. u = x
        BY <1>1, <1>4, <2>1, <3>1 DEF Takes
      <3>3. ~Holds(t, S)
        <4> SUFFICES ASSUME NEW i \in DOMAIN t PROVE t[i] \notin S
          BY DEF Holds
        <4>1. i + 1 \in DOMAIN q /\ i + 1 > k /\ t[i] = q[i + 1]
          BY <1>1, <2>1, SMT
        <4> QED  BY <1>4, <4>1
      <3> QED  BY <3>2, <3>3 DEF Known
    <2>2. CASE k # 1
      <3> DEFINE j == k - 1
      <3>1. j \in DOMAIN t /\ t[j] = q[j + 1] /\ j + 1 = k /\ j \in Nat
        BY <1>1, <2>2, SMT
      <3> HIDE DEF j
      <3>2. u # "none" \/ \E i \in DOMAIN t : i < j /\ t[i] = "CONFIG"
        <4>1. CASE v # "none"
          BY <4>1 DEF Takes
        <4>2. CASE v = "none"
          <5> PICK i \in DOMAIN q : i < k /\ q[i] = "CONFIG"
            BY <1>4, <4>2
          <5>1. CASE i = 1
            BY <1>1, <5>1 DEF Takes
          <5>2. CASE i # 1
            <6> DEFINE h == i - 1
            <6>1. h \in DOMAIN t /\ h < j /\ t[h] = q[h + 1] /\ h + 1 = i
              BY <1>1, <3>1, <5>2, SMT
            <6> HIDE DEF h
            <6> QED  BY <6>1
          <5> QED  BY <5>1, <5>2
        <4> QED  BY <4>1, <4>2
      <3>3. \A i \in DOMAIN t : i > j => t[i] \notin S
        <4> SUFFICES ASSUME NEW i \in DOMAIN t, i > j PROVE t[i] \notin S
          OBVIOUS
        <4>1. i + 1 \in DOMAIN q /\ i + 1 > k /\ t[i] = q[i + 1]
          BY <1>1, <3>1, SMT
        <4> QED  BY <1>4, <4>1
      <3>4. t[j] = w
        BY <1>4, <3>1
      <3> HIDE DEF u
      <3> QED
        BY <3>1, <3>2, <3>3, <3>4 DEF Known
    <2> QED  BY <2>1, <2>2
  <1> QED
    BY <1>3, <1>4 DEF Known, t, m

\* The peer handles the next message, and its view goes on to be right.
LEMMA ViewRest ==
  ASSUME NEW s, NEW q \in Seq(Msg), q # << >>,
         NEW v \in {"none", "up", "down"}, View(s, q, v)
  PROVE  View(s, Tail(q), Takes(v, Head(q)))
  <1> DEFINE m == Head(q)
             u == Takes(v, m)
  <1>1. /\ Holds(q, Info) <=> m \in Info \/ Holds(Tail(q), Info)
        /\ Holds(q, {"CONFIG"}) <=> m \in {"CONFIG"} \/ Holds(Tail(q), {"CONFIG"})
    BY HoldsRest
  <1> HIDE DEF m
  <1>2. ~s.bound => u = "none" /\ ~Holds(Tail(q), Info)
    BY <1>1 DEF View, Info, Takes
  <1>3. s.bound /\ ~s.changed => Known(Tail(q), u, StateName(s))
    <2> SUFFICES ASSUME s.bound, ~s.changed
                 PROVE  Known(Tail(q), u, StateName(s))
      OBVIOUS
    <2>1. Known(q, v, StateName(s)) /\ StateName(s) \in {"up", "down"}
      BY DEF View, StateName
    <2> QED  BY <2>1, KnownRest DEF m
  <1>4. s.bound /\ s.changed =>
          s.port_config_sync \/ u # "none" \/ Holds(Tail(q), {"CONFIG"})
    BY <1>1 DEF View, Takes
  <1> QED
    BY <1>2, <1>3, <1>4 DEF View, m

\* A view depends only on what the sender reports and has still to send.
LEMMA ViewSame ==
  ASSUME NEW s, NEW t, NEW q, NEW v, SameReport(s, t), View(s, q, v)
  PROVE  View(t, q, v)
  BY DEF SameReport, View, StateName

\* A message that does not concern the port-channel.
LEMMA ViewOther ==
  ASSUME NEW s, NEW q \in Seq(Msg), NEW v, NEW m \in Msg, m \notin Info,
         View(s, q, v)
  PROVE  View(s, q \o <<m>>, v)
  <1>1. /\ Holds(q \o <<m>>, Info) <=> Holds(q, Info) \/ m \in Info
        /\ Holds(q \o <<m>>, {"CONFIG"}) <=> Holds(q, {"CONFIG"}) \/ m \in {"CONFIG"}
    BY HoldsBehind
  <1>2. Known(q, v, StateName(s)) => Known(q \o <<m>>, v, StateName(s))
    BY KnownBehind DEF Info
  <1> QED
    BY <1>1, <1>2 DEF View

\* The configuration of a member is sent.
LEMMA ViewConfig ==
  ASSUME NEW s, NEW t, NEW q \in Seq(Msg), NEW v, View(s, q, v), s.bound,
         t.bound = s.bound, t.state = s.state, t.changed = s.changed
  PROVE  View(t, q \o <<"CONFIG">>, v)
  <1>1. "CONFIG" \in Msg
    BY DEF Msg
  <1>2. Holds(q \o <<"CONFIG">>, {"CONFIG"})
    BY <1>1, HoldsBehind
  <1>3. Known(q, v, StateName(s)) => Known(q \o <<"CONFIG">>, v, StateName(s))
    BY <1>1, KnownBehind
  <1>4. StateName(t) = StateName(s)
    BY DEF StateName
  <1> QED
    BY <1>2, <1>3, <1>4 DEF View

\* The state of a member is sent, whose configuration has been sent.
LEMMA ViewState ==
  ASSUME NEW s, NEW t, NEW q \in Seq(Msg), NEW v, View(s, q, v), s.bound,
         s.changed, ~s.port_config_sync, t.bound = s.bound,
         t.state = s.state, ~t.changed
  PROVE  View(t, q \o <<StateMsg(s)>>, v)
  <1>1. v # "none" \/ Holds(q, {"CONFIG"})
    BY DEF View
  <1>2. Known(q \o <<StateMsg(s)>>, v, StateName(s))
    BY <1>1, KnownState
  <1>3. StateName(t) = StateName(s)
    BY DEF StateName
  <1> QED
    BY <1>2, <1>3 DEF View

-----------------------------------------------------------------------------
(* The exchange.                                                           *)

\* The handler that takes s to r writes only updates.
Adds(s, r) == \E d \in Seq(Update) : r.out = s.out \o d

\* One message more is written.
LEMMA Written ==
  ASSUME NEW q \in Seq(Msg), NEW o \in Seq(Msg), NEW m \in Msg
  PROVE  /\ q \o o \in Seq(Msg)
         /\ o \o <<m>> \in Seq(Msg)
         /\ q \o (o \o <<m>>) = (q \o o) \o <<m>>
  <1>1. <<m>> \in Seq(Msg)
    BY SMT
  <1>2. q \o o \in Seq(Msg)
    BY ConcatParts
  <1>3. o \o <<m>> \in Seq(Msg)
    BY <1>1, ConcatParts
  <1>4. (q \o o) \o <<m>> = q \o (o \o <<m>>)
    BY <1>1, ConcatAssoc, SMT
  <1> QED
    BY <1>2, <1>3, <1>4

\* Adds in a sequence of handlers.
LEMMA AddsTrans ==
  ASSUME NEW s \in NodeState, NEW t, NEW r, Adds(s, t), Adds(t, r)
  PROVE  Adds(s, r)
  <1> PICK d \in Seq(Update) : t.out = s.out \o d
    BY DEF Adds
  <1> PICK e \in Seq(Update) : r.out = t.out \o e
    BY DEF Adds
  <1>1. s.out \in Seq(Msg)
    BY DEF NodeState
  <1>2. Update \subseteq Msg
    BY DEF Update, Info, Msg
  <1>3. d \in Seq(Msg) /\ e \in Seq(Msg)
    BY <1>2, SMT
  <1>4. (s.out \o d) \o e = s.out \o (d \o e)
    <2>1. \A x, y, z \in Seq(Msg) : (x \o y) \o z = x \o (y \o z)
      BY ConcatAssoc, SMT
    <2> QED  BY <1>1, <1>3, <2>1
  <1>5. d \o e \in Seq(Update)
    BY ConcatParts
  <1> QED
    BY <1>4, <1>5 DEF Adds

\* Nothing, or one update.
LEMMA AddsOne ==
  ASSUME NEW s \in NodeState, NEW r
  PROVE  /\ r.out = s.out => Adds(s, r)
         /\ \A m \in Update : r.out = s.out \o <<m>> => Adds(s, r)
  <1>1. s.out \in Seq(Msg)
    BY DEF NodeState
  <1>2. s.out = s.out \o << >>
    BY <1>1, ConcatNil
  <1>3. << >> \in Seq(Update)
    BY SMT
  <1>4. \A m \in Update : <<m>> \in Seq(Update)
    BY SMT
  <1> QED
    BY <1>2, <1>3, <1>4 DEF Adds

\* Configuration, then state: what mlacp_exchange_handler sends of a member.
LEMMA SendConfigEffect ==
  ASSUME NEW s \in NodeState, Local(s), Exchange(s), NEW q \in Seq(Msg), NEW v
  PROVE  LET r == SendConfig(s) IN
         /\ r \in NodeState /\ Local(r) /\ Exchange(r)
         /\ r.pif = s.pif /\ Adds(s, r)
         /\ r.bound => ~r.port_config_sync
         /\ View(s, q \o s.out, v) => View(r, q \o r.out, v)
  <1> DEFINE r == SendConfig(s)
  <1>1. CASE ~(s.bound /\ s.port_config_sync)
    <2>1. r = s
      BY <1>1 DEF SendConfig
    <2> QED  BY <1>1, <2>1, AddsOne
  <1>2. CASE s.bound /\ s.port_config_sync
    <2> DEFINE d == DisableTraffic(s)
               t == [d EXCEPT !.port_config_sync = FALSE]
               o == t.out \o <<"CONFIG">>
    <2>1. r = [t EXCEPT !.out = o]
      BY <1>2 DEF SendConfig, Send
    <2>2. d \in NodeState
      BY TrafficType
    <2>3. /\ d.current_state = s.current_state /\ d.bound = s.bound
          /\ d.state = s.state /\ d.po_active = s.po_active
          /\ d.changed = s.changed /\ d.purge = s.purge
          /\ d.need_to_sync = s.need_to_sync /\ d.pif = s.pif
          /\ d.isolated = s.isolated /\ d.out = s.out
      BY DEF DisableTraffic, NodeState
    <2> HIDE DEF d
    <2>4. /\ t \in NodeState
          /\ t.current_state = d.current_state /\ t.bound = d.bound
          /\ t.state = d.state /\ t.po_active = d.po_active
          /\ t.changed = d.changed /\ t.purge = d.purge
          /\ t.need_to_sync = d.need_to_sync /\ t.pif = d.pif
          /\ t.isolated = d.isolated /\ t.out = d.out
          /\ ~t.port_config_sync
      BY <2>2 DEF NodeState
    <2> HIDE DEF t
    <2>5. "CONFIG" \in Msg /\ "CONFIG" \in Update /\ s.out \in Seq(Msg)
      BY DEF Msg, Update, Info, NodeState
    <2>6. o = s.out \o <<"CONFIG">>
      BY <2>3, <2>4
    <2>7. o \in Seq(Msg) /\ q \o s.out \in Seq(Msg)
          /\ q \o o = (q \o s.out) \o <<"CONFIG">>
      BY <2>5, <2>6, Written, ZenonT(30)
    <2>8. /\ r \in NodeState
          /\ r.current_state = t.current_state /\ r.bound = t.bound
          /\ r.state = t.state /\ r.po_active = t.po_active
          /\ r.changed = t.changed /\ r.purge = t.purge
          /\ r.need_to_sync = t.need_to_sync /\ r.pif = t.pif
          /\ r.isolated = t.isolated /\ r.out = o
          /\ ~r.port_config_sync
      <3> HIDE DEF o, r
      <3> QED  BY <2>1, <2>4, <2>7 DEF NodeState
    <2> HIDE DEF r, o
    <2>9. Local(r) /\ Exchange(r) /\ r.pif = s.pif
      BY <1>2, <2>3, <2>4, <2>8, SMT DEF Local, Base, Isolates, Exchange
    <2>10. Adds(s, r)
      BY <2>5, <2>6, <2>8, AddsOne
    <2>11. View(s, q \o s.out, v) => View(r, q \o r.out, v)
      BY <1>2, <2>3, <2>4, <2>7, <2>8, ViewConfig
    <2> QED
      BY <2>8, <2>9, <2>10, <2>11 DEF r
  <1> QED
    BY <1>1, <1>2

\* The state follows if it has changed.
LEMMA SendStateEffect ==
  ASSUME NEW s \in NodeState, Local(s), Exchange(s), NEW q \in Seq(Msg), NEW v,
         s.bound => ~s.port_config_sync
  PROVE  LET r == SendState(s) IN
         /\ r \in NodeState /\ Local(r) /\ Exchange(r)
         /\ r.pif = s.pif /\ Adds(s, r)
         /\ r.bound => ~r.changed
         /\ View(s, q \o s.out, v) => View(r, q \o r.out, v)
  <1> DEFINE r == SendState(s)
  <1>1. CASE ~(s.bound /\ s.changed)
    <2>1. r = s
      BY <1>1 DEF SendState
    <2> QED  BY <1>1, <2>1, AddsOne
  <1>2. CASE s.bound /\ s.changed
    <2> DEFINE t == [s EXCEPT !.changed = FALSE]
               m == StateMsg(s)
               o == t.out \o <<m>>
    <2>1. r = [t EXCEPT !.out = o]
      BY <1>2 DEF SendState, Send
    <2>2. /\ t \in NodeState
          /\ t.current_state = s.current_state /\ t.bound = s.bound
          /\ t.state = s.state /\ t.po_active = s.po_active
          /\ ~t.changed /\ t.purge = s.purge
          /\ t.need_to_sync = s.need_to_sync /\ t.pif = s.pif
          /\ t.isolated = s.isolated /\ t.out = s.out
          /\ t.is_traffic_disable = s.is_traffic_disable
      BY DEF NodeState
    <2> HIDE DEF t
    <2>3. m \in Msg /\ m \in Update /\ s.out \in Seq(Msg)
      BY DEF StateMsg, Msg, Update, Info, NodeState
    <2> HIDE DEF m
    <2>4. o = s.out \o <<m>>
      BY <2>2
    <2>5. o \in Seq(Msg) /\ q \o s.out \in Seq(Msg)
          /\ q \o o = (q \o s.out) \o <<m>>
      BY <2>3, <2>4, Written, ZenonT(30)
    <2>6. /\ r \in NodeState
          /\ r.current_state = t.current_state /\ r.bound = t.bound
          /\ r.state = t.state /\ r.po_active = t.po_active
          /\ ~r.changed /\ r.purge = t.purge
          /\ r.need_to_sync = t.need_to_sync /\ r.pif = t.pif
          /\ r.isolated = t.isolated /\ r.out = o
          /\ r.is_traffic_disable = t.is_traffic_disable
      <3> HIDE DEF o, r
      <3> QED  BY <2>1, <2>2, <2>5 DEF NodeState
    <2> HIDE DEF r, o
    <2>7. Local(r) /\ Exchange(r) /\ r.pif = s.pif
      BY <1>2, <2>2, <2>6 DEF Local, Base, Isolates, Exchange
    <2>8. Adds(s, r)
      BY <2>3, <2>4, <2>6, AddsOne
    <2>9. View(s, q \o s.out, v) => View(r, q \o r.out, v)
      <3>1. View(s, q \o s.out, v) => View(r, (q \o s.out) \o <<StateMsg(s)>>, v)
        BY <1>2, <2>2, <2>5, <2>6, ViewState
      <3> QED  BY <2>5, <2>6, <3>1 DEF m
    <2> QED
      BY <2>6, <2>7, <2>8, <2>9 DEF r
  <1> QED
    BY <1>1, <1>2

\* mlacp_exchange_handler: only updates are sent, the peer will have the right
\* view, and nothing is left to send of a member.
LEMMA ExchangeEffect ==
  ASSUME NEW s \in NodeState, NEW m \in Update \cup {None},
         Local(s), Exchange(s), NEW q \in Seq(Msg), NEW v
  PROVE  LET r == ExchangeHandler(s, m) IN
         /\ r \in NodeState /\ Local(r) /\ Exchange(r)
         /\ r.pif = IF m = None THEN s.pif ELSE Takes(s.pif, m)
         /\ Adds(s, r)
         /\ r.bound => ~r.changed
         /\ View(s, q \o s.out, v) => View(r, q \o r.out, v)
  <1> DEFINE t == IF m = None THEN s ELSE Receive(s, m)
             c == SendConfig(t)
             r == SendState(c)
  <1>1. /\ t \in NodeState /\ Local(t) /\ Exchange(t)
        /\ t.pif = IF m = None THEN s.pif ELSE Takes(s.pif, m)
        /\ Adds(s, t)
        /\ View(s, q \o s.out, v) => View(t, q \o t.out, v)
    <2>1. CASE m = None
      BY <2>1, AddsOne
    <2>2. CASE m # None
      <3>1. t = Receive(s, m)
        BY <2>2
      <3>2. m \in Early \cup Update \cup {"SYNC_DONE"}
        BY <2>2
      <3> HIDE DEF t
      <3>3. /\ t \in NodeState /\ t.current_state = s.current_state
            /\ SameReport(s, t) /\ t.pif = Takes(s.pif, m)
            /\ t.out = s.out \/ t.out = s.out \o <<"IF_UP_ACK">>
            /\ Local(t)
        BY <3>1, <3>2, ReceiveEffect
      <3>4. /\ "IF_UP_ACK" \in Update /\ "IF_UP_ACK" \in Msg
            /\ "IF_UP_ACK" \notin Info /\ s.out \in Seq(Msg)
        BY DEF Update, Info, Msg, NodeState
      <3>5. Adds(s, t)
        BY <3>3, <3>4, AddsOne
      <3>6. ASSUME View(s, q \o s.out, v) PROVE View(t, q \o t.out, v)
        <4>1. View(t, q \o s.out, v)
          BY <3>3, <3>6, ViewSame
        <4>2. /\ q \o s.out \in Seq(Msg)
              /\ q \o (s.out \o <<"IF_UP_ACK">>) = (q \o s.out) \o <<"IF_UP_ACK">>
          BY <3>4, Written
        <4>3. View(t, (q \o s.out) \o <<"IF_UP_ACK">>, v)
          BY <3>4, <4>1, <4>2, ViewOther
        <4> QED
          BY <3>3, <4>1, <4>2, <4>3
      <3>7. Exchange(t)
        BY <3>3 DEF Exchange
      <3> QED
        BY <2>2, <3>3, <3>5, <3>6, <3>7
    <2> QED  BY <2>1, <2>2
  <1> HIDE DEF t
  <1>2. SendPurge(SendSyncRequest(t)) = t
    <2>1. ~t.need_to_sync /\ ~t.purge
      BY <1>1 DEF Local, Base
    <2> QED  BY <2>1 DEF SendSyncRequest, SendPurge
  <1>3. ExchangeHandler(s, m) = r
    BY <1>2 DEF ExchangeHandler, t
  <1>4. /\ c \in NodeState /\ Local(c) /\ Exchange(c)
        /\ c.pif = t.pif /\ Adds(t, c)
        /\ c.bound => ~c.port_config_sync
        /\ View(t, q \o t.out, v) => View(c, q \o c.out, v)
    BY <1>1, SendConfigEffect
  <1> HIDE DEF c
  <1>5. /\ r \in NodeState /\ Local(r) /\ Exchange(r)
        /\ r.pif = c.pif /\ Adds(c, r)
        /\ r.bound => ~r.changed
        /\ View(c, q \o c.out, v) => View(r, q \o r.out, v)
    BY <1>4, SendStateEffect
  <1> HIDE DEF r
  <1>6. Adds(s, r)
    <2>1. Adds(s, c)
      BY <1>1, <1>4, AddsTrans
    <2> QED  BY <1>5, <2>1, AddsTrans
  <1> QED
    BY <1>1, <1>3, <1>4, <1>5, <1>6

\* mlacp_portchannel_state_handler of a member whose state is s.state: it is
\* isolated as the peer interface says, and a change of state is to be sent.
LEMMA PortchannelEffect ==
  ASSUME NEW s \in NodeState, s.bound, ~s.purge, ~s.need_to_sync,
         s.isolated => Exchange(s), s.is_traffic_disable => Exchange(s)
  PROVE  LET r == PortchannelStateHandler(s, s.state) IN
         /\ r \in NodeState /\ Local(r)
         /\ r.current_state = s.current_state
         /\ r.wait_for_sync_data = s.wait_for_sync_data
         /\ r.pif = s.pif /\ r.out = s.out
         /\ r.bound = s.bound /\ r.state = s.state
         /\ r.port_config_sync = s.port_config_sync
         /\ r.changed <=> s.changed \/ s.po_active # s.state
         /\ Exchange(s) /\ s.state =>
              (r.isolate_to_peer_link <=> s.pif # "down")
  <1> DEFINE i == UpdateIsolateFromLif(s, s.state)
             p == UpdatePoIfInfo(i, s.state)
             r == PortchannelStateHandler(s, s.state)
  <1>1. s.state \in BOOLEAN /\ s.changed \in BOOLEAN
    BY DEF NodeState
  <1>2. /\ i \in NodeState /\ OnlyIsolation(s, i)
        /\ Exchange(s) /\ s.state =>
             /\ i.isolated <=> s.bound /\ s.pif # "down"
             /\ i.isolate_to_peer_link <=> s.pif # "down"
        /\ ~(Exchange(s) /\ s.state) => i = s
    BY <1>1, UpdateIsolateType, UpdateIsolateEffect
  <1> HIDE DEF i
  <1>3. /\ p \in NodeState
        /\ p.current_state = i.current_state /\ p.bound = i.bound
        /\ p.wait_for_sync_data = i.wait_for_sync_data
        /\ p.state = i.state /\ p.purge = i.purge
        /\ p.need_to_sync = i.need_to_sync
        /\ p.port_config_sync = i.port_config_sync
        /\ p.is_traffic_disable = i.is_traffic_disable
        /\ p.isolate_to_peer_link = i.isolate_to_peer_link
        /\ p.isolated = i.isolated /\ p.pif = i.pif /\ p.out = i.out
        /\ p.po_active = s.state
        /\ p.changed <=> i.changed \/ i.po_active # s.state
    <2>1. CASE i.po_active = s.state
      BY <1>2, <2>1 DEF UpdatePoIfInfo
    <2>2. CASE i.po_active # s.state
      BY <1>2, <2>2 DEF UpdatePoIfInfo, NodeState
    <2> QED  BY <2>1, <2>2
  <1> HIDE DEF p
  <1>4. r = IF s.state THEN p ELSE DisableTraffic(p)
    BY DEF PortchannelStateHandler, p, i
  <1>5. /\ r \in NodeState
        /\ r.current_state = p.current_state /\ r.bound = p.bound
        /\ r.wait_for_sync_data = p.wait_for_sync_data
        /\ r.state = p.state /\ r.purge = p.purge
        /\ r.need_to_sync = p.need_to_sync
        /\ r.port_config_sync = p.port_config_sync
        /\ r.is_traffic_disable => p.is_traffic_disable \/ Exchange(p)
        /\ r.isolate_to_peer_link = p.isolate_to_peer_link
        /\ r.isolated = p.isolated /\ r.pif = p.pif /\ r.out = p.out
        /\ r.po_active = p.po_active /\ r.changed = p.changed
    <2>1. DisableTraffic(p) \in NodeState
      BY <1>3, TrafficType
    <2>2. CASE r = p
      BY <1>3, <2>2
    <2>3. CASE r = DisableTraffic(p)
      <3> HIDE DEF r
      <3> QED  BY <1>3, <2>1, <2>3, SMT DEF DisableTraffic, NodeState
    <2> QED  BY <1>4, <2>2, <2>3
  <1> HIDE DEF r
  <1>6. /\ r.current_state = s.current_state
        /\ r.wait_for_sync_data = s.wait_for_sync_data
        /\ r.pif = s.pif /\ r.out = s.out
        /\ r.bound = s.bound /\ r.state = s.state
        /\ r.port_config_sync = s.port_config_sync
        /\ r.changed <=> s.changed \/ s.po_active # s.state
    BY <1>2, <1>3, <1>5, SMT DEF OnlyIsolation
  <1>7. Base(r)
    <2>1. r.isolated => Exchange(r)
      BY <1>2, <1>3, <1>5 DEF OnlyIsolation, Exchange
    <2>2. r.is_traffic_disable => Exchange(r)
      BY <1>2, <1>3, <1>5 DEF OnlyIsolation, Exchange
    <2>3. ~r.purge /\ ~r.need_to_sync /\ r.po_active = r.state /\ r.bound
      BY <1>2, <1>3, <1>5, SMT DEF OnlyIsolation
    <2> QED  BY <2>1, <2>2, <2>3 DEF Base
  <1>8. Isolates(r)
    BY <1>2, <1>3, <1>5, <1>6 DEF Isolates, Exchange
  <1>9. Exchange(s) /\ s.state => (r.isolate_to_peer_link <=> s.pif # "down")
    BY <1>2, <1>3, <1>5
  <1> QED
    BY <1>5, <1>6, <1>7, <1>8, <1>9 DEF Local, r

\* mlacp_peer_conn_handler isolates what is to be isolated, and sends nothing.
LEMMA PeerConnEffect ==
  ASSUME NEW s \in NodeState, Base(s), Exchange(s)
  PROVE  LET r == PeerConnHandler(s) IN
         /\ r \in NodeState /\ Local(r) /\ Exchange(r)
         /\ r.pif = s.pif /\ r.out = s.out /\ SameReport(s, r)
  <1> DEFINE q == IF s.bound THEN PortchannelStateHandler(s, s.state) ELSE s
             r == PeerConnHandler(s)
  <1>1. r = UpdateIsolateFromAllLif(q)
    BY DEF PeerConnHandler
  <1>2. /\ q \in NodeState /\ Base(q) /\ Exchange(q)
        /\ q.pif = s.pif /\ q.out = s.out /\ SameReport(s, q)
        /\ s.bound /\ s.state => (q.isolate_to_peer_link <=> s.pif # "down")
    <2>1. CASE ~s.bound
      BY <2>1 DEF SameReport
    <2>2. CASE s.bound
      <3>1. q = PortchannelStateHandler(s, s.state)
        BY <2>2
      <3>2. /\ ~s.purge /\ ~s.need_to_sync /\ s.po_active = s.state
            /\ s.changed \in BOOLEAN
        BY DEF Base, NodeState
      <3> HIDE DEF q
      <3>3. /\ q \in NodeState /\ Local(q)
            /\ q.current_state = s.current_state
            /\ q.pif = s.pif /\ q.out = s.out
            /\ q.bound = s.bound /\ q.state = s.state
            /\ q.port_config_sync = s.port_config_sync
            /\ q.changed <=> s.changed
            /\ s.state => (q.isolate_to_peer_link <=> s.pif # "down")
        BY <2>2, <3>1, <3>2, PortchannelEffect
      <3>4. q.changed = s.changed
        BY <3>3 DEF NodeState
      <3> QED
        BY <3>3, <3>4 DEF SameReport, Local, Exchange
    <2> QED  BY <2>1, <2>2
  <1> HIDE DEF q
  <1>3. /\ OnlyIsolation(q, r)
        /\ r.isolated <=> q.bound /\ q.isolate_to_peer_link
    <2>1. \A t \in NodeState :
            /\ OnlyIsolation(t, UpdateIsolateFromAllLif(t))
            /\ UpdateIsolateFromAllLif(t).isolated
                 <=> t.bound /\ t.isolate_to_peer_link
      BY SetPortIsolateEffect
    <2> HIDE DEF r
    <2> QED  BY <1>1, <1>2, <2>1
  <1>4. r \in NodeState
    BY <1>1, <1>2 DEF UpdateIsolateFromAllLif, NodeState
  <1> HIDE DEF r
  <1>5. Exchange(r) /\ r.pif = s.pif /\ r.out = s.out /\ SameReport(s, r)
    BY <1>2, <1>3 DEF OnlyIsolation, SameReport, Exchange
  <1>6. Base(r)
    BY <1>2, <1>3 DEF OnlyIsolation, Base, Exchange
  <1>7. Isolates(r)
    BY <1>2, <1>3, <1>5 DEF OnlyIsolation, Isolates, SameReport
  <1> QED
    BY <1>4, <1>5, <1>6, <1>7 DEF Local, r

-----------------------------------------------------------------------------
(* The stages.                                                             *)

\* The data between the start and the end of an answer.
LEMMA Burst ==
  ASSUME NEW d \in Seq(Msg)
  PROVE  LET o == <<"SYNC_START">> \o d \o <<"SYNC_DONE">> IN
         /\ o \in Seq(Msg) /\ Len(o) = Len(d) + 2
         /\ DOMAIN o = 1..(Len(d) + 2)
         /\ o[1] = "SYNC_START" /\ o[Len(d) + 2] = "SYNC_DONE"
         /\ \A i \in 1..Len(d) : o[i + 1] = d[i]
  <1> DEFINE b == <<"SYNC_START">>
             c == b \o d
             o == c \o <<"SYNC_DONE">>
  <1>1. b \in Seq(Msg) /\ Len(b) = 1 /\ b[1] = "SYNC_START"
    BY SMT DEF Msg
  <1> HIDE DEF b
  <1>2. Len(d) \in Nat /\ "SYNC_DONE" \in Msg
    BY SMT DEF Msg
  <1>3. /\ c \in Seq(Msg) /\ Len(c) = 1 + Len(d)
        /\ \A i \in 1..(1 + Len(d)) : c[i] = IF i <= 1 THEN b[i] ELSE d[i - 1]
    <2>1. /\ c \in Seq(Msg) /\ Len(c) = Len(b) + Len(d)
          /\ \A i \in 1..(Len(b) + Len(d)) :
               c[i] = IF i <= Len(b) THEN b[i] ELSE d[i - Len(b)]
      BY <1>1, ConcatParts
    <2> HIDE DEF c
    <2> QED  BY <1>1, <2>1
  <1> HIDE DEF c
  <1>4. /\ o \in Seq(Msg) /\ Len(o) = Len(c) + 1
        /\ DOMAIN o = 1..(Len(c) + 1)
        /\ \A i \in 1..Len(c) : o[i] = c[i]
        /\ o[Len(c) + 1] = "SYNC_DONE"
    BY <1>2, <1>3, Behind
  <1> HIDE DEF o
  <1>5. Len(c) + 1 = Len(d) + 2
    BY <1>2, <1>3, SMT
  <1>6. o[1] = "SYNC_START"
    BY <1>1, <1>2, <1>3, <1>4, SMT
  <1>7. ASSUME NEW i \in 1..Len(d) PROVE o[i + 1] = d[i]
    <2>1. i + 1 \in 1..(1 + Len(d)) /\ ~(i + 1 <= 1) /\ (i + 1) - 1 = i
      BY <1>2, SMT
    <2>2. o[i + 1] = c[i + 1]
      BY <1>3, <1>4, <2>1
    <2> QED  BY <1>3, <2>1, <2>2
  <1> QED
    BY <1>4, <1>5, <1>6, <1>7 DEF o, c, b

\* mlacp_sync_send_all_info_handler: the answer ends with MLACP_SYNC_DATA end,
\* and tells a peer that knows nothing all it has to know.
LEMMA SendAllInfoEffect ==
  ASSUME NEW s \in NodeState, s.out = << >>
  PROVE  LET r == SendAllInfo(s) IN
         /\ r \in NodeState /\ ~r.wait_for_sync_data
         /\ s.current_state \in {"STAGE1", "STAGE2"} /\ Base(s) => Base(r)
         /\ r.current_state = NextStage(s.current_state)
         /\ r.pif = s.pif
         /\ Len(r.out) > 0 /\ r.out[Len(r.out)] = "SYNC_DONE"
         /\ \A i \in 1..(Len(r.out) - 1) : r.out[i] \in Early
         /\ View(r, r.out, "none")
  <1> DEFINE data == IF s.bound THEN <<"CONFIG", StateMsg(s)>> ELSE << >>
             ms == <<"SYNC_START">> \o data \o <<"SYNC_DONE">>
             o == s.out \o ms
             t == [s EXCEPT !.out = o]
             c == IF s.bound THEN FALSE ELSE t.changed
             p == IF s.bound THEN FALSE ELSE t.port_config_sync
             st == NextStage(t.current_state)
             r == [t EXCEPT !.changed = c, !.port_config_sync = p,
                            !.wait_for_sync_data = FALSE, !.current_state = st]
  <1>1. SendAllInfo(s) = r
    BY DEF SendAllInfo, Send
  <1>2. SendAllInfo(s) \in NodeState
    BY SendAllInfoType
  <1>3. StateMsg(s) \in {"STATE_UP", "STATE_DOWN"}
    BY DEF StateMsg
  <1>4. data \in Seq(Msg)
    <2>1. "CONFIG" \in Msg /\ StateMsg(s) \in Msg
      BY <1>3 DEF Msg
    <2>2. <<"CONFIG", StateMsg(s)>> \in Seq(Msg) /\ << >> \in Seq(Msg)
      BY <2>1, SMT
    <2> QED  BY <2>2
  <1>5. /\ ms \in Seq(Msg) /\ Len(ms) = Len(data) + 2
        /\ DOMAIN ms = 1..(Len(data) + 2)
        /\ ms[1] = "SYNC_START" /\ ms[Len(data) + 2] = "SYNC_DONE"
        /\ \A i \in 1..Len(data) : ms[i + 1] = data[i]
    <2> HIDE DEF data
    <2> QED  BY <1>4, Burst
  <1>6. o = ms
    <2> HIDE DEF ms
    <2> QED  BY <1>5, ConcatNil
  <1>7. /\ t.current_state = s.current_state
        /\ r.current_state = st /\ ~r.wait_for_sync_data
        /\ r.po_active = s.po_active /\ r.state = s.state
        /\ r.purge = s.purge /\ r.need_to_sync = s.need_to_sync
        /\ r.bound = s.bound /\ r.isolated = s.isolated
        /\ r.is_traffic_disable = s.is_traffic_disable
        /\ r.pif = s.pif /\ r.changed = c /\ r.out = o
        /\ t.changed = s.changed
    <2> HIDE DEF o, c, p, st
    <2> QED  BY DEF NodeState
  <1>8. c <=> ~s.bound /\ s.changed
    BY DEF NodeState
  <1>9. st = NextStage(s.current_state)
    <2> HIDE DEF t
    <2> QED  BY <1>7
  <1> HIDE DEF c, p, st, t, r, o
  <1>10. s.current_state \in {"STAGE1", "STAGE2"} /\ Base(s) => Base(r)
    BY <1>7, <1>8 DEF Base, Exchange
  <1>11. CASE s.bound
    <2>1. /\ Len(data) = 2 /\ data[1] = "CONFIG" /\ data[2] = StateMsg(s)
          /\ Len(data) + 2 = 4
      BY <1>11, SMT
    <2> HIDE DEF data, ms
    <2>2. /\ Len(ms) = 4 /\ DOMAIN ms = 1..4
          /\ ms[1] = "SYNC_START" /\ ms[4] = "SYNC_DONE"
      BY <1>5, <2>1
    <2>3. ms[2] = "CONFIG" /\ ms[3] = StateMsg(s)
      <3>1. 1 \in 1..Len(data) /\ 2 \in 1..Len(data) /\ 1 + 1 = 2 /\ 2 + 1 = 3
        BY <2>1, SMT
      <3> QED  BY <1>5, <2>1, <3>1
    <2>4. \A i \in 1..4 : i = 1 \/ i = 2 \/ i = 3 \/ i = 4
      BY SMT
    <2>5. \A i \in 1..3 : ms[i] \in Early
      BY <1>3, <2>2, <2>3, <2>4, SMT DEF Early, Info
    <2>6. Known(ms, "none", StateName(r))
      <3>1. StateMsg(s) = IF StateName(r) = "up" THEN "STATE_UP"
                          ELSE "STATE_DOWN"
        BY <1>7 DEF StateMsg, StateName
      <3>2. 3 \in DOMAIN ms /\ 2 \in DOMAIN ms /\ 2 < 3
        BY <2>2, SMT
      <3>3. \A i \in DOMAIN ms : i > 3 => ms[i] \notin {"STATE_UP", "STATE_DOWN"}
        BY <2>2, <2>4, SMT
      <3> QED  BY <2>3, <3>1, <3>2, <3>3 DEF Known
    <2>7. View(r, ms, "none")
      BY <1>7, <1>8, <1>11, <2>6 DEF View
    <2> QED
      BY <1>1, <1>2, <1>6, <1>7, <1>9, <1>10, <2>2, <2>5, <2>7, SMT
  <1>12. CASE ~s.bound
    <2>1. Len(data) = 0 /\ Len(data) + 2 = 2
      BY <1>12, SMT
    <2> HIDE DEF data, ms
    <2>2. /\ Len(ms) = 2 /\ DOMAIN ms = 1..2
          /\ ms[1] = "SYNC_START" /\ ms[2] = "SYNC_DONE"
      BY <1>5, <2>1
    <2>3. \A i \in 1..2 : i = 1 \/ i = 2
      BY SMT
    <2>4. ~Holds(ms, Info)
      BY <2>2, <2>3 DEF Holds, Info
    <2>5. \A i \in 1..1 : ms[i] \in Early
      BY <2>2, SMT DEF Early
    <2>6. View(r, ms, "none")
      BY <1>7, <1>12, <2>4 DEF View
    <2> QED
      BY <1>1, <1>2, <1>6, <1>7, <1>9, <1>10, <2>2, <2>5, <2>6, SMT
  <1> QED
    BY <1>11, <1>12

\* A node in a stage waits to be asked, or for an answer.
WaitsToSend(n, s) ==
  /\ ~s.wait_for_sync_data
  /\ \/ n = Active /\ s.current_state = "STAGE1"
     \/ n = Standby /\ s.current_state = "STAGE2"

WaitsForData(n, s) ==
  /\ s.wait_for_sync_data
  /\ \/ n = Standby /\ s.current_state = "STAGE1"
     \/ n = Active /\ s.current_state = "STAGE2"

\* Which of the two handlers of a stage runs.
LEMMA StageOf ==
  ASSUME NEW n \in Node, NEW s, NEW m
  PROVE  /\ n = Active /\ s.current_state = "STAGE1" =>
              StageHandler(n, s, m) = StageSyncSend(s, m)
         /\ n = Standby /\ s.current_state = "STAGE2" =>
              StageHandler(n, s, m) = StageSyncSend(s, m)
         /\ n = Standby /\ s.current_state = "STAGE1" =>
              StageHandler(n, s, m) = StageSyncRequest(s, m)
         /\ n = Active /\ s.current_state = "STAGE2" =>
              StageHandler(n, s, m) = StageSyncRequest(s, m)
  BY NodeAssumption DEF StageHandler

\* A turn of mlacp_fsm_transit in a stage is one of its handlers.
LEMMA PassStage ==
  ASSUME NEW n, NEW s, NEW m, NEW prev,
         s.current_state \in {"STAGE1", "STAGE2"}
  PROVE  Pass(n, s, m, prev) = StageHandler(n, s, m)
  BY DEF Pass

\* Which one it is depends on what the node waits for.
LEMMA HandlerOf ==
  ASSUME NEW n \in Node, NEW s, NEW m, NEW prev
  PROVE  /\ WaitsForData(n, s) => Pass(n, s, m, prev) = StageSyncRequest(s, m)
         /\ WaitsToSend(n, s) => Pass(n, s, m, prev) = StageSyncSend(s, m)
  <1>1. WaitsForData(n, s) => /\ s.current_state \in {"STAGE1", "STAGE2"}
                              /\ StageHandler(n, s, m) = StageSyncRequest(s, m)
    BY StageOf DEF WaitsForData
  <1>2. WaitsToSend(n, s) => /\ s.current_state \in {"STAGE1", "STAGE2"}
                             /\ StageHandler(n, s, m) = StageSyncSend(s, m)
    BY StageOf DEF WaitsToSend
  <1> QED
    BY <1>1, <1>2, PassStage, SMT

\* Without a message a node in a stage does nothing.
LEMMA TurnIdle ==
  ASSUME NEW n \in Node, NEW s, WaitsToSend(n, s) \/ WaitsForData(n, s),
         NEW prev
  PROVE  /\ Pass(n, s, None, prev) = s
         /\ FsmTransit(n, s, None) = s
  <1>1. s.current_state \in {"STAGE1", "STAGE2"}
    BY DEF WaitsToSend, WaitsForData
  <1>2. StageHandler(n, s, None) = s
    <2>1. CASE WaitsToSend(n, s)
      <3>1. StageSyncSend(s, None) = s
        BY DEF StageSyncSend, None
      <3> QED  BY <2>1, <3>1, StageOf DEF WaitsToSend
    <2>2. CASE WaitsForData(n, s)
      <3>1. StageSyncRequest(s, None) = s
        BY <2>2 DEF StageSyncRequest, WaitsForData
      <3> QED  BY <2>2, <3>1, StageOf DEF WaitsForData
    <2> QED  BY <2>1, <2>2
  <1>3. \A pr : Pass(n, s, None, pr) = s
    BY <1>1, <1>2, PassStage, SMT
  <1> QED
    BY <1>3 DEF FsmTransit

\* A session comes up: the standby peer asks, the active one waits.
LEMMA TurnUp ==
  ASSUME NEW n \in Node, NEW s \in NodeState, s.current_state = "INIT",
         s.out = << >>
  PROVE  LET r == FsmTransit(n, s, None) IN
         /\ r \in NodeState /\ (Local(s) => Local(r))
         /\ r.current_state = "STAGE1" /\ r.pif = s.pif
         /\ n = Active => ~r.wait_for_sync_data /\ r.out = << >>
         /\ n = Standby => r.wait_for_sync_data /\ r.out = <<"SYNC_REQ">>
  <1> DEFINE i == [s EXCEPT !.wait_for_sync_data = FALSE,
                            !.current_state = "STAGE1"]
             r == FsmTransit(n, s, None)
  <1>1. /\ i \in NodeState
        /\ i.current_state = "STAGE1" /\ ~i.wait_for_sync_data
        /\ i.pif = s.pif /\ i.out = s.out /\ i.bound = s.bound
        /\ i.state = s.state /\ i.po_active = s.po_active
        /\ i.changed = s.changed /\ i.purge = s.purge
        /\ i.need_to_sync = s.need_to_sync /\ i.isolated = s.isolated
        /\ i.is_traffic_disable = s.is_traffic_disable
    BY DEF NodeState, MlacpState
  <1>2. r \in NodeState
    <2> QED  BY FsmTransitType
  <1>3. Pass(n, s, None, s.current_state) = StageHandler(n, i, None)
    BY DEF Pass
  <1> HIDE DEF i
  <1>4. Local(s) => Local(i)
    BY <1>1 DEF Local, Base, Isolates, Exchange
  <1>5. CASE n = Active
    <2>1. StageSyncSend(i, None) = i
      BY DEF StageSyncSend, None
    <2>2. Pass(n, s, None, s.current_state) = i
      BY <1>1, <1>3, <1>5, <2>1, StageOf
    <2>3. Pass(n, i, None, s.current_state) = i
      BY <1>1, <1>5, TurnIdle DEF WaitsToSend
    <2>4. r = i
      BY <2>2, <2>3 DEF FsmTransit
    <2> QED
      BY <1>1, <1>4, <1>5, <2>4, NodeAssumption
  <1>6. CASE n = Standby
    <2> DEFINE w == [i EXCEPT !.wait_for_sync_data = TRUE]
               o == w.out \o <<"SYNC_REQ">>
               t == [w EXCEPT !.out = o]
    <2>1. StageSyncRequest(i, None) = t
      BY <1>1 DEF StageSyncRequest, Send
    <2>2. Pass(n, s, None, s.current_state) = t
      BY <1>1, <1>3, <1>6, <2>1, StageOf, SMT
    <2>3. /\ w \in NodeState
          /\ w.current_state = "STAGE1" /\ w.wait_for_sync_data
          /\ w.pif = i.pif /\ w.out = i.out /\ w.bound = i.bound
          /\ w.state = i.state /\ w.po_active = i.po_active
          /\ w.changed = i.changed /\ w.purge = i.purge
          /\ w.need_to_sync = i.need_to_sync /\ w.isolated = i.isolated
          /\ w.is_traffic_disable = i.is_traffic_disable
      BY <1>1 DEF NodeState
    <2> HIDE DEF w
    <2>4. o = <<"SYNC_REQ">>
      <3>1. <<"SYNC_REQ">> \in Seq(Msg)
        BY SMT DEF Msg
      <3>2. << >> \o <<"SYNC_REQ">> = <<"SYNC_REQ">>
        BY <3>1, ConcatNil
      <3> QED  BY <1>1, <2>3, <3>2
    <2>5. /\ t.current_state = "STAGE1" /\ t.wait_for_sync_data
          /\ t.pif = w.pif /\ t.out = o /\ t.bound = w.bound
          /\ t.state = w.state /\ t.po_active = w.po_active
          /\ t.changed = w.changed /\ t.purge = w.purge
          /\ t.need_to_sync = w.need_to_sync /\ t.isolated = w.isolated
          /\ t.is_traffic_disable = w.is_traffic_disable
      <3> HIDE DEF o
      <3> QED  BY <2>3 DEF NodeState
    <2> HIDE DEF t, o
    <2>6. Local(s) => Local(t)
      BY <1>1, <1>4, <2>3, <2>5 DEF Local, Base, Isolates, Exchange
    <2>7. Pass(n, t, None, s.current_state) = t
      BY <1>6, <2>5, TurnIdle DEF WaitsForData
    <2>8. r = t
      BY <2>2, <2>7 DEF FsmTransit
    <2> QED
      BY <1>1, <1>2, <1>6, <2>3, <2>4, <2>5, <2>6, <2>8, NodeAssumption
  <1> QED
    BY <1>5, <1>6 DEF Node

\* A message of the answer arrives.
LEMMA TurnData ==
  ASSUME NEW n \in Node, NEW s \in NodeState, WaitsForData(n, s),
         s.out = << >>, Local(s), NEW m \in Early
  PROVE  LET r == FsmTransit(n, s, m) IN
         /\ r \in NodeState /\ Local(r) /\ WaitsForData(n, r)
         /\ r.current_state = s.current_state
         /\ r.out = << >> /\ r.pif = Takes(s.pif, m) /\ SameReport(s, r)
  <1> DEFINE t == Receive(s, m)
  <1>1. m # None /\ m # "SYNC_DONE" /\ m \in Early \cup Update \cup {"SYNC_DONE"}
    BY DEF Early, Info, None
  <1>2. /\ s.current_state \in {"STAGE1", "STAGE2"} /\ s.wait_for_sync_data
        /\ ~Exchange(s)
    BY DEF WaitsForData, Exchange
  <1>3. /\ t \in NodeState /\ t.current_state = s.current_state
        /\ t.wait_for_sync_data = s.wait_for_sync_data
        /\ SameReport(s, t) /\ t.pif = Takes(s.pif, m)
        /\ t.out = s.out /\ Local(t)
    BY <1>1, <1>2, ReceiveEffect
  <1>4. StageSyncRequest(s, m) = t
    BY <1>1, <1>2, <1>3 DEF StageSyncRequest
  <1> HIDE DEF t
  <1>5. Pass(n, s, m, s.current_state) = t
    BY <1>4, HandlerOf
  <1>6. WaitsForData(n, t)
    BY <1>3 DEF WaitsForData
  <1>7. Pass(n, t, None, s.current_state) = t
    BY <1>6, TurnIdle
  <1>8. FsmTransit(n, s, m) = t
    BY <1>5, <1>7 DEF FsmTransit
  <1> QED
    BY <1>3, <1>6, <1>8

\* The turn that follows the one in which a node reaches the exchange.
LEMMA EnterExchange ==
  ASSUME NEW n \in Node, NEW s \in NodeState, Base(s), Exchange(s),
         NEW prev \in {"STAGE1", "STAGE2"}, NEW q \in Seq(Msg), NEW v
  PROVE  LET r == Pass(n, s, None, prev) IN
         /\ r \in NodeState /\ Local(r) /\ Exchange(r)
         /\ r.pif = s.pif /\ Adds(s, r)
         /\ View(s, q \o s.out, v) => View(r, q \o r.out, v)
  <1> DEFINE p == PeerConnHandler(s)
             r == ExchangeHandler(p, None)
  <1>1. Pass(n, s, None, prev) = r
    BY DEF Pass, Exchange
  <1>2. /\ p \in NodeState /\ Local(p) /\ Exchange(p)
        /\ p.pif = s.pif /\ p.out = s.out /\ SameReport(s, p)
    BY PeerConnEffect
  <1> HIDE DEF p
  <1>4. /\ r \in NodeState /\ Local(r) /\ Exchange(r)
        /\ r.pif = p.pif /\ Adds(p, r)
        /\ View(p, q \o p.out, v) => View(r, q \o r.out, v)
    BY <1>2, ExchangeEffect
  <1> HIDE DEF r
  <1>5. Adds(s, r)
    BY <1>2, <1>4 DEF Adds
  <1>6. View(s, q \o s.out, v) => View(p, q \o p.out, v)
    BY <1>2, ViewSame
  <1> QED
    BY <1>1, <1>2, <1>4, <1>5, <1>6

\* The end of the answer: the standby peer waits to be asked, the active one is
\* in the exchange and sends what has changed since it answered.
LEMMA TurnDone ==
  ASSUME NEW n \in Node, NEW s \in NodeState, WaitsForData(n, s),
         s.out = << >>, Local(s), NEW q \in Seq(Msg), NEW v
  PROVE  LET r == FsmTransit(n, s, "SYNC_DONE") IN
         /\ r \in NodeState /\ Local(r) /\ r.pif = s.pif
         /\ n = Standby => /\ WaitsToSend(n, r) /\ r.current_state = "STAGE2"
                           /\ r.out = << >>
         /\ n = Active => /\ Exchange(r) /\ r.out \in Seq(Update)
                          /\ View(s, q, v) => View(r, q \o r.out, v)
  <1> DEFINE m == "SYNC_DONE"
             u == Receive(s, m)
             st == NextStage(u.current_state)
             t == [u EXCEPT !.current_state = st]
             r == FsmTransit(n, s, m)
  <1>1. m # None /\ m \in Early \cup Update \cup {"SYNC_DONE"} /\ m \in Msg
    BY DEF None, Msg
  <1>2. /\ s.current_state \in {"STAGE1", "STAGE2"} /\ s.wait_for_sync_data
        /\ ~Exchange(s)
        /\ n = Standby => s.current_state = "STAGE1"
        /\ n = Active => s.current_state = "STAGE2"
    BY NodeAssumption DEF WaitsForData, Exchange
  <1>3. /\ u \in NodeState /\ u.current_state = s.current_state
        /\ ~u.wait_for_sync_data
        /\ SameReport(s, u) /\ u.pif = Takes(s.pif, m)
        /\ u.out = s.out /\ Local(u)
    BY <1>2, ReceiveEffect
  <1>4. StageSyncRequest(s, m) = t
    BY <1>1, <1>2, <1>3 DEF StageSyncRequest
  <1>5. Takes(s.pif, m) = s.pif
    BY DEF Takes
  <1> HIDE DEF u
  <1>6. /\ n = Standby => st = "STAGE2"
        /\ n = Active => st = "EXCHANGE"
        /\ st \in {"STAGE2", "EXCHANGE"}
    BY <1>2, <1>3 DEF NextStage, Node
  <1> HIDE DEF st
  <1>7. /\ t \in NodeState /\ t.current_state = st /\ ~t.wait_for_sync_data
        /\ t.pif = s.pif /\ t.out = << >> /\ SameReport(s, t)
        /\ t.po_active = u.po_active /\ t.purge = u.purge
        /\ t.need_to_sync = u.need_to_sync /\ t.isolated = u.isolated
        /\ t.is_traffic_disable = u.is_traffic_disable
    BY <1>3, <1>5, <1>6 DEF NodeState, MlacpState, SameReport
  <1> HIDE DEF t
  <1>8. Base(t)
    <2>1. ~u.isolated /\ ~u.is_traffic_disable
      BY <1>2, <1>3 DEF Local, Base, Exchange
    <2> QED
      BY <1>3, <1>7, <2>1 DEF Local, Base, SameReport
  <1>9. Pass(n, s, m, s.current_state) = t
    BY <1>4, HandlerOf
  <1>10. r = Pass(n, t, None, s.current_state)
    BY <1>1, <1>9 DEF FsmTransit
  <1>11. r \in NodeState
    BY <1>1, FsmTransitType
  <1> HIDE DEF r, m
  <1>12. CASE n = Standby
    <2>1. WaitsToSend(n, t)
      BY <1>6, <1>7, <1>12 DEF WaitsToSend
    <2>2. r = t
      BY <1>10, <2>1, TurnIdle
    <2>3. Isolates(t)
      BY <1>6, <1>7, <1>12 DEF Isolates, Exchange
    <2> QED
      BY <1>6, <1>7, <1>8, <1>12, <2>1, <2>2, <2>3, NodeAssumption
         DEF Local, r, m
  <1>13. CASE n = Active
    <2>1. Exchange(t)
      BY <1>6, <1>7, <1>13 DEF Exchange
    <2>2. /\ Local(r) /\ Exchange(r) /\ r.pif = t.pif /\ Adds(t, r)
          /\ View(t, q \o t.out, v) => View(r, q \o r.out, v)
      BY <1>2, <1>7, <1>8, <1>10, <2>1, EnterExchange
    <2>3. r.out \in Seq(Update)
      <3> PICK d \in Seq(Update) : r.out = t.out \o d
        BY <2>2 DEF Adds
      <3>1. << >> \o d = d
        BY ConcatNil
      <3> QED  BY <1>7, <3>1
    <2>4. View(s, q, v) => View(r, q \o r.out, v)
      <3>1. q \o t.out = q
        BY <1>7, ConcatNil
      <3>2. View(s, q, v) => View(t, q, v)
        BY <1>7, ViewSame
      <3> QED  BY <2>2, <3>1, <3>2
    <2> QED
      BY <1>7, <1>11, <1>13, <2>2, <2>3, <2>4, NodeAssumption DEF r, m
  <1> QED
    BY <1>12, <1>13 DEF Node

\* An answer, and updates behind it.
LEMMA AnswerMore ==
  ASSUME NEW o \in Seq(Msg), Len(o) > 0, o[Len(o)] = "SYNC_DONE",
         \A i \in 1..(Len(o) - 1) : o[i] \in Early,
         NEW d \in Seq(Update)
  PROVE  Answer(o \o d) /\ o \o d # << >>
  <1> DEFINE q == o \o d
             k == Len(o)
  <1>1. Update \subseteq Msg
    BY DEF Update, Info, Msg
  <1>2. d \in Seq(Msg) /\ Len(d) \in Nat /\ k \in Nat
        /\ \A i \in 1..Len(d) : d[i] \in Update
    BY <1>1, SMT
  <1>3. /\ q \in Seq(Msg) /\ Len(q) = k + Len(d)
        /\ \A i \in 1..(k + Len(d)) : q[i] = IF i <= k THEN o[i] ELSE d[i - k]
    BY <1>2, ConcatParts
  <1> HIDE DEF q
  <1>4. DOMAIN q = 1..(k + Len(d))
    BY <1>3, SMT
  <1>5. k \in DOMAIN q /\ q[k] = "SYNC_DONE"
    BY <1>2, <1>3, <1>4, SMT
  <1>6. ASSUME NEW i \in DOMAIN q, i < k PROVE q[i] \in Early
    BY <1>2, <1>3, <1>4, <1>6, SMT
  <1>7. ASSUME NEW i \in DOMAIN q, i > k PROVE q[i] \in Update
    <2>1. i - k \in 1..Len(d) /\ ~(i <= k)
      BY <1>2, <1>4, <1>7, SMT
    <2> QED  BY <1>2, <1>3, <1>4, <2>1
  <1>8. q # << >>
    BY <1>2, <1>3, SMT
  <1> QED
    BY <1>5, <1>6, <1>7, <1>8 DEF Answer, q

\* The request of the peer arrives: the active peer answers and asks in its
\* turn, the standby peer answers and is in the exchange.
LEMMA TurnAsked ==
  ASSUME NEW n \in Node, NEW s \in NodeState, WaitsToSend(n, s),
         s.out = << >>, Local(s)
  PROVE  LET r == FsmTransit(n, s, "SYNC_REQ") IN
         /\ r \in NodeState /\ Local(r) /\ r.pif = s.pif
         /\ View(r, r.out, "none")
         /\ n = Active => /\ WaitsForData(n, r) /\ r.current_state = "STAGE2"
                          /\ AnswerAndRequest(r.out)
         /\ n = Standby => /\ Exchange(r)
                           /\ Answer(r.out) /\ r.out # << >>
  <1> DEFINE m == "SYNC_REQ"
             t == SendAllInfo(s)
             r == FsmTransit(n, s, m)
  <1>1. m # None /\ m \in Msg
    BY DEF None, Msg
  <1>2. /\ s.current_state \in {"STAGE1", "STAGE2"} /\ ~s.wait_for_sync_data
        /\ n = Standby => s.current_state = "STAGE2"
        /\ n = Active => s.current_state = "STAGE1"
    BY NodeAssumption DEF WaitsToSend
  <1>3. Base(s)
    BY DEF Local
  <1>4. /\ t \in NodeState /\ Base(t) /\ ~t.wait_for_sync_data
        /\ t.current_state = NextStage(s.current_state)
        /\ t.pif = s.pif
        /\ Len(t.out) > 0 /\ t.out[Len(t.out)] = "SYNC_DONE"
        /\ \A i \in 1..(Len(t.out) - 1) : t.out[i] \in Early
        /\ View(t, t.out, "none")
    BY <1>2, <1>3, SendAllInfoEffect
  <1>5. StageSyncSend(s, m) = t
    BY <1>2 DEF StageSyncSend
  <1> HIDE DEF t
  <1>6. Pass(n, s, m, s.current_state) = t
    BY <1>5, HandlerOf
  <1>7. r = Pass(n, t, None, s.current_state)
    BY <1>1, <1>6 DEF FsmTransit
  <1>8. r \in NodeState
    BY <1>1, FsmTransitType
  <1> DEFINE o == t.out
  <1>9. o \in Seq(Msg)
    BY <1>4 DEF NodeState
  <1> HIDE DEF r, m
  <1>10. CASE n = Standby
    <2>1. Exchange(t)
      BY <1>2, <1>4, <1>10 DEF Exchange, NextStage
    <2>2. << >> \in Seq(Msg)
      BY SMT
    <2>3. /\ Local(r) /\ Exchange(r) /\ r.pif = t.pif /\ Adds(t, r)
          /\ View(t, << >> \o t.out, "none") => View(r, << >> \o r.out, "none")
      BY <1>2, <1>4, <1>7, <2>1, <2>2, EnterExchange
    <2>4. r.out \in Seq(Msg)
      BY <1>8 DEF NodeState
    <2>5. << >> \o r.out = r.out /\ << >> \o t.out = t.out
      <3>1. \A x \in Seq(Msg) : << >> \o x = x
        BY ConcatNil
      <3> QED  BY <1>9, <2>4, <3>1
    <2>6. Answer(r.out) /\ r.out # << >>
      <3> PICK d \in Seq(Update) : r.out = o \o d
        BY <2>3 DEF Adds
      <3>1. Answer(o \o d) /\ o \o d # << >>
        BY <1>4, <1>9, AnswerMore
      <3> QED  BY <3>1
    <2> QED
      BY <1>4, <1>8, <1>10, <2>3, <2>5, <2>6, NodeAssumption DEF r, m
  <1>11. CASE n = Active
    <2> DEFINE w == [t EXCEPT !.wait_for_sync_data = TRUE]
               x == w.out \o <<"SYNC_REQ">>
               u == [w EXCEPT !.out = x]
    <2>1. t.current_state = "STAGE2"
      BY <1>2, <1>4, <1>11 DEF NextStage
    <2>2. StageSyncRequest(t, None) = u
      BY <1>4 DEF StageSyncRequest, Send
    <2>3. Pass(n, t, None, s.current_state) = u
      BY <1>11, <2>1, <2>2, PassStage, StageOf, SMT
    <2>4. /\ w \in NodeState
          /\ w.current_state = t.current_state /\ w.wait_for_sync_data
          /\ w.pif = t.pif /\ w.out = t.out /\ SameReport(t, w)
          /\ w.po_active = t.po_active /\ w.purge = t.purge
          /\ w.need_to_sync = t.need_to_sync /\ w.isolated = t.isolated
          /\ w.is_traffic_disable = t.is_traffic_disable
      BY <1>4 DEF NodeState, SameReport
    <2> HIDE DEF w
    <2>5. /\ u.current_state = w.current_state /\ u.wait_for_sync_data
          /\ u.pif = w.pif /\ u.out = x /\ SameReport(w, u)
          /\ u.po_active = w.po_active /\ u.purge = w.purge
          /\ u.need_to_sync = w.need_to_sync /\ u.isolated = w.isolated
          /\ u.is_traffic_disable = w.is_traffic_disable
      <3> HIDE DEF x
      <3> QED  BY <2>4 DEF NodeState, SameReport
    <2>6. r = u
      BY <1>7, <2>3
    <2> HIDE DEF u
    <2>7. SameReport(t, u)
      BY <2>4, <2>5 DEF SameReport
    <2>8. Local(u)
      BY <1>4, <2>1, <2>4, <2>5, <2>7
         DEF Local, Base, Isolates, SameReport, Exchange
    <2>9. WaitsForData(n, u)
      BY <1>11, <2>1, <2>4, <2>5 DEF WaitsForData
    <2>10. x = o \o <<"SYNC_REQ">>
      BY <2>4
    <2> HIDE DEF x, o
    <2>11. "SYNC_REQ" \in Msg /\ "SYNC_REQ" \notin Info
      BY DEF Msg, Info
    <2>12. View(u, x, "none")
      <3>1. View(t, o \o <<"SYNC_REQ">>, "none")
        BY <1>4, <1>9, <2>11, ViewOther DEF o
      <3> QED  BY <2>7, <2>10, <3>1, ViewSame
    <2>13. AnswerAndRequest(x)
      <3> DEFINE k == Len(o)
      <3>1. /\ k \in Nat /\ k > 0 /\ o[k] = "SYNC_DONE"
            /\ \A i \in 1..(k - 1) : o[i] \in Early
        BY <1>4, <1>9, SMT DEF o
      <3>2. /\ Len(x) = k + 1 /\ DOMAIN x = 1..(k + 1)
            /\ \A i \in 1..k : x[i] = o[i]
            /\ x[k + 1] = "SYNC_REQ"
        BY <1>9, <2>10, <2>11, Behind
      <3> HIDE DEF k
      <3>3. x[k] = "SYNC_DONE" /\ (k + 1) - 1 = k /\ (k + 1) - 2 = k - 1
        BY <3>1, <3>2, SMT
      <3>4. ASSUME NEW i \in 1..(k - 1) PROVE x[i] \in Early
        <4>1. i \in 1..k
          BY <3>1, SMT
        <4> QED  BY <3>1, <3>2, <4>1
      <3>5. Len(x) > 1
        BY <3>1, <3>2, SMT
      <3> QED
        BY <3>2, <3>3, <3>4, <3>5 DEF AnswerAndRequest
    <2>14. u.pif = s.pif /\ u.current_state = "STAGE2" /\ u.out = x
      BY <1>4, <2>1, <2>4, <2>5
    <2> QED
      BY <1>8, <1>11, <2>6, <2>8, <2>9, <2>12, <2>13, <2>14, NodeAssumption
         DEF r, m
  <1> QED
    BY <1>10, <1>11 DEF Node

\* A pass in the exchange.
LEMMA TurnExchange ==
  ASSUME NEW n \in Node, NEW s \in NodeState, Exchange(s), s.out = << >>,
         Local(s), NEW m \in Update \cup {None}, NEW q \in Seq(Msg), NEW v
  PROVE  LET r == FsmTransit(n, s, m) IN
         /\ r \in NodeState /\ Local(r) /\ Exchange(r)
         /\ r.pif = IF m = None THEN s.pif ELSE Takes(s.pif, m)
         /\ r.out \in Seq(Update)
         /\ r.bound => ~r.changed
         /\ View(s, q, v) => View(r, q \o r.out, v)
  <1> DEFINE t == ExchangeHandler(s, m)
             u == ExchangeHandler(t, None)
             r == FsmTransit(n, s, m)
  <1>1. s.current_state = "EXCHANGE" /\ None \in Update \cup {None}
    BY DEF Exchange
  <1>2. /\ t \in NodeState /\ Local(t) /\ Exchange(t)
        /\ t.pif = IF m = None THEN s.pif ELSE Takes(s.pif, m)
        /\ Adds(s, t)
        /\ t.bound => ~t.changed
        /\ View(s, q \o s.out, v) => View(t, q \o t.out, v)
    BY ExchangeEffect
  <1>3. Pass(n, s, m, s.current_state) = t
    BY <1>1 DEF Pass
  <1> HIDE DEF t
  <1>4. Pass(n, t, None, s.current_state) = u
    BY <1>2 DEF Pass, Exchange
  <1>5. /\ u \in NodeState /\ Local(u) /\ Exchange(u) /\ u.pif = t.pif
        /\ Adds(t, u)
        /\ u.bound => ~u.changed
        /\ View(t, q \o t.out, v) => View(u, q \o u.out, v)
    BY <1>2, ExchangeEffect
  <1> HIDE DEF u
  <1>6. r = IF m = None THEN t ELSE u
    BY <1>1, <1>3, <1>4 DEF FsmTransit
  <1>7. Adds(s, u)
    BY <1>2, <1>5, AddsTrans
  <1> HIDE DEF r
  <1>8. /\ r \in NodeState /\ Local(r) /\ Exchange(r)
        /\ r.pif = IF m = None THEN s.pif ELSE Takes(s.pif, m)
        /\ Adds(s, r)
        /\ r.bound => ~r.changed
        /\ View(s, q \o s.out, v) => View(r, q \o r.out, v)
    BY <1>2, <1>5, <1>6, <1>7
  <1>9. r.out \in Seq(Update)
    <2> PICK d \in Seq(Update) : r.out = s.out \o d
      BY <1>8 DEF Adds
    <2>1. << >> \o d = d
      BY ConcatNil
    <2> QED  BY <2>1
  <1>10. q \o s.out = q
    BY ConcatNil
  <1> QED
    BY <1>8, <1>9, <1>10 DEF r

-----------------------------------------------------------------------------
(* What a step does to the queues.                                         *)

\* The first message of an answer.
LEMMA AnswerRest ==
  ASSUME NEW q \in Seq(Msg), Answer(q)
  PROVE  /\ q # << >>
         /\ \/ Head(q) = "SYNC_DONE" /\ Tail(q) \in Seq(Update)
            \/ Head(q) \in Early /\ Answer(Tail(q)) /\ Tail(q) # << >>
  <1> PICK k \in DOMAIN q :
        /\ q[k] = "SYNC_DONE"
        /\ \A i \in DOMAIN q : /\ i < k => q[i] \in Early
                               /\ i > k => q[i] \in Update
    BY DEF Answer
  <1>1. q # << >>
    BY SMT
  <1> DEFINE t == Tail(q)
             n == Len(q)
  <1>2. /\ Head(q) = q[1] /\ n \in Nat /\ n > 0 /\ Len(t) = n - 1
        /\ DOMAIN q = 1..n /\ DOMAIN t = 1..(n - 1) /\ t \in Seq(Msg)
        /\ \A i \in 1..(n - 1) : t[i] = q[i + 1]
    BY <1>1, Rest
  <1> HIDE DEF t, n
  <1>3. CASE k = 1
    <2>1. \A i \in 1..(n - 1) : t[i] \in Update
      <3> SUFFICES ASSUME NEW i \in 1..(n - 1) PROVE t[i] \in Update
        OBVIOUS
      <3>1. i + 1 \in DOMAIN q /\ i + 1 > k
        BY <1>2, <1>3, SMT
      <3> QED  BY <1>2, <3>1
    <2>2. t \in Seq(Update)
      BY <1>2, <2>1, SMT
    <2> QED
      BY <1>1, <1>2, <1>3, <2>2 DEF t
  <1>4. CASE k # 1
    <2>1. 1 \in DOMAIN q /\ 1 < k
      BY <1>2, <1>4, SMT
    <2> DEFINE j == k - 1
    <2>2. j \in DOMAIN t /\ t[j] = q[j + 1] /\ j + 1 = k /\ j \in Nat
      BY <1>2, <1>4, SMT
    <2> HIDE DEF j
    <2>3. ASSUME NEW i \in DOMAIN t
          PROVE  /\ i < j => t[i] \in Early
                 /\ i > j => t[i] \in Update
      <3>1. i + 1 \in DOMAIN q /\ t[i] = q[i + 1]
        BY <1>2, SMT
      <3>2. (i < j => i + 1 < k) /\ (i > j => i + 1 > k)
        BY <1>2, <2>2, SMT
      <3> QED  BY <3>1, <3>2
    <2>4. Answer(t)
      BY <2>2, <2>3 DEF Answer
    <2>5. t # << >>
      BY <2>2, SMT
    <2> QED
      BY <1>1, <1>2, <2>1, <2>4, <2>5 DEF t
  <1> QED
    BY <1>3, <1>4

\* The first message of an answer that a request follows.
LEMMA AnswerAndRequestRest ==
  ASSUME NEW q \in Seq(Msg), AnswerAndRequest(q)
  PROVE  /\ q # << >>
         /\ \/ Head(q) = "SYNC_DONE" /\ Tail(q) = <<"SYNC_REQ">>
            \/ Head(q) \in Early /\ AnswerAndRequest(Tail(q)) /\ Tail(q) # << >>
  <1>1. q # << >>
    BY SMT DEF AnswerAndRequest
  <1> DEFINE t == Tail(q)
             n == Len(q)
  <1>2. /\ Head(q) = q[1] /\ n \in Nat /\ n > 1 /\ Len(t) = n - 1
        /\ t \in Seq(Msg)
        /\ \A i \in 1..(n - 1) : t[i] = q[i + 1]
        /\ q[n] = "SYNC_REQ" /\ q[n - 1] = "SYNC_DONE"
        /\ \A i \in 1..(n - 2) : q[i] \in Early
    BY <1>1, Rest DEF AnswerAndRequest
  <1> HIDE DEF t, n
  <1>3. t # << >>
    BY <1>2, SMT
  <1>4. CASE n = 2
    <2>1. Len(t) = 1 /\ t[1] = "SYNC_REQ"
      BY <1>2, <1>4, SMT
    <2>2. t = <<"SYNC_REQ">>
      <3> DEFINE u == <<"SYNC_REQ">>
      <3>1. u \in Seq(Msg) /\ Len(u) = 1 /\ u[1] = "SYNC_REQ"
        BY SMT DEF Msg
      <3> HIDE DEF u
      <3>2. \A i \in 1..Len(t) : t[i] = u[i]
        BY <2>1, <3>1, SMT
      <3>3. t = u
        BY <1>2, <2>1, <3>1, <3>2, SameSeq
      <3> QED  BY <3>3 DEF u
    <2>3. q[1] = "SYNC_DONE"
      BY <1>2, <1>4, SMT
    <2> QED
      BY <1>1, <1>2, <2>2, <2>3 DEF t
  <1>5. CASE n > 2
    <2>1. Head(q) \in Early
      BY <1>2, <1>5, SMT
    <2>2. /\ Len(t) > 1
          /\ Len(t) \in 1..(n - 1) /\ Len(t) + 1 = n
          /\ Len(t) - 1 \in 1..(n - 1) /\ (Len(t) - 1) + 1 = n - 1
      BY <1>2, <1>5, SMT
    <2>3. t[Len(t)] = "SYNC_REQ" /\ t[Len(t) - 1] = "SYNC_DONE"
      BY <1>2, <2>2
    <2>4. ASSUME NEW i \in 1..(Len(t) - 2) PROVE t[i] \in Early
      <3>1. i \in 1..(n - 1) /\ i + 1 \in 1..(n - 2)
        BY <1>2, SMT
      <3> QED  BY <1>2, <3>1
    <2>5. AnswerAndRequest(t)
      BY <2>2, <2>3, <2>4 DEF AnswerAndRequest
    <2> QED
      BY <1>1, <1>3, <2>1, <2>5 DEF t
  <1> QED
    BY <1>2, <1>4, <1>5, SMT

\* Updates behind updates, and behind an answer.
LEMMA UpdatesBehind ==
  ASSUME NEW q \in Seq(Msg), NEW d \in Seq(Update)
  PROVE  /\ q \in Seq(Update) => q \o d \in Seq(Update)
         /\ Answer(q) => Answer(q \o d)
  <1>1. q \in Seq(Update) => q \o d \in Seq(Update)
    BY ConcatParts
  <1>2. ASSUME Answer(q) PROVE Answer(q \o d)
    <2> PICK k \in DOMAIN q :
          /\ q[k] = "SYNC_DONE"
          /\ \A i \in DOMAIN q : /\ i < k => q[i] \in Early
                                 /\ i > k => q[i] \in Update
      BY <1>2 DEF Answer
    <2> DEFINE t == q \o d
               n == Len(q)
    <2>1. Update \subseteq Msg
      BY DEF Update, Info, Msg
    <2>2. d \in Seq(Msg) /\ Len(d) \in Nat /\ n \in Nat /\ DOMAIN q = 1..n
          /\ \A i \in 1..Len(d) : d[i] \in Update
      BY <2>1, SMT
    <2>3. /\ t \in Seq(Msg) /\ Len(t) = n + Len(d)
          /\ \A i \in 1..(n + Len(d)) : t[i] = IF i <= n THEN q[i] ELSE d[i - n]
      BY <2>2, ConcatParts
    <2> HIDE DEF t
    <2>4. DOMAIN t = 1..(n + Len(d))
      BY <2>3, SMT
    <2> HIDE DEF n
    <2>5. \A i \in 1..n : i \in DOMAIN t /\ t[i] = q[i]
      BY <2>2, <2>3, <2>4, SMT
    <2>6. ASSUME NEW i \in DOMAIN t
          PROVE  /\ i < k => t[i] \in Early
                 /\ i > k => t[i] \in Update
      <3>1. CASE i \in 1..n
        BY <2>2, <2>5, <3>1
      <3>2. CASE i \notin 1..n
        <4>1. i - n \in 1..Len(d) /\ ~(i <= n) /\ i > k
          BY <2>2, <2>4, <3>2, SMT
        <4>2. t[i] = d[i - n]
          BY <2>3, <2>4, <4>1
        <4> QED  BY <2>2, <2>4, <4>1, <4>2, SMT
      <3> QED  BY <3>1, <3>2
    <2>7. k \in DOMAIN t /\ t[k] = "SYNC_DONE"
      BY <2>2, <2>5
    <2> QED
      BY <2>6, <2>7 DEF Answer, t
  <1> QED
    BY <1>1, <1>2

-----------------------------------------------------------------------------
(* A step keeps the invariant.                                             *)

\* s and t differ at most in what the handler has written.
SameNode(s, t) ==
  /\ t.current_state = s.current_state
  /\ t.wait_for_sync_data = s.wait_for_sync_data
  /\ t.need_to_sync = s.need_to_sync
  /\ t.purge = s.purge
  /\ t.bound = s.bound
  /\ t.state = s.state
  /\ t.po_active = s.po_active
  /\ t.changed = s.changed
  /\ t.port_config_sync = s.port_config_sync
  /\ t.is_traffic_disable = s.is_traffic_disable
  /\ t.isolated = s.isolated
  /\ t.pif = s.pif

\* What the handler has written does not matter between handlers.
LEMMA SameNodeKeeps ==
  ASSUME NEW s, NEW t, SameNode(s, t)
  PROVE  /\ Local(s) => Local(t)
         /\ SameReport(s, t)
         /\ \A n, q : Queue(n, s, q) => Queue(n, t, q)
         /\ \A n : WaitsToSend(n, s) => WaitsToSend(n, t)
         /\ \A n : WaitsForData(n, s) => WaitsForData(n, t)
         /\ \A q, v : View(s, q, v) => View(t, q, v)
  <1>1. Local(s) => Local(t)
    BY DEF SameNode, Local, Base, Isolates, Exchange
  <1>2. SameReport(s, t)
    BY DEF SameNode, SameReport
  <1>3. \A n, q : Queue(n, s, q) => Queue(n, t, q)
    BY DEF SameNode, Queue
  <1>4. \A n : /\ WaitsToSend(n, s) => WaitsToSend(n, t)
               /\ WaitsForData(n, s) => WaitsForData(n, t)
    BY DEF SameNode, WaitsToSend, WaitsForData
  <1>5. \A q, v : View(s, q, v) => View(t, q, v)
    BY <1>2, ViewSame
  <1> QED
    BY <1>1, <1>2, <1>3, <1>4, <1>5

\* What Commit leaves.
LEMMA CommitEffect ==
  ASSUME TypeOK, NEW n \in Node, NEW s \in NodeState,
         NEW ch \in [Node -> Seq(Msg)], Commit(n, s, ch)
  PROVE  /\ node'[n].out = << >> /\ SameNode(s, node'[n])
         /\ Peer(n) \in Node /\ Peer(n) # n /\ node'[Peer(n)] = node[Peer(n)]
         /\ chan'[n] = ch[n]
         /\ Peer(n) \in inst' => chan'[Peer(n)] = ch[Peer(n)] \o s.out
         /\ Peer(n) \notin inst' => chan'[Peer(n)] = ch[Peer(n)]
  <1> DEFINE t == [s EXCEPT !.out = << >>]
             p == Peer(n)
             o == ch[p] \o s.out
  <1>1. t.out = << >> /\ SameNode(s, t)
    BY DEF NodeState, SameNode
  <1>2. p \in Node /\ p # n
    BY NodeAssumption, SMT DEF Peer, Node
  <1> HIDE DEF t, p
  <1>3. node' = [node EXCEPT ![n] = t]
    BY DEF Commit, t
  <1>4. node'[n] = t /\ node'[p] = node[p]
    BY <1>2, <1>3 DEF TypeOK
  <1>5. chan' = IF p \in inst' THEN [ch EXCEPT ![p] = o] ELSE ch
    BY DEF Commit, p
  <1> HIDE DEF o
  <1>6. /\ chan'[n] = ch[n]
        /\ p \in inst' => chan'[p] = o
        /\ p \notin inst' => chan'[p] = ch[p]
    BY <1>2, <1>5
  <1> QED
    BY <1>1, <1>2, <1>4, <1>6 DEF p, o

\* Who the peer is.
LEMMA Peers ==
  /\ Peer(Active) = Standby /\ Peer(Standby) = Active
  /\ \A n \in Node : /\ Peer(n) \in Node /\ Peer(n) # n
                     /\ Peer(Peer(n)) = n /\ Node = {n, Peer(n)}
  BY NodeAssumption, SMT DEF Peer, Node

\* The phases after a pass of n, from what they are for n and, if both are up,
\* for its peer.
LEMMA PassPhase ==
  ASSUME TypeOK, SyncInv, NEW n \in up, UNCHANGED <<up, inst, left>>,
         ~(inst = Node /\ up = {n}),
         node'[Peer(n)] = node[Peer(n)],
         Peer(n) \notin inst => chan'[Peer(n)] = chan[Peer(n)],
         Queue(n, node'[n], chan'[n]),
         up = Node => /\ Queue(Peer(n), node[Peer(n)], chan'[Peer(n)])
                      /\ Joint(node'[Active], node'[Standby],
                               chan'[Active], chan'[Standby])
  PROVE  Phase'
  <1>1. n \in Node /\ Peer(n) \in Node /\ Peer(n) # n /\ Node = {n, Peer(n)}
    BY Peers DEF TypeOK
  <1>2. up \subseteq Node /\ up \subseteq inst /\ inst \subseteq Node
    BY DEF TypeOK, SyncInv, Phase
  <1>5. ASSUME NEW p \in Node, p \notin up
        PROVE  node'[p].current_state = "INIT" /\ node'[p].pif = "none"
    <2>1. p = Peer(n)
      BY <1>1, <1>5
    <2> QED  BY <1>5, <2>1 DEF SyncInv, Phase
  <1>6. ASSUME NEW p \in Node, p \notin inst
        PROVE  chan'[p] = << >>
    <2>1. p = Peer(n)
      BY <1>1, <1>2, <1>6
    <2> QED  BY <1>6, <2>1 DEF SyncInv, Phase
  <1>7. ASSUME NEW p \in up PROVE Queue(p, node'[p], chan'[p])
    <2>1. CASE p = n
      BY <2>1
    <2>2. CASE p # n
      <3>1. p = Peer(n) /\ up = Node
        BY <1>1, <1>2, <2>2
      <3> QED  BY <3>1
    <2> QED  BY <2>2
  <1>8. ~(inst = Node /\ up = {Active}) /\ ~(inst = Node /\ up = {Standby})
    BY NodeAssumption DEF Node
  <1> QED
    BY <1>2, <1>5, <1>6, <1>7, <1>8 DEF Phase

\* The view of each node after a pass of n.
LEMMA PassViews ==
  ASSUME NEW n \in Node, UNCHANGED up,
         node'[Peer(n)] = node[Peer(n)],
         up = Node /\ HasSent(n, node'[n]) =>
           View(node'[n], chan'[Peer(n)], node[Peer(n)].pif),
         up = Node /\ HasSent(Peer(n), node[Peer(n)]) =>
           View(node[Peer(n)], chan'[n], node'[n].pif)
  PROVE  Views'
  <1>1. Peer(n) \in Node /\ Peer(Peer(n)) = n /\ Node = {n, Peer(n)}
    BY Peers
  <1> SUFFICES ASSUME up' = Node, NEW p \in Node, HasSent(p, node'[p])
               PROVE  View(node'[p], chan'[Peer(p)], node'[Peer(p)].pif)
    BY DEF Views, Peer, Node
  <1>2. CASE p = n
    BY <1>2
  <1>3. CASE p = Peer(n)
    BY <1>1
  <1> QED
    BY <1>1, <1>3

\* A pass of n that takes its node to r and its queue to t keeps the invariant
\* if the stages, the queues and the views fit together afterwards.
LEMMA PassKeeps ==
  ASSUME TypeOK, SyncInv, NEW n \in up, UNCHANGED <<up, inst, left>>,
         NEW r \in NodeState, NEW t \in Seq(Msg),
         Commit(n, r, [chan EXCEPT ![n] = t]), Local(r),
         ~(inst = Node /\ up = {n}), Queue(n, r, t),
         up = Node =>
           /\ Queue(Peer(n), node[Peer(n)], chan[Peer(n)] \o r.out)
           /\ n = Active =>
                Joint(r, node[Standby], t, chan[Standby] \o r.out)
           /\ n = Standby =>
                Joint(node[Active], r, chan[Active] \o r.out, t)
           /\ HasSent(n, r) =>
                View(r, chan[Peer(n)] \o r.out, node[Peer(n)].pif)
           /\ HasSent(Peer(n), node[Peer(n)]) =>
                View(node[Peer(n)], t, r.pif)
  PROVE  SyncInv'
  <1> DEFINE p == Peer(n)
             u == node'[n]
             ch == [chan EXCEPT ![n] = t]
  <1>1. n \in Node /\ p \in Node /\ p # n /\ Node = {n, p}
    BY Peers DEF TypeOK
  <1>2. ch \in [Node -> Seq(Msg)] /\ ch[n] = t /\ ch[p] = chan[p]
    BY <1>1 DEF TypeOK
  <1>3. /\ u.out = << >> /\ SameNode(r, u) /\ node'[p] = node[p]
        /\ chan'[n] = t
        /\ p \in inst => chan'[p] = chan[p] \o r.out
        /\ p \notin inst => chan'[p] = chan[p]
    <2>1. Commit(n, r, ch)
      OBVIOUS
    <2> HIDE DEF ch
    <2>2. /\ node'[n].out = << >> /\ SameNode(r, node'[n])
          /\ node'[Peer(n)] = node[Peer(n)]
          /\ chan'[n] = ch[n]
          /\ Peer(n) \in inst' => chan'[Peer(n)] = ch[Peer(n)] \o r.out
          /\ Peer(n) \notin inst' => chan'[Peer(n)] = ch[Peer(n)]
      BY <1>1, <1>2, <2>1, CommitEffect
    <2> QED  BY <1>2, <2>2
  <1> HIDE DEF u
  <1>4. /\ Local(u)
        /\ \A m, q : Queue(m, r, q) => Queue(m, u, q)
        /\ \A q, v : View(r, q, v) => View(u, q, v)
    BY <1>3, SameNodeKeeps
  <1>5. up = Node => p \in inst
    BY <1>1 DEF SyncInv, Phase
  <1>6. u.current_state = r.current_state /\ u.pif = r.pif
    BY <1>3 DEF SameNode
  <1>7. up = Node => Joint(node'[Active], node'[Standby],
                           chan'[Active], chan'[Standby])
    <2> SUFFICES ASSUME up = Node
                 PROVE  Joint(node'[Active], node'[Standby],
                              chan'[Active], chan'[Standby])
      OBVIOUS
    <2>1. CASE n = Active
      <3>1. /\ p = Standby /\ node'[Active] = u /\ node'[Standby] = node[Standby]
            /\ chan'[Active] = t /\ chan'[Standby] = chan[Standby] \o r.out
        BY <1>3, <1>5, <2>1, Peers DEF u
      <3>2. Joint(r, node[Standby], t, chan[Standby] \o r.out)
        BY <2>1
      <3>3. Joint(u, node[Standby], t, chan[Standby] \o r.out)
        BY <1>6, <3>2 DEF Joint
      <3> QED  BY <3>1, <3>3
    <2>2. CASE n = Standby
      <3>1. /\ p = Active /\ node'[Standby] = u /\ node'[Active] = node[Active]
            /\ chan'[Standby] = t /\ chan'[Active] = chan[Active] \o r.out
        BY <1>3, <1>5, <2>2, Peers DEF u
      <3>2. Joint(node[Active], r, chan[Active] \o r.out, t)
        BY <2>2
      <3>3. Joint(node[Active], u, chan[Active] \o r.out, t)
        BY <1>6, <3>2 DEF Joint
      <3> QED  BY <3>1, <3>3
    <2> QED  BY <2>1, <2>2 DEF Node
  <1>8. Queue(n, u, chan'[n])
    BY <1>3, <1>4
  <1>9. up = Node => Queue(p, node[p], chan'[p])
    BY <1>3, <1>5
  <1>10. Phase'
    BY <1>3, <1>7, <1>8, <1>9, PassPhase DEF u
  <1>11. up = Node /\ HasSent(n, u) => View(u, chan'[p], node[p].pif)
    <2>1. HasSent(n, u) => HasSent(n, r)
      BY <1>6 DEF HasSent, Exchange
    <2> QED  BY <1>3, <1>4, <1>5, <2>1
  <1>12. up = Node /\ HasSent(p, node[p]) => View(node[p], chan'[n], u.pif)
    BY <1>3, <1>6
  <1>13. Views'
    BY <1>1, <1>3, <1>11, <1>12, PassViews DEF u
  <1>14. \A m \in Node : Local(node'[m]) /\ node'[m].out = << >>
    BY <1>1, <1>3, <1>4 DEF SyncInv, u
  <1> QED
    BY <1>10, <1>13, <1>14 DEF SyncInv

\* A pass that does nothing.
LEMMA PassIdle ==
  ASSUME TypeOK, SyncInv, NEW n \in up, UNCHANGED <<up, inst, left>>,
         Commit(n, node[n], chan)
  PROVE  SyncInv'
  <1> DEFINE p == Peer(n)
  <1>1. n \in Node /\ p \in Node /\ p # n /\ node[n] \in NodeState
        /\ chan \in [Node -> Seq(Msg)] /\ chan[p] \in Seq(Msg)
    BY Peers DEF TypeOK
  <1>2. node[n].out = << >>
    BY <1>1 DEF SyncInv
  <1>3. [node[n] EXCEPT !.out = << >>] = node[n]
    BY <1>1, <1>2 DEF NodeState
  <1>4. node' = node
    BY <1>3 DEF Commit, TypeOK
  <1>5. chan[p] \o node[n].out = chan[p]
    BY <1>1, <1>2, ConcatNil
  <1>6. [chan EXCEPT ![p] = chan[p]] = chan
    BY <1>1
  <1>7. chan' = chan
    BY <1>5, <1>6 DEF Commit, p
  <1> QED
    BY <1>4, <1>7 DEF SyncInv, Phase, Views

\* A node that has a message, or is in the exchange, has been joined by its
\* peer or left by it.
LEMMA NotAlone ==
  ASSUME SyncInv, NEW n \in Node, chan[n] # << >> \/ Exchange(node[n])
  PROVE  ~(inst = Node /\ up = {n})
  <1>1. inst = Node /\ up = {n} =>
          node[n].current_state = "STAGE1" /\ chan[n] = << >>
    BY DEF SyncInv, Phase, Node
  <1> QED
    BY <1>1 DEF Exchange

\* The view of n after it has handled the head of its queue.
LEMMA ViewTaken ==
  ASSUME TypeOK, SyncInv, NEW n \in Node, chan[n] # << >>, up = Node,
         HasSent(Peer(n), node[Peer(n)])
  PROVE  View(node[Peer(n)], Tail(chan[n]), Takes(node[n].pif, Head(chan[n])))
  <1> DEFINE p == Peer(n)
             v == node[n].pif
  <1>1. p \in Node /\ Peer(p) = n /\ chan[n] \in Seq(Msg)
        /\ node[n] \in NodeState
    BY Peers DEF TypeOK
  <1>2. v \in {"none", "up", "down"}
    BY <1>1 DEF NodeState
  <1>3. View(node[p], chan[n], v)
    BY <1>1 DEF SyncInv, Views
  <1> HIDE DEF v
  <1> QED
    BY <1>1, <1>2, <1>3, ViewRest DEF v

\* The facts about a node that is up, and about both if both are.
LEMMA UpFacts ==
  ASSUME TypeOK, SyncInv, NEW n \in up
  PROVE  /\ n \in Node /\ node[n] \in NodeState /\ chan[n] \in Seq(Msg)
         /\ chan[Peer(n)] \in Seq(Msg)
         /\ Local(node[n]) /\ node[n].out = << >>
         /\ Queue(n, node[n], chan[n])
         /\ up = Node =>
              /\ Queue(Peer(n), node[Peer(n)], chan[Peer(n)])
              /\ Joint(node[Active], node[Standby],
                       chan[Active], chan[Standby])
              /\ HasSent(n, node[n]) =>
                   View(node[n], chan[Peer(n)], node[Peer(n)].pif)
  <1>1. n \in Node /\ Peer(n) \in Node
    BY Peers DEF TypeOK
  <1>2. node[n] \in NodeState /\ chan[n] \in Seq(Msg) /\ chan[Peer(n)] \in Seq(Msg)
    BY <1>1 DEF TypeOK
  <1>3. Local(node[n]) /\ node[n].out = << >>
    BY <1>1 DEF SyncInv
  <1>4. /\ Queue(n, node[n], chan[n])
        /\ up = Node => /\ Queue(Peer(n), node[Peer(n)], chan[Peer(n)])
                        /\ Joint(node[Active], node[Standby],
                                 chan[Active], chan[Standby])
    BY <1>1 DEF SyncInv, Phase
  <1>5. up = Node /\ HasSent(n, node[n]) =>
          View(node[n], chan[Peer(n)], node[Peer(n)].pif)
    BY DEF SyncInv, Views
  <1> QED
    BY <1>1, <1>2, <1>3, <1>4, <1>5

\* A message of the answer is handled.
LEMMA TransitData ==
  ASSUME TypeOK, SyncInv, NEW n \in up, UNCHANGED <<up, inst, left>>,
         WaitsForData(n, node[n]), chan[n] # << >>, Head(chan[n]) \in Early,
         Commit(n, FsmTransit(n, node[n], Head(chan[n])),
                [chan EXCEPT ![n] = Tail(chan[n])])
  PROVE  SyncInv'
  <1> DEFINE s == node[n]
             q == chan[n]
             t == Tail(q)
             m == Head(q)
             p == Peer(n)
             r == FsmTransit(n, s, m)
  <1>1. /\ n \in Node /\ s \in NodeState /\ q \in Seq(Msg)
        /\ chan[p] \in Seq(Msg) /\ Local(s) /\ s.out = << >>
        /\ Queue(n, s, q)
        /\ up = Node =>
             /\ Queue(p, node[p], chan[p])
             /\ Joint(node[Active], node[Standby], chan[Active], chan[Standby])
             /\ HasSent(n, s) => View(s, chan[p], node[p].pif)
    BY UpFacts
  <1>2. /\ r \in NodeState /\ Local(r) /\ WaitsForData(n, r)
        /\ r.current_state = s.current_state
        /\ r.out = << >> /\ r.pif = Takes(s.pif, m) /\ SameReport(s, r)
    BY <1>1, TurnData
  <1>3. t \in Seq(Msg)
    BY <1>1, Rest
  <1>4. ~(inst = Node /\ up = {n})
    BY <1>1, NotAlone
  <1>5. chan[p] \o r.out = chan[p]
    BY <1>1, <1>2, ConcatNil
  <1>6. up = Node /\ HasSent(p, node[p]) => View(node[p], t, r.pif)
    BY <1>2, ViewTaken
  <1>7. up = Node /\ HasSent(n, r) => View(r, chan[p] \o r.out, node[p].pif)
    <2>1. HasSent(n, r) => HasSent(n, s)
      BY <1>2 DEF HasSent, Exchange
    <2> QED  BY <1>1, <1>2, <1>5, <2>1, ViewSame
  <1>8. Commit(n, r, [chan EXCEPT ![n] = t])
    OBVIOUS
  <1>9. m # "SYNC_DONE"
    BY DEF Early, Info
  <1>10. CASE n = Active
    <2>1. s.current_state = "STAGE2" /\ Answer(q)
      BY <1>1, <1>10, NodeAssumption DEF Queue, WaitsForData
    <2>2. Answer(t) /\ t # << >>
      BY <1>1, <1>9, <2>1, AnswerRest
    <2>3. Queue(n, r, t)
      BY <1>2, <2>1, <2>2 DEF Queue, WaitsForData
    <2>4. up = Node => Joint(r, node[Standby], t, chan[Standby] \o r.out)
      <3>1. p = Standby
        BY <1>10, Peers
      <3> HIDE DEF r, t
      <3> QED  BY <1>1, <1>2, <1>5, <1>10, <2>1, <2>2, <3>1 DEF Joint
    <2> HIDE DEF r, t
    <2> QED
      BY <1>1, <1>2, <1>3, <1>4, <1>5, <1>6, <1>7, <1>8, <1>10, <2>3, <2>4,
         PassKeeps, NodeAssumption
  <1>11. CASE n = Standby
    <2>1. s.current_state = "STAGE1" /\ AnswerAndRequest(q)
      BY <1>1, <1>11, NodeAssumption DEF Queue, WaitsForData
    <2>2. AnswerAndRequest(t) /\ t # << >>
      BY <1>1, <1>9, <2>1, AnswerAndRequestRest
    <2>3. Queue(n, r, t)
      BY <1>2, <2>1, <2>2 DEF Queue, WaitsForData
    <2>4. up = Node => Joint(node[Active], r, chan[Active] \o r.out, t)
      <3>1. p = Active
        BY <1>11, Peers
      <3>2. q # << >> /\ chan[Standby] = q /\ node[Standby] = s
        BY <1>11
      <3> HIDE DEF r, t, q, s
      <3> QED  BY <1>1, <1>2, <1>5, <2>1, <2>2, <3>1, <3>2 DEF Joint
    <2> HIDE DEF r, t
    <2> QED
      BY <1>1, <1>2, <1>3, <1>4, <1>5, <1>6, <1>7, <1>8, <1>11, <2>3, <2>4,
         PassKeeps, NodeAssumption
  <1> QED
    BY <1>1, <1>10, <1>11 DEF Node

\* The end of the answer is handled.
LEMMA TransitDone ==
  ASSUME TypeOK, SyncInv, NEW n \in up, UNCHANGED <<up, inst, left>>,
         WaitsForData(n, node[n]), chan[n] # << >>,
         Head(chan[n]) = "SYNC_DONE",
         Commit(n, FsmTransit(n, node[n], Head(chan[n])),
                [chan EXCEPT ![n] = Tail(chan[n])])
  PROVE  SyncInv'
  <1> DEFINE s == node[n]
             q == chan[n]
             t == Tail(q)
             p == Peer(n)
             v == node[p].pif
             r == FsmTransit(n, s, "SYNC_DONE")
  <1>1. /\ n \in Node /\ s \in NodeState /\ q \in Seq(Msg)
        /\ chan[p] \in Seq(Msg) /\ Local(s) /\ s.out = << >>
        /\ Queue(n, s, q)
        /\ up = Node =>
             /\ Queue(p, node[p], chan[p])
             /\ Joint(node[Active], node[Standby], chan[Active], chan[Standby])
             /\ HasSent(n, s) => View(s, chan[p], v)
    BY UpFacts
  <1>2. /\ r \in NodeState /\ Local(r) /\ r.pif = s.pif
        /\ n = Standby => /\ WaitsToSend(n, r) /\ r.current_state = "STAGE2"
                          /\ r.out = << >>
        /\ n = Active => /\ Exchange(r) /\ r.out \in Seq(Update)
                         /\ View(s, chan[p], v) => View(r, chan[p] \o r.out, v)
    BY <1>1, TurnDone
  <1>3. t \in Seq(Msg)
    BY <1>1, Rest
  <1>4. ~(inst = Node /\ up = {n})
    BY <1>1, NotAlone
  <1>5. up = Node /\ HasSent(p, node[p]) => View(node[p], t, r.pif)
    <2>1. Takes(s.pif, "SYNC_DONE") = s.pif
      BY DEF Takes
    <2> QED  BY <1>2, <2>1, ViewTaken
  <1>6. Commit(n, r, [chan EXCEPT ![n] = t])
    OBVIOUS
  <1>7. "SYNC_DONE" \notin Early
    BY DEF Early, Info
  <1> HIDE DEF v
  <1>8. CASE n = Active
    <2>1. s.current_state = "STAGE2" /\ Answer(q)
      BY <1>1, <1>8, NodeAssumption DEF Queue, WaitsForData
    <2>2. t \in Seq(Update)
      BY <1>1, <1>7, <2>1, AnswerRest
    <2>3. Queue(n, r, t)
      BY <1>2, <1>8, <2>2 DEF Queue, Exchange
    <2>4. p = Standby /\ node[Active] = s /\ chan[Active] = q /\ q # << >>
      BY <1>8, Peers
    <2> HIDE DEF r, t, s, q
    <2>5. up = Node => Exchange(node[p]) /\ chan[p] = << >>
      BY <1>1, <2>1, <2>4 DEF Joint, Exchange
    <2>6. up = Node => Queue(p, node[p], chan[p] \o r.out)
      <3>1. << >> \o r.out = r.out
        BY <1>2, <1>8, ConcatNil
      <3> QED  BY <1>2, <1>8, <2>5, <3>1 DEF Queue, Exchange
    <2>7. up = Node => Joint(r, node[Standby], t, chan[Standby] \o r.out)
      BY <1>2, <1>8, <2>4, <2>5 DEF Joint, Exchange
    <2>8. up = Node => View(r, chan[p] \o r.out, v)
      BY <1>1, <1>2, <1>8, <2>1 DEF HasSent
    <2> QED
      BY <1>2, <1>3, <1>4, <1>5, <1>6, <1>8, <2>3, <2>6, <2>7, <2>8,
         PassKeeps, NodeAssumption
         DEF v
  <1>9. CASE n = Standby
    <2>1. s.current_state = "STAGE1" /\ AnswerAndRequest(q)
      BY <1>1, <1>9, NodeAssumption DEF Queue, WaitsForData
    <2>2. t = <<"SYNC_REQ">>
      BY <1>1, <1>7, <2>1, AnswerAndRequestRest
    <2>3. Queue(n, r, t)
      BY <1>2, <1>9, <2>2 DEF Queue, WaitsToSend
    <2>4. p = Active /\ node[Standby] = s /\ chan[Standby] = q /\ q # << >>
      BY <1>9, Peers
    <2>5. t # << >>
      BY <2>2, SMT
    <2> HIDE DEF r, t, s, q
    <2>6. chan[p] \o r.out = chan[p]
      BY <1>1, <1>2, <1>9, ConcatNil
    <2>7. up = Node => Joint(node[Active], r, chan[Active] \o r.out, t)
      BY <1>1, <1>2, <1>9, <2>1, <2>4, <2>5, <2>6 DEF Joint
    <2>8. ~HasSent(n, r)
      BY <1>2, <1>9, NodeAssumption DEF HasSent, Exchange
    <2> QED
      BY <1>1, <1>2, <1>3, <1>4, <1>5, <1>6, <1>9, <2>3, <2>6, <2>7, <2>8,
         PassKeeps, NodeAssumption
  <1> QED
    BY <1>1, <1>8, <1>9 DEF Node

\* The request of the peer is handled.
LEMMA TransitAsked ==
  ASSUME TypeOK, SyncInv, NEW n \in up, UNCHANGED <<up, inst, left>>,
         WaitsToSend(n, node[n]), chan[n] = <<"SYNC_REQ">>,
         Commit(n, FsmTransit(n, node[n], Head(chan[n])),
                [chan EXCEPT ![n] = Tail(chan[n])])
  PROVE  SyncInv'
  <1> DEFINE s == node[n]
             q == chan[n]
             p == Peer(n)
             v == node[p].pif
             r == FsmTransit(n, s, "SYNC_REQ")
             t == << >>
  <1>1. /\ n \in Node /\ s \in NodeState /\ q \in Seq(Msg)
        /\ chan[p] \in Seq(Msg) /\ Local(s) /\ s.out = << >>
        /\ Queue(n, s, q)
        /\ up = Node =>
             /\ Queue(p, node[p], chan[p])
             /\ Joint(node[Active], node[Standby], chan[Active], chan[Standby])
             /\ HasSent(n, s) => View(s, chan[p], v)
    BY UpFacts
  <1>2. q # << >> /\ Head(q) = "SYNC_REQ" /\ Tail(q) = t
    BY SMT
  <1>3. /\ r \in NodeState /\ Local(r) /\ r.pif = s.pif
        /\ View(r, r.out, "none")
        /\ n = Active => /\ WaitsForData(n, r) /\ r.current_state = "STAGE2"
                         /\ AnswerAndRequest(r.out)
        /\ n = Standby => /\ Exchange(r)
                          /\ Answer(r.out) /\ r.out # << >>
    BY <1>1, TurnAsked
  <1>4. t \in Seq(Msg)
    BY SMT
  <1>5. ~(inst = Node /\ up = {n})
    BY <1>1, <1>2, NotAlone
  <1>6. up = Node /\ HasSent(p, node[p]) => View(node[p], t, r.pif)
    <2>1. Takes(s.pif, "SYNC_REQ") = s.pif
      BY DEF Takes
    <2> QED  BY <1>2, <1>3, <2>1, ViewTaken
  <1>7. Commit(n, r, [chan EXCEPT ![n] = t])
    BY <1>2
  <1>8. r.out \in Seq(Msg)
    BY <1>3 DEF NodeState
  <1> HIDE DEF r, v
  <1>9. << >> \o r.out = r.out
    BY <1>8, ConcatNil
  <1>10. CASE n = Active
    <2>1. /\ s.current_state = "STAGE1" /\ p = Standby
          /\ node[Active] = s /\ chan[Active] = q
      BY <1>10, Peers, NodeAssumption DEF WaitsToSend
    <2> HIDE DEF s, q
    <2>2. up = Node => /\ node[p].current_state = "STAGE1"
                       /\ chan[p] = << >> /\ s.pif = "none" /\ v = "none"
      BY <1>1, <2>1 DEF Joint, v
    <2>3. Queue(n, r, t)
      BY <1>3, <1>10 DEF Queue, WaitsForData
    <2>4. r.out # << >>
      <3>1. Len(r.out) > 1
        BY <1>3, <1>10 DEF AnswerAndRequest
      <3>2. Len(<< >>) = 0
        OBVIOUS
      <3> QED  BY <3>1, <3>2, SMT
    <2>5. up = Node => Queue(p, node[p], chan[p] \o r.out)
      <3>1. up = Node => node[p].wait_for_sync_data
        BY <1>1, <2>1, <2>2, NodeAssumption DEF Queue
      <3> QED  BY <1>3, <1>9, <1>10, <2>1, <2>2, <3>1 DEF Queue
    <2>6. up = Node => Joint(r, node[Standby], t, chan[Standby] \o r.out)
      BY <1>3, <1>9, <1>10, <2>1, <2>2, <2>4 DEF Joint
    <2>7. up = Node => View(r, chan[p] \o r.out, v)
      BY <1>3, <1>9, <2>2
    <2> HIDE DEF t
    <2> QED
      BY <1>3, <1>4, <1>5, <1>6, <1>7, <1>10, <2>3, <2>5, <2>6, <2>7,
         PassKeeps, NodeAssumption
         DEF v
  <1>11. CASE n = Standby
    <2>1. /\ s.current_state = "STAGE2" /\ p = Active
          /\ node[Standby] = s /\ chan[Standby] = q
      BY <1>11, Peers, NodeAssumption DEF WaitsToSend
    <2> HIDE DEF s, q
    <2>2. up = Node => /\ node[p].current_state = "STAGE2"
                       /\ chan[p] = << >> /\ v = "none"
      <3>1. up = Node => node[p].current_state \in {"STAGE1", "STAGE2", "EXCHANGE"}
        BY <1>1 DEF Queue
      <3> QED  BY <1>1, <2>1, <3>1 DEF Joint, v
    <2>3. Queue(n, r, t)
      <3>1. r.current_state = "EXCHANGE"
        BY <1>3, <1>11 DEF Exchange
      <3>2. t \in Seq(Update)
        BY SMT
      <3> QED  BY <3>1, <3>2 DEF Queue
    <2>4. up = Node => Queue(p, node[p], chan[p] \o r.out)
      <3>1. up = Node => node[p].wait_for_sync_data
        BY <1>1, <2>1, <2>2, NodeAssumption DEF Queue
      <3> QED  BY <1>3, <1>9, <1>11, <2>1, <2>2, <3>1 DEF Queue
    <2>5. up = Node => Joint(node[Active], r, chan[Active] \o r.out, t)
      BY <1>3, <1>9, <1>11, <2>1, <2>2 DEF Joint, Exchange
    <2>6. up = Node => View(r, chan[p] \o r.out, v)
      BY <1>3, <1>9, <2>2
    <2> HIDE DEF t
    <2> QED
      BY <1>3, <1>4, <1>5, <1>6, <1>7, <1>11, <2>3, <2>4, <2>5, <2>6,
         PassKeeps, NodeAssumption
         DEF v
  <1> QED
    BY <1>1, <1>10, <1>11 DEF Node

\* A node in exchange takes an update, or finds its queue empty.
LEMMA TransitExchange ==
  ASSUME TypeOK, SyncInv, NEW n \in up, UNCHANGED <<up, inst, left>>,
         Exchange(node[n]), NEW m \in Update \cup {None}, NEW t \in Seq(Update),
         \/ chan[n] = << >> /\ m = None /\ t = << >>
         \/ chan[n] # << >> /\ m = Head(chan[n]) /\ t = Tail(chan[n])
                            /\ m \in Update,
         Commit(n, FsmTransit(n, node[n], m), [chan EXCEPT ![n] = t])
  PROVE  SyncInv'
  <1> DEFINE s == node[n]
             q == chan[n]
             p == Peer(n)
             v == node[p].pif
             r == FsmTransit(n, s, m)
  <1>1. /\ n \in Node /\ s \in NodeState /\ q \in Seq(Msg)
        /\ chan[p] \in Seq(Msg) /\ Local(s) /\ s.out = << >>
        /\ Queue(n, s, q)
        /\ up = Node =>
             /\ Queue(p, node[p], chan[p])
             /\ Joint(node[Active], node[Standby], chan[Active], chan[Standby])
             /\ HasSent(n, s) => View(s, chan[p], v)
    BY UpFacts
  <1>2. HasSent(n, s)
    BY DEF HasSent
  <1> HIDE DEF v
  <1>3. /\ r \in NodeState /\ Local(r) /\ Exchange(r)
        /\ r.pif = IF m = None THEN s.pif ELSE Takes(s.pif, m)
        /\ r.out \in Seq(Update)
        /\ View(s, chan[p], v) => View(r, chan[p] \o r.out, v)
    BY <1>1, TurnExchange
  <1>4. t \in Seq(Msg)
    <2>1. Update \subseteq Msg
      BY DEF Update, Info, Msg
    <2> QED  BY <2>1, SMT
  <1>5. ~(inst = Node /\ up = {n})
    BY <1>1, NotAlone
  <1>6. up = Node /\ HasSent(p, node[p]) => View(node[p], t, r.pif)
    <2>1. CASE m = None
      <3>1. None \notin Update
        BY DEF None, Update, Info
      <3>2. t = chan[n] /\ r.pif = s.pif
        BY <1>3, <2>1, <3>1
      <3>3. Peer(p) = n /\ p \in Node
        BY <1>1, Peers
      <3> HIDE DEF r, s
      <3>4. up = Node /\ HasSent(p, node[p])
              => View(node[p], chan[Peer(p)], node[Peer(p)].pif)
        BY <3>3 DEF SyncInv, Views
      <3> QED  BY <3>2, <3>3, <3>4 DEF s
    <2>2. CASE m # None
      BY <1>3, <2>2, ViewTaken
    <2> QED  BY <2>1, <2>2
  <1>7. Commit(n, r, [chan EXCEPT ![n] = t])
    OBVIOUS
  <1>8. up = Node => View(r, chan[p] \o r.out, v)
    BY <1>1, <1>2, <1>3
  <1>9. Queue(n, r, t)
    BY <1>3 DEF Queue, Exchange
  <1> HIDE DEF r
  <1>10. /\ chan[p] \in Seq(Update) => chan[p] \o r.out \in Seq(Update)
         /\ Answer(chan[p]) => Answer(chan[p] \o r.out)
    BY <1>1, <1>3, UpdatesBehind
  <1>11. CASE n = Active
    <2>1. /\ p = Standby /\ node[Active] = s /\ chan[Active] = q
      BY <1>11, Peers
    <2>2. up = Node => Exchange(node[p])
      BY <1>1, <2>1 DEF Joint, Exchange
    <2>3. up = Node => chan[p] \in Seq(Update)
      BY <1>1, <2>2 DEF Queue, Exchange
    <2>4. up = Node => Queue(p, node[p], chan[p] \o r.out)
      BY <1>10, <2>2, <2>3 DEF Queue, Exchange
    <2>5. up = Node => Joint(r, node[Standby], t, chan[Standby] \o r.out)
      BY <1>3, <2>1, <2>2 DEF Joint, Exchange
    <2> QED
      BY <1>3, <1>4, <1>5, <1>6, <1>7, <1>8, <1>9, <1>11, <2>4, <2>5,
         PassKeeps, NodeAssumption
         DEF v
  <1>12. CASE n = Standby
    <2>1. /\ p = Active /\ node[Standby] = s /\ chan[Standby] = q
      BY <1>12, Peers
    <2>2. up = Node => /\ node[p].current_state \in {"STAGE2", "EXCHANGE"}
      <3>1. up = Node => node[p].current_state \in {"STAGE1", "STAGE2", "EXCHANGE"}
        BY <1>1 DEF Queue
      <3> QED  BY <1>1, <2>1, <3>1 DEF Joint, Exchange
    <2>3. up = Node /\ node[p].current_state = "STAGE2" =>
            /\ chan[p] # << >> /\ Answer(chan[p]) /\ node[p].wait_for_sync_data
            /\ q = << >>
      BY <1>1, <2>1, NodeAssumption DEF Queue, Joint, Exchange
    <2>4. up = Node /\ node[p].current_state = "EXCHANGE" =>
            chan[p] \in Seq(Update)
      BY <1>1 DEF Queue
    <2>5. up = Node => Queue(p, node[p], chan[p] \o r.out)
      BY <1>10, <2>1, <2>2, <2>3, <2>4 DEF Queue
    <2>6. chan[p] # << >> => chan[p] \o r.out # << >>
      <3>1. r.out \in Seq(Msg)
        BY <1>3 DEF NodeState
      <3> DEFINE w == chan[p] \o r.out
      <3>2. Len(w) = Len(chan[p]) + Len(r.out)
        BY <1>1, <3>1, ConcatParts
      <3>3. Len(r.out) \in Nat /\ Len(chan[p]) \in Nat
        <4>1. Len(r.out) \in Nat
          BY <3>1, SMT
        <4> QED  BY <1>1, <4>1, SMT
      <3>4. chan[p] # << >> => Len(chan[p]) # 0
        BY <1>1, SMT
      <3>5. Len(<< >>) = 0
        OBVIOUS
      <3> HIDE DEF w
      <3>6. Len(w) = 0 => Len(chan[p]) = 0
        <4>1. \A i, j \in Nat : i + j = 0 => i = 0
          BY SMT
        <4> QED  BY <3>2, <3>3, <4>1
      <3>7. w = << >> => Len(w) = 0
        BY <3>5
      <3>8. chan[p] # << >> => w # << >>
        BY <3>4, <3>6, <3>7
      <3> QED  BY <3>8 DEF w
    <2>7. up = Node => Joint(node[Active], r, chan[Active] \o r.out, t)
      BY <1>3, <2>1, <2>2, <2>3, <2>6 DEF Joint, Exchange
    <2> QED
      BY <1>3, <1>4, <1>5, <1>6, <1>7, <1>8, <1>9, <1>12, <2>5, <2>7,
         PassKeeps, NodeAssumption
         DEF v
  <1> QED
    BY <1>1, <1>11, <1>12 DEF Node

\* A pass of the scheduler loop keeps the invariant.
LEMMA TransitSync ==
  ASSUME TypeOK, SyncInv, NEW n \in Node, Transit(n)
  PROVE  SyncInv'
  <1> DEFINE s == node[n]
             q == chan[n]
  <1>1. n \in up /\ UNCHANGED <<up, inst, left>>
    BY DEF Transit
  <1>2. /\ s \in NodeState /\ q \in Seq(Msg) /\ Queue(n, s, q)
    BY <1>1, UpFacts
  <1>3. q # << >> => Commit(n, FsmTransit(n, s, Head(q)),
                            [chan EXCEPT ![n] = Tail(q)])
    BY DEF Transit, TypeOK
  <1>4. q = << >> => Commit(n, FsmTransit(n, s, None), chan)
    BY DEF Transit
  <1>5. CASE Exchange(s)
    <2>1. q \in Seq(Update)
      BY <1>2, <1>5 DEF Queue, Exchange
    <2>2. CASE q = << >>
      <3>1. [chan EXCEPT ![n] = << >>] = chan
        BY <2>2 DEF TypeOK
      <3>2. << >> \in Seq(Update) /\ None \in Update \cup {None}
        BY SMT
      <3> QED  BY <1>1, <1>4, <1>5, <2>2, <3>1, <3>2, TransitExchange
    <2>3. CASE q # << >>
      <3>1. Head(q) \in Update /\ Tail(q) \in Seq(Update)
        BY <2>1, <2>3, SMT
      <3> QED  BY <1>1, <1>3, <1>5, <2>3, <3>1, TransitExchange
    <2> QED  BY <2>2, <2>3
  <1>6. ~Exchange(s) => WaitsToSend(n, s) \/ WaitsForData(n, s)
    BY <1>2 DEF Queue, WaitsToSend, WaitsForData, Exchange
  <1>7. CASE ~Exchange(s) /\ q = << >>
    <2>1. FsmTransit(n, s, None) = s
      BY <1>6, <1>7, TurnIdle
    <2> QED  BY <1>1, <1>4, <1>7, <2>1, PassIdle
  <1>8. CASE WaitsToSend(n, s) /\ q # << >>
    <2>1. q = <<"SYNC_REQ">>
      BY <1>2, <1>8, NodeAssumption DEF Queue, WaitsToSend
    <2> QED  BY <1>1, <1>3, <1>8, <2>1, TransitAsked
  <1>9. CASE WaitsForData(n, s) /\ q # << >>
    <2>1. Answer(q) \/ AnswerAndRequest(q)
      BY <1>2, <1>9, NodeAssumption DEF Queue, WaitsForData
    <2>2. Head(q) \in Early \/ Head(q) = "SYNC_DONE"
      BY <1>2, <2>1, AnswerRest, AnswerAndRequestRest
    <2> QED  BY <1>1, <1>3, <1>9, <2>2, TransitData, TransitDone
  <1> QED
    BY <1>5, <1>6, <1>7, <1>8, <1>9

\* A change of the port-channel of n leaves the session alone, and sends
\* nothing before the next pass.
LEMMA LocalKeeps ==
  ASSUME TypeOK, SyncInv, NEW n \in Node, UNCHANGED <<up, inst>>,
         left'.unbinds = left.unbinds,
         NEW r \in NodeState, Commit(n, r, chan), Local(r), r.out = << >>,
         r.current_state = node[n].current_state,
         r.wait_for_sync_data = node[n].wait_for_sync_data,
         r.pif = node[n].pif,
         \A q, v : View(node[n], q, v) => View(r, q, v)
  PROVE  SyncInv'
  <1> DEFINE p == Peer(n)
             s == node[n]
             u == node'[n]
  <1>1. n \in Node /\ p \in Node /\ p # n /\ Node = {n, p} /\ Peer(p) = n
    BY Peers
  <1>2. /\ chan \in [Node -> Seq(Msg)] /\ chan[p] \in Seq(Msg)
    BY <1>1 DEF TypeOK
  <1>3. /\ u.out = << >> /\ SameNode(r, u) /\ node'[p] = node[p]
        /\ chan'[n] = chan[n]
        /\ p \in inst' => chan'[p] = chan[p] \o r.out
        /\ p \notin inst' => chan'[p] = chan[p]
    BY <1>2, CommitEffect
  <1>4. chan[p] \o r.out = chan[p]
    BY <1>2, ConcatNil
  <1>5. \A m \in Node : chan'[m] = chan[m]
    BY <1>1, <1>3, <1>4
  <1>6. /\ Local(u) /\ \A q, v : View(r, q, v) => View(u, q, v)
    BY <1>3, SameNodeKeeps
  <1>7. /\ u.current_state = s.current_state /\ u.pif = s.pif
        /\ u.wait_for_sync_data = s.wait_for_sync_data
    BY <1>3 DEF SameNode
  <1> HIDE DEF u, s
  <1>8. \A m \in Node :
          /\ node'[m].current_state = node[m].current_state
          /\ node'[m].pif = node[m].pif
          /\ node'[m].wait_for_sync_data = node[m].wait_for_sync_data
    BY <1>1, <1>3, <1>7 DEF u, s
  <1>9. /\ \A m \in Node : Queue(m, node[m], chan[m])
                             => Queue(m, node'[m], chan'[m])
        /\ \A m \in Node : HasSent(m, node'[m]) => HasSent(m, node[m])
    BY <1>5, <1>8 DEF Queue, HasSent, Exchange
  <1>10. Active \in Node /\ Standby \in Node
    BY DEF Node
  <1>11. Joint(node[Active], node[Standby], chan[Active], chan[Standby]) =>
           Joint(node'[Active], node'[Standby], chan'[Active], chan'[Standby])
    BY <1>5, <1>8, <1>10 DEF Joint
  <1>12. Phase'
    <2>1. up \subseteq Node
      BY DEF TypeOK
    <2>2. \A m \in up : Queue(m, node'[m], chan'[m])
      BY <1>9, <2>1 DEF SyncInv, Phase
    <2>3. Phase
      BY DEF SyncInv
    <2> QED
      BY <1>5, <1>8, <1>10, <1>11, <2>2, <2>3, SMT DEF Phase
  <1>13. Views'
    <2> SUFFICES ASSUME up = Node, NEW m \in Node, HasSent(m, node'[m])
                 PROVE  View(node'[m], chan'[Peer(m)], node'[Peer(m)].pif)
      BY DEF Views
    <2>1. View(node[m], chan[Peer(m)], node[Peer(m)].pif)
      BY <1>9 DEF SyncInv, Views
    <2>2. View(node'[m], chan[Peer(m)], node[Peer(m)].pif)
      BY <1>1, <1>3, <1>6, <2>1 DEF u
    <2> QED
      BY <1>1, <1>5, <1>8, <2>2
  <1>14. \A m \in Node : Local(node'[m]) /\ node'[m].out = << >>
    BY <1>1, <1>3, <1>6 DEF SyncInv, u
  <1> QED
    BY <1>12, <1>13, <1>14 DEF SyncInv

\* The peer has the configuration of a member whose state it knows.
LEMMA KnownConfig ==
  ASSUME NEW q, NEW v, NEW x \in {"up", "down"}, Known(q, v, x)
  PROVE  v # "none" \/ Holds(q, {"CONFIG"})
  BY DEF Known, Holds

\* The port-channel goes up or down.
LEMMA LinkSync ==
  ASSUME TypeOK, SyncInv, NEW n \in Node, LinkChange(n)
  PROVE  SyncInv'
  <1> DEFINE o == node[n]
             u == ~o.state
             s == [o EXCEPT !.state = u]
             x == [s EXCEPT !.po_active = u]
             r == IF s.bound THEN PortchannelStateHandler(s, u) ELSE x
  <1>1. o \in NodeState /\ Local(o) /\ o.out = << >>
    BY DEF TypeOK, SyncInv
  <1>2. /\ u \in BOOLEAN /\ s \in NodeState /\ s.state = u
        /\ s.bound = o.bound /\ s.purge = o.purge
        /\ s.need_to_sync = o.need_to_sync
        /\ s.current_state = o.current_state
        /\ s.wait_for_sync_data = o.wait_for_sync_data
        /\ s.isolated = o.isolated
        /\ s.is_traffic_disable = o.is_traffic_disable
        /\ s.changed = o.changed /\ s.port_config_sync = o.port_config_sync
        /\ s.po_active = o.po_active
        /\ s.pif = o.pif /\ s.out = o.out
    BY <1>1 DEF NodeState
  <1>3. /\ Commit(n, r, chan) /\ UNCHANGED <<up, inst>>
        /\ left' = [left EXCEPT !.links = @ - 1]
    BY DEF LinkChange
  <1>4. left'.unbinds = left.unbinds
    BY <1>3 DEF TypeOK
  <1>5. s.po_active # s.state
    BY <1>1 DEF Local, Base, NodeState
  <1> HIDE DEF o, u, s
  <1>6. CASE s.bound
    <2>1. /\ ~s.purge /\ ~s.need_to_sync
          /\ s.isolated => Exchange(s)
          /\ s.is_traffic_disable => Exchange(s)
      BY <1>1, <1>2 DEF Local, Base, Exchange
    <2> DEFINE h == PortchannelStateHandler(s, s.state)
    <2>2. /\ h \in NodeState /\ Local(h)
          /\ h.current_state = s.current_state
          /\ h.wait_for_sync_data = s.wait_for_sync_data
          /\ h.pif = s.pif /\ h.out = s.out
          /\ h.bound = s.bound
          /\ h.port_config_sync = s.port_config_sync
          /\ h.changed
      BY <1>2, <1>5, <1>6, <2>1, PortchannelEffect
    <2>3. Commit(n, h, chan)
      BY <1>2, <1>3, <1>6
    <2> HIDE DEF h
    <2>4. \A q, v : View(o, q, v) => View(h, q, v)
      <3> SUFFICES ASSUME NEW q, NEW v, View(o, q, v)
                   PROVE  View(h, q, v)
        OBVIOUS
      <3>1. StateName(o) \in {"up", "down"}
        BY DEF StateName
      <3>2. o.bound /\ o.changed \in BOOLEAN
        BY <1>2, <1>6 DEF NodeState
      <3>3. o.port_config_sync \/ v # "none" \/ Holds(q, {"CONFIG"})
        BY <3>1, <3>2, KnownConfig DEF View
      <3> QED  BY <1>2, <2>2, <1>6, <3>3 DEF View
    <2> QED
      BY <1>1, <1>2, <1>3, <1>4, <2>2, <2>3, <2>4, LocalKeeps DEF o
  <1>7. CASE ~s.bound
    <2>1. /\ x \in NodeState /\ x.po_active = u /\ x.state = u
          /\ x.bound = s.bound /\ x.purge = s.purge
          /\ x.need_to_sync = s.need_to_sync
          /\ x.current_state = s.current_state
          /\ x.wait_for_sync_data = s.wait_for_sync_data
          /\ x.isolated = s.isolated
          /\ x.is_traffic_disable = s.is_traffic_disable
          /\ x.changed = s.changed
          /\ x.pif = s.pif /\ x.out = s.out
      BY <1>2 DEF NodeState
    <2>2. Commit(n, x, chan)
      BY <1>3, <1>7
    <2> HIDE DEF x
    <2>3. Local(x)
      BY <1>1, <1>2, <1>7, <2>1 DEF Local, Base, Isolates, Exchange
    <2>4. \A q, v : View(o, q, v) => View(x, q, v)
      BY <1>2, <1>7, <2>1 DEF View
    <2> QED
      BY <1>1, <1>2, <1>3, <1>4, <2>1, <2>2, <2>3, <2>4, LocalKeeps DEF o
  <1> QED
    BY <1>6, <1>7

\* The VLANs of the port-channel change.
LEMMA VlanSync ==
  ASSUME TypeOK, SyncInv, NEW n \in Node, VlanChange(n)
  PROVE  SyncInv'
  <1> DEFINE o == node[n]
             r == [o EXCEPT !.port_config_sync = TRUE]
  <1>1. o \in NodeState /\ Local(o) /\ o.out = << >>
    BY DEF TypeOK, SyncInv
  <1>2. /\ r \in NodeState /\ r.port_config_sync
        /\ r.bound = o.bound /\ r.purge = o.purge
        /\ r.need_to_sync = o.need_to_sync
        /\ r.current_state = o.current_state
        /\ r.wait_for_sync_data = o.wait_for_sync_data
        /\ r.isolated = o.isolated
        /\ r.is_traffic_disable = o.is_traffic_disable
        /\ r.changed = o.changed
        /\ r.state = o.state /\ r.po_active = o.po_active
        /\ r.pif = o.pif /\ r.out = o.out
    BY <1>1 DEF NodeState
  <1>3. /\ Commit(n, r, chan) /\ UNCHANGED <<up, inst>>
        /\ left' = [left EXCEPT !.vlans = @ - 1]
    BY DEF VlanChange
  <1>4. left'.unbinds = left.unbinds
    BY <1>3 DEF TypeOK
  <1> HIDE DEF o, r
  <1>5. Local(r)
    BY <1>1, <1>2 DEF Local, Base, Isolates, Exchange
  <1>6. \A q, v : View(o, q, v) => View(r, q, v)
    BY <1>2 DEF View, StateName
  <1> QED
    BY <1>1, <1>2, <1>3, <1>4, <1>5, <1>6, LocalKeeps DEF o

\* The port-channel becomes a member of the domain.
LEMMA BindSync ==
  ASSUME TypeOK, SyncInv, NEW n \in Node, Bind(n)
  PROVE  SyncInv'
  <1> DEFINE o == node[n]
             s == [o EXCEPT !.bound = TRUE, !.purge = FALSE,
                            !.port_config_sync = TRUE]
             r == UpdateIsolateFromLif(s, s.po_active)
  <1>1. o \in NodeState /\ Local(o) /\ o.out = << >> /\ ~o.bound
    BY DEF TypeOK, SyncInv, Bind
  <1>2. /\ s \in NodeState /\ s.port_config_sync /\ s.bound /\ ~s.purge
        /\ s.need_to_sync = o.need_to_sync
        /\ s.current_state = o.current_state
        /\ s.wait_for_sync_data = o.wait_for_sync_data
        /\ s.isolated = o.isolated
        /\ s.is_traffic_disable = o.is_traffic_disable
        /\ s.changed = o.changed
        /\ s.state = o.state /\ s.po_active = o.po_active
        /\ s.pif = o.pif /\ s.out = o.out
        /\ s.po_active \in BOOLEAN
    BY <1>1 DEF NodeState
  <1>3. Commit(n, r, chan) /\ UNCHANGED <<up, inst, left>>
    BY DEF Bind
  <1> HIDE DEF o, s
  <1>4. r \in NodeState
    BY <1>2, UpdateIsolateType
  <1>5. /\ OnlyIsolation(s, r)
        /\ Exchange(s) /\ s.po_active =>
             (r.isolated <=> s.bound /\ s.pif # "down")
        /\ ~(Exchange(s) /\ s.po_active) => r = s
    BY <1>2, UpdateIsolateEffect
  <1>6. /\ ~s.isolated /\ ~s.is_traffic_disable /\ s.changed
        /\ ~s.need_to_sync /\ s.po_active = s.state
    BY <1>1, <1>2 DEF Local, Base
  <1> HIDE DEF r
  <1>7. Local(r)
    <2>1. Base(r)
      <3>1. r.isolated => Exchange(s)
        BY <1>5, <1>6
      <3> QED
        BY <1>2, <1>5, <1>6, <3>1 DEF Base, OnlyIsolation, Exchange
    <2>2. Isolates(r)
      BY <1>5, <1>6 DEF Isolates, OnlyIsolation, Exchange
    <2> QED  BY <2>1, <2>2 DEF Local
  <1>8. \A q, v : View(o, q, v) => View(r, q, v)
    BY <1>2, <1>5, <1>6 DEF View, OnlyIsolation
  <1>9. /\ r.out = << >> /\ r.current_state = o.current_state
        /\ r.wait_for_sync_data = o.wait_for_sync_data /\ r.pif = o.pif
    BY <1>1, <1>2, <1>5 DEF OnlyIsolation
  <1> QED
    BY <1>3, <1>4, <1>7, <1>8, <1>9, LocalKeeps DEF o

\* What the loss of the session leaves of a node.
LEMMA DisconnectEffect ==
  ASSUME NEW s \in NodeState, Local(s), s.out = << >>
  PROVE  LET r == MlacpReset(PeerDisconn(s)) IN
         /\ r \in NodeState /\ Local(r) /\ r.out = << >>
         /\ r.current_state = "INIT" /\ r.pif = "none"
  <1> DEFINE i == SetPortIsolate(s, FALSE)
             d == PeerDisconn(s)
             r == MlacpReset(d)
  <1>1. r \in NodeState
    BY DisconnectType
  <1>3. /\ i \in NodeState /\ OnlyIsolation(s, i)
        /\ Exchange(s) => (i.isolated <=> s.bound /\ FALSE)
        /\ ~Exchange(s) => i.isolated = s.isolated
    BY SetPortIsolateType, SetPortIsolateEffect
  <1>4. d = IF s.bound THEN EnableTraffic(i) ELSE s
    BY DEF PeerDisconn
  <1> HIDE DEF i
  <1>5. ~i.isolated
    BY <1>3 DEF Local, Base
  <1>6. s.bound => /\ d \in NodeState
                   /\ ~d.is_traffic_disable /\ d.isolated = i.isolated
                   /\ d.bound = i.bound /\ d.state = i.state
                   /\ d.po_active = i.po_active /\ d.out = i.out
    <2>1. s.bound => i.bound
      BY <1>3 DEF OnlyIsolation
    <2> QED  BY <1>3, <1>4, <2>1 DEF EnableTraffic, NodeState
  <1> HIDE DEF d
  <1>7. /\ d \in NodeState /\ ~d.is_traffic_disable /\ ~d.isolated
        /\ d.state = s.state /\ d.po_active = s.po_active /\ d.out = s.out
        /\ ~d.bound => d.changed
    BY <1>3, <1>4, <1>5, <1>6 DEF OnlyIsolation, Local, Base
  <1>8. /\ r.current_state = "INIT" /\ r.pif = "none"
        /\ ~r.purge /\ ~r.need_to_sync
        /\ r.is_traffic_disable = d.is_traffic_disable
        /\ r.isolated = d.isolated /\ r.bound = d.bound
        /\ r.changed = d.changed /\ r.out = d.out
        /\ r.state = d.state /\ r.po_active = d.po_active
    BY <1>7 DEF MlacpReset, NodeState
  <1> HIDE DEF r
  <1>9. Local(r)
    BY <1>7, <1>8 DEF Local, Base, Isolates, Exchange
  <1> QED
    BY <1>1, <1>7, <1>8, <1>9 DEF d, r

\* A node loses the session.
LEMMA LeaveSync ==
  ASSUME TypeOK, SyncInv, NEW n \in Node, Leave(n) \/ LeaveAfterPeer(n)
  PROVE  SyncInv'
  <1> DEFINE o == node[n]
             p == Peer(n)
             r == MlacpReset(PeerDisconn(o))
             ch == [chan EXCEPT ![n] = << >>]
             u == node'[n]
  <1>1. /\ p \in Node /\ p # n /\ Node = {n, p} /\ Peer(p) = n
        /\ n = Active => p = Standby
        /\ n = Standby => p = Active
    BY Peers
  <1>2. /\ o \in NodeState /\ Local(o) /\ o.out = << >>
        /\ chan[p] \in Seq(Msg) /\ up \subseteq inst
    BY <1>1 DEF TypeOK, SyncInv, Phase
  <1>3. /\ r \in NodeState /\ Local(r) /\ r.out = << >>
        /\ r.current_state = "INIT" /\ r.pif = "none"
    BY <1>2, DisconnectEffect
  <1>4. Commit(n, r, ch)
    BY DEF Leave, LeaveAfterPeer, SessionDisconnect
  <1>5. left'.unbinds = left.unbinds
    BY DEF Leave, LeaveAfterPeer, TypeOK
  <1>6. ch \in [Node -> Seq(Msg)] /\ ch[n] = << >> /\ ch[p] = chan[p]
    BY <1>1, SMT DEF TypeOK
  <1>7. \/ n \notin inst /\ UNCHANGED <<up, inst>>
        \/ /\ n \in inst /\ up' = up \ {n}
           /\ inst' = IF up' = {} THEN {} ELSE inst \ {n}
    BY DEF Leave, LeaveAfterPeer, Session!Leave
  <1> HIDE DEF r, ch
  <1>8. /\ u.out = << >> /\ SameNode(r, u) /\ node'[p] = node[p]
        /\ chan'[n] = ch[n]
        /\ p \in inst' => chan'[p] = ch[p] \o r.out
        /\ p \notin inst' => chan'[p] = ch[p]
    BY <1>3, <1>4, <1>6, CommitEffect
  <1>9. chan[p] \o r.out = chan[p]
    BY <1>2, <1>3, ConcatNil
  <1>10. chan'[n] = << >> /\ chan'[p] = chan[p]
    BY <1>6, <1>8, <1>9
  <1>11. Local(u) /\ u.current_state = "INIT" /\ u.pif = "none"
    BY <1>3, <1>8, SameNodeKeeps DEF SameNode
  <1> HIDE DEF u
  <1>12. n \notin up' /\ up' \subseteq inst' /\ up' \subseteq {p} /\ n \notin inst'
    BY <1>1, <1>2, <1>7 DEF TypeOK
  <1>13. \A m \in Node : Local(node'[m]) /\ node'[m].out = << >>
    BY <1>1, <1>8, <1>11 DEF SyncInv, u
  <1>14. Views'
    BY <1>12 DEF Views
  <1>15. Phase'
    <2>1. \A m \in Node : m \notin up' => /\ node'[m].current_state = "INIT"
                                          /\ node'[m].pif = "none"
      <3>1. p \notin up' => p \notin up
        BY <1>1, <1>7
      <3>2. p \notin up' => /\ node[p].current_state = "INIT"
                            /\ node[p].pif = "none"
        BY <1>1, <3>1 DEF SyncInv, Phase
      <3> QED  BY <1>1, <1>8, <1>11, <3>2 DEF u
    <2>2. up' = {} => inst' = {}
      <3>1. up = {} => inst = {}
        BY DEF SyncInv, Phase
      <3> QED  BY <1>7, <3>1
    <2>3. up' = {} => /\ n = Active => chan[Standby] = << >>
                      /\ n = Standby => chan[Active] \in {<< >>, <<"SYNC_REQ">>}
      <3>1. CASE up = {}
        BY <3>1 DEF SyncInv, Phase
      <3>2. CASE up = {n} /\ p \in inst
        <4>1. inst = Node
          BY <1>1, <1>2, <3>2 DEF TypeOK
        <4> QED  BY <3>2, <4>1 DEF SyncInv, Phase
      <3>3. CASE up = {n} /\ p \notin inst
        <4>1. chan[p] = << >>
          BY <1>1, <3>3 DEF SyncInv, Phase
        <4> QED  BY <1>1, <4>1
      <3>4. up' = {} => up = {} \/ up = {n}
        BY <1>7
      <3> QED  BY <3>1, <3>2, <3>3, <3>4
    <2>4. up' = {} => /\ chan'[Standby] = << >>
                      /\ chan'[Active] \in {<< >>, <<"SYNC_REQ">>}
      <3>1. CASE n = Active
        BY <1>1, <1>10, <2>3, <3>1
      <3>2. CASE n = Standby
        BY <1>1, <1>10, <2>3, <3>2
      <3> QED  BY <3>1, <3>2 DEF Node
    <2>5. \A m \in Node : up' # {} /\ m \notin inst' => chan'[m] = << >>
      BY <1>1, <1>10, <1>12
    <2>6. \A m \in up' : Queue(m, node'[m], chan'[m])
      <3>1. \A m \in up' : m = p /\ m \in up
        BY <1>7, <1>12
      <3>2. p \in up => Queue(p, node[p], chan[p])
        BY DEF SyncInv, Phase
      <3> QED  BY <1>8, <1>10, <3>1, <3>2
    <2>7. up' # Node /\ inst' # Node
      BY <1>12
    <2> QED
      BY <1>12, <2>1, <2>2, <2>4, <2>5, <2>6, <2>7 DEF Phase
  <1> QED
    BY <1>5, <1>13, <1>14, <1>15 DEF SyncInv

\* A node comes up.
LEMMA UpSync ==
  ASSUME TypeOK, SyncInv, NEW n \in Node, Up(n)
  PROVE  SyncInv'
  <1> DEFINE o == node[n]
             p == Peer(n)
             r == FsmTransit(n, o, None)
             u == node'[n]
  <1>1. /\ p \in Node /\ p # n /\ Node = {n, p} /\ Peer(p) = n
        /\ n = Active => p = Standby
        /\ n = Standby => p = Active
    BY Peers
  <1>2. /\ o \in NodeState /\ Local(o) /\ o.out = << >>
        /\ chan \in [Node -> Seq(Msg)] /\ up \subseteq inst
    BY DEF TypeOK, SyncInv, Phase
  <1>3. /\ \/ up = {} /\ up' = {n} /\ inst' = Node
           \/ up = {} /\ up' = {n} /\ inst' = {n}
           \/ n \in inst \ up /\ up' = up \cup {n} /\ inst' = inst
        /\ left'.unbinds = left.unbinds
    BY DEF Up, Session!Open, Session!Join, TypeOK
  <1>4. n \notin up /\ n \in up' /\ n \in inst'
    BY <1>3
  <1>5. o.current_state = "INIT" /\ o.pif = "none"
    BY <1>4 DEF SyncInv, Phase
  <1>6. PICK ch \in IF n \in inst THEN {chan}
                    ELSE IF inst' = Node THEN {NoMessages}
                    ELSE {NoMessages, [NoMessages EXCEPT ![n] = chan[n]]} :
          Commit(n, r, ch)
    BY DEF Up
  <1>7. /\ r \in NodeState /\ Local(r)
        /\ r.current_state = "STAGE1" /\ r.pif = o.pif
        /\ n = Active => ~r.wait_for_sync_data /\ r.out = << >>
        /\ n = Standby => r.wait_for_sync_data /\ r.out = <<"SYNC_REQ">>
    BY <1>2, <1>5, TurnUp
  <1> HIDE DEF r
  <1>8. /\ ch \in [Node -> Seq(Msg)]
        /\ n \in inst => ch = chan
        /\ n \notin inst => ch[n] \in {<< >>, chan[n]} /\ ch[p] = << >>
        /\ n \notin inst /\ inst' = Node => ch[n] = << >>
    <2>1. /\ NoMessages \in [Node -> Seq(Msg)]
          /\ NoMessages[n] = << >> /\ NoMessages[p] = << >>
      BY <1>1, SMT DEF NoMessages
    <2> DEFINE e == [NoMessages EXCEPT ![n] = chan[n]]
    <2>2. e \in [Node -> Seq(Msg)] /\ e[n] = chan[n] /\ e[p] = << >>
      BY <1>1, <1>2, <2>1
    <2> HIDE DEF e
    <2>3. ch \in IF n \in inst THEN {chan}
                 ELSE IF inst' = Node THEN {NoMessages} ELSE {NoMessages, e}
      BY DEF e
    <2> QED  BY <1>2, <2>1, <2>2, <2>3
  <1>9. /\ u.out = << >> /\ SameNode(r, u) /\ node'[p] = node[p]
        /\ chan'[n] = ch[n]
        /\ p \in inst' => chan'[p] = ch[p] \o r.out
        /\ p \notin inst' => chan'[p] = ch[p]
    BY <1>6, <1>7, <1>8, CommitEffect
  <1>10. /\ Local(u) /\ u.current_state = "STAGE1" /\ u.pif = "none"
         /\ u.wait_for_sync_data = r.wait_for_sync_data
    BY <1>5, <1>7, <1>9, SameNodeKeeps DEF SameNode
  <1> HIDE DEF u
  <1>11. << >> \o r.out = r.out
    <2>1. r.out \in Seq(Msg)
      BY <1>7 DEF NodeState
    <2> QED  BY <2>1, ConcatNil
  <1>12. up = {} => n \notin inst /\ chan[Standby] = << >>
                    /\ chan[Active] \in {<< >>, <<"SYNC_REQ">>}
    BY DEF SyncInv, Phase
  <1>13. \A m \in Node : Local(node'[m]) /\ node'[m].out = << >>
    BY <1>1, <1>9, <1>10 DEF SyncInv, u
  <1>14. \A m \in Node : m \notin up' => /\ node'[m].current_state = "INIT"
                                         /\ node'[m].pif = "none"
    <2>1. p \notin up' => p \notin up
      BY <1>3
    <2> QED  BY <1>1, <1>4, <1>9, <2>1 DEF SyncInv, Phase
  <1>15. CASE up = {}
    <2>1. /\ up' = {n} /\ inst' \in {Node, {n}} /\ n \notin inst
          /\ ch[n] \in {<< >>, chan[n]} /\ ch[p] = << >>
          /\ inst' = Node => ch[n] = << >>
      BY <1>3, <1>8, <1>12, <1>15
    <2>2. /\ inst' = Node => chan'[p] = r.out
          /\ inst' = {n} => chan'[p] = << >>
      BY <1>1, <1>9, <1>11, <2>1
    <2>3. Queue(n, u, chan'[n])
      <3>1. n = Active => chan'[n] \in {<< >>, <<"SYNC_REQ">>}
        BY <1>9, <1>12, <1>15, <2>1
      <3>2. n = Standby => chan'[n] = << >>
        BY <1>9, <1>12, <1>15, <2>1
      <3> QED  BY <1>7, <1>10, <3>1, <3>2 DEF Queue, Node
    <2>4. up' # Node /\ up' # {} /\ up' \subseteq inst'
      BY <1>1, <2>1
    <2>5. inst' = Node => /\ chan'[n] = << >>
                          /\ n = Active => chan'[p] = << >>
                          /\ n = Standby => chan'[p] = <<"SYNC_REQ">>
      BY <1>7, <1>9, <2>1, <2>2
    <2>6. \A m \in Node : m \notin inst' => chan'[m] = << >>
      BY <1>1, <2>1, <2>2
    <2>7. inst' = Node /\ up' = {Active} =>
            /\ node'[Active].current_state = "STAGE1"
            /\ node'[Active].pif = "none"
            /\ chan'[Active] = << >> /\ chan'[Standby] = << >>
      BY <1>1, <1>10, <2>1, <2>5 DEF u
    <2>8. inst' = Node /\ up' = {Standby} =>
            /\ node'[Standby].current_state = "STAGE1"
            /\ node'[Standby].pif = "none"
            /\ chan'[Active] = <<"SYNC_REQ">> /\ chan'[Standby] = << >>
      BY <1>1, <1>10, <2>1, <2>5 DEF u
    <2>9. Phase'
      BY <1>14, <2>1, <2>3, <2>4, <2>6, <2>7, <2>8 DEF Phase, u
    <2>10. Views'
      BY <2>4 DEF Views
    <2> QED
      BY <1>3, <1>13, <2>9, <2>10 DEF SyncInv
  <1>16. CASE up # {}
    <2>1. up = {p} /\ inst = Node /\ up' = Node /\ inst' = Node /\ n \in inst
      <3>1. up \subseteq Node /\ inst \subseteq Node
        BY DEF TypeOK
      <3> QED  BY <1>1, <1>2, <1>3, <1>4, <1>16, <3>1
    <2>2. /\ node[p].current_state = "STAGE1" /\ node[p].pif = "none"
          /\ chan[Standby] = << >>
          /\ n = Active => chan[Active] = <<"SYNC_REQ">>
          /\ n = Standby => chan[Active] = << >>
          /\ Queue(p, node[p], chan[p])
      BY <1>1, <2>1 DEF SyncInv, Phase, Node
    <2>3. chan'[n] = chan[n] /\ chan'[p] = chan[p] \o r.out
      BY <1>1, <1>9, <2>1
    <2>4. chan'[Standby] = << >> /\ chan'[Active] = <<"SYNC_REQ">>
      <3>1. chan[p] = << >>
        BY <1>1, <2>2 DEF Node
      <3>2. chan'[p] = r.out
        BY <1>11, <2>3, <3>1
      <3>3. CASE n = Active
        BY <1>1, <1>7, <2>2, <2>3, <3>2, <3>3
      <3>4. CASE n = Standby
        BY <1>1, <1>7, <2>2, <2>3, <3>2, <3>4
      <3> QED  BY <3>3, <3>4 DEF Node
    <2>5. Queue(n, u, chan'[n])
      BY <1>7, <1>10, <2>4 DEF Queue, Node
    <2>6. Queue(p, node[p], chan'[p])
      BY <2>2, <2>4, NodeAssumption DEF Queue, Node
    <2>7. \A m \in Node : /\ node'[m].current_state = "STAGE1"
                          /\ node'[m].pif = "none"
      BY <1>1, <1>9, <1>10, <2>2 DEF u
    <2>8. Joint(node'[Active], node'[Standby], chan'[Active], chan'[Standby])
      <3>1. Active \in Node /\ Standby \in Node
        BY DEF Node
      <3> QED  BY <2>4, <2>7, <3>1 DEF Joint
    <2>9. \A m \in Node : Queue(m, node'[m], chan'[m])
      BY <1>1, <1>9, <2>5, <2>6 DEF u
    <2>10. up' # {} /\ up' # {Active} /\ up' # {Standby}
      BY <2>1, NodeAssumption, SMT DEF Node
    <2>11. Phase'
      BY <2>1, <2>8, <2>9, <2>10 DEF Phase
    <2>12. Views'
      BY <2>7 DEF Views, HasSent, Exchange
    <2> QED
      BY <1>3, <1>13, <2>11, <2>12 DEF SyncInv
  <1> QED
    BY <1>15, <1>16

\* A node in an initial state.
LEMMA InitNode ==
  ASSUME Init, NEW n \in Node
  PROVE  /\ node[n].current_state = "INIT"
         /\ node[n].pif = "none" /\ node[n].out = << >>
         /\ ~node[n].purge /\ ~node[n].need_to_sync
         /\ ~node[n].isolated /\ ~node[n].is_traffic_disable
         /\ node[n].changed
         /\ node[n].po_active = node[n].state
  <1>1. PICK b \in [Node -> BOOLEAN], l \in [Node -> BOOLEAN] :
          node = [k \in Node |->
            [current_state |-> "INIT", wait_for_sync_data |-> FALSE,
             need_to_sync |-> FALSE, purge |-> FALSE,
             bound |-> b[k], state |-> l[k], po_active |-> l[k],
             changed |-> TRUE, port_config_sync |-> b[k],
             is_traffic_disable |-> FALSE, isolate_to_peer_link |-> FALSE,
             isolated |-> FALSE, pif |-> "none", out |-> << >>]]
    BY DEF Init
  <1>2. /\ node[n].current_state = "INIT"
        /\ node[n].pif = "none" /\ node[n].out = << >>
    BY <1>1
  <1>3. /\ ~node[n].purge /\ ~node[n].need_to_sync
        /\ ~node[n].isolated /\ ~node[n].is_traffic_disable
        /\ node[n].changed
    BY <1>1
  <1>4. node[n].po_active = node[n].state
    BY <1>1
  <1> QED
    BY <1>2, <1>3, <1>4

\* The invariant holds in every initial state without removals ...
LEMMA SyncInit ==
  ASSUME MaxUnbinds = 0, Init
  PROVE  SyncInv
  <1>1. left.unbinds = 0
    BY DEF Init
  <1>2. up = {} /\ inst = {} /\ \A n \in Node : chan[n] = << >>
    BY DEF Init, Session!SessionInit, NoMessages
  <1>3. \A n \in Node : /\ node[n].current_state = "INIT"
                        /\ node[n].pif = "none" /\ node[n].out = << >>
                        /\ ~node[n].purge /\ ~node[n].need_to_sync
                        /\ ~node[n].isolated /\ ~node[n].is_traffic_disable
                        /\ node[n].changed
                        /\ node[n].po_active = node[n].state
    BY InitNode
  <1>4. \A n \in Node : Local(node[n])
    BY <1>3 DEF Local, Base, Isolates, Exchange
  <1>5. Active \in Node /\ Standby \in Node
    BY DEF Node
  <1>6. Phase
    BY <1>2, <1>3, <1>5 DEF Phase
  <1>7. Views
    BY <1>2 DEF Views
  <1> QED
    BY <1>1, <1>3, <1>4, <1>6, <1>7 DEF SyncInv

\* ... and every step keeps it.
LEMMA SyncStep ==
  ASSUME TypeOK, SyncInv, Next
  PROVE  SyncInv'
  <1> PICK n \in Node :
        \/ Up(n) \/ Transit(n) \/ Leave(n) \/ LeaveAfterPeer(n)
        \/ LinkChange(n) \/ VlanChange(n) \/ Bind(n) \/ Unbind(n)
    BY DEF Next
  <1>1. ~Unbind(n)
    BY SMT DEF Unbind, SyncInv
  <1> QED
    BY <1>1, UpSync, TransitSync, LeaveSync, LinkSync, VlanSync, BindSync

\* The invariant of the synchronisation holds as long as no port-channel is
\* taken out of the domain.
LEMMA SyncInvariant == MaxUnbinds = 0 => (Spec => [](TypeOK /\ SyncInv))
  <1> SUFFICES ASSUME MaxUnbinds = 0
               PROVE  Spec => [](TypeOK /\ SyncInv)
    OBVIOUS
  <1>1. Init => SyncInv
    BY SyncInit
  <1>2. TypeOK /\ SyncInv /\ [Next]_vars => SyncInv'
    <2>1. ASSUME SyncInv, UNCHANGED vars
          PROVE  SyncInv'
      BY <2>1 DEF vars, SyncInv, Phase, Views
    <2>2. ASSUME TypeOK, SyncInv, Next
          PROVE  SyncInv'
      BY <2>2, SyncStep
    <2> QED  BY <2>1, <2>2
  <1> QED
    BY <1>1, <1>2, TypeCorrect, PTL DEF Spec

\* As long as no port-channel is taken out of the domain, the peers go through
\* the stages of mlacp_fsm_transit in step.
THEOREM StagesInStepAlways ==
  MaxUnbinds = 0 => (Spec => []StagesInStep)
  <1>1. TypeOK /\ SyncInv => StagesInStep
    <2> SUFFICES ASSUME TypeOK, SyncInv, up = Node
                 PROVE  StagesInStep
      BY DEF StagesInStep
    <2>1. Active \in up /\ Standby \in up
      BY DEF Node
    <2>2. /\ Queue(Active, node[Active], chan[Active])
          /\ Joint(node[Active], node[Standby], chan[Active], chan[Standby])
      BY <2>1 DEF SyncInv, Phase
    <2>3. node[Active].current_state \in {"STAGE1", "STAGE2", "EXCHANGE"}
      BY <2>2 DEF Queue
    <2> QED
      BY <2>2, <2>3 DEF StagesInStep, Joint
  <1> QED
    BY <1>1, SyncInvariant, PTL

\* As long as no port-channel is taken out of the domain, mlacp_fsm_transit does
\* not reach MLACP_STATE_ERROR.
THEOREM NoErrorWithoutRemoval ==
  MaxUnbinds = 0 => (Spec => []NoError)
  <1>1. TypeOK /\ SyncInv => NoError
    <2> SUFFICES ASSUME TypeOK, SyncInv, NEW n \in Node
                 PROVE  node[n].current_state # "ERROR"
      BY DEF NoError
    <2>1. n \in up => Queue(n, node[n], chan[n])
      BY DEF SyncInv, Phase
    <2>2. n \notin up => node[n].current_state = "INIT"
      BY DEF SyncInv, Phase
    <2> QED
      BY <2>1, <2>2 DEF Queue
  <1> QED
    BY <1>1, SyncInvariant, PTL

\* As long as no port-channel is taken out of the domain, nothing is isolated
\* and no member port-channel is blocked while the session is down or being
\* synchronised.
THEOREM CleanWithoutSessionAlways ==
  MaxUnbinds = 0 => (Spec => []CleanWithoutSession)
  <1>1. TypeOK /\ SyncInv => CleanWithoutSession
    BY DEF SyncInv, Local, Base, Exchange, CleanWithoutSession
  <1> QED
    BY <1>1, SyncInvariant, PTL

\* With nothing left to do, a peer interface is what the peer reported last.
LEMMA QuietView ==
  ASSUME TypeOK, SyncInv, Quiet, NEW n \in Node
  PROVE  node[n].pif = IF ~node[Peer(n)].bound THEN "none"
                       ELSE StateName(node[Peer(n)])
  <1> DEFINE p == Peer(n)
             s == node[p]
             v == node[n].pif
             x == StateName(s)
  <1>1. p \in Node /\ Peer(p) = n
    BY Peers
  <1>2. /\ s \in NodeState /\ Local(s) /\ s.out = << >>
        /\ Exchange(s) /\ FsmTransit(p, s, None) = s
        /\ up = Node /\ chan[n] = << >>
    BY <1>1 DEF TypeOK, SyncInv, Quiet
  <1>3. View(s, << >>, v)
    <2>1. HasSent(p, s)
      BY <1>2 DEF HasSent
    <2> QED  BY <1>1, <1>2, <2>1 DEF SyncInv, Views
  <1>4. s.bound => ~s.changed
    <2>1. << >> \in Seq(Msg) /\ None \in Update \cup {None}
      BY SMT
    <2> HIDE DEF s
    <2>2. LET r == FsmTransit(p, s, None) IN r.bound => ~r.changed
      BY <1>1, <1>2, <2>1, TurnExchange
    <2> QED  BY <1>2, <2>2
  <1>5. Known(<< >>, v, x) => v = x
    <2>1. DOMAIN << >> = {}
      BY SMT
    <2> HIDE DEF v, x
    <2> QED  BY <2>1 DEF Known
  <1>6. s.bound \in BOOLEAN
    BY <1>2 DEF NodeState
  <1> QED
    BY <1>3, <1>4, <1>5, <1>6 DEF View

\* As long as no port-channel is taken out of the domain, both peers have the
\* right view of each other when there is nothing left to do, whatever link
\* changes, new members and session losses came before.
THEOREM PeerViewConvergesAlways ==
  MaxUnbinds = 0 => (Spec => []PeerViewConverges)
  <1>1. TypeOK /\ SyncInv => PeerViewConverges
    BY QuietView DEF PeerViewConverges, StateName
  <1> QED
    BY <1>1, SyncInvariant, PTL

\* As long as no port-channel is taken out of the domain, a port-channel is
\* isolated from the peer link exactly if it is up on both peers, when there is
\* nothing left to do.
THEOREM IsolationConvergesAlways ==
  MaxUnbinds = 0 => (Spec => []IsolationConverges)
  <1>1. TypeOK /\ SyncInv => IsolationConverges
    <2> SUFFICES ASSUME TypeOK, SyncInv, Quiet, NEW n \in Node,
                        node[n].bound, node[n].state, node[Peer(n)].bound
                 PROVE  node[n].isolated = node[Peer(n)].state
      BY DEF IsolationConverges
    <2>1. /\ node[n] \in NodeState /\ node[Peer(n)] \in NodeState
      BY Peers DEF TypeOK
    <2>2. node[n].pif = StateName(node[Peer(n)])
      BY QuietView
    <2>3. node[n].isolated <=> node[n].pif # "down"
      BY DEF SyncInv, Local, Isolates, Quiet
    <2>4. node[n].isolated <=> node[Peer(n)].state
      BY <2>2, <2>3 DEF StateName
    <2>5. node[n].isolated \in BOOLEAN /\ node[Peer(n)].state \in BOOLEAN
      BY <2>1 DEF NodeState
    <2> QED
      BY <2>4, <2>5
  <1> QED
    BY <1>1, SyncInvariant, PTL

-----------------------------------------------------------------------------
(* A port-channel that is no member is not isolated in the exchange, with  *)
(* any number of removals.                                                 *)
(*                                                                         *)
(* Apart is inductive for each node: a handler isolates only a member, a   *)
(* removal in the exchange empties the isolation group first, and the turn *)
(* that enters the exchange computes the group anew.                       *)

Apart(s) == Exchange(s) /\ ~s.bound => ~s.isolated

\* t follows s, and only a member has been isolated since.
Closer(s, t) ==
  /\ t.current_state = s.current_state
  /\ t.bound = s.bound
  /\ t.isolated => s.isolated \/ s.bound

\* Such a handler keeps Apart, and so do two of them.
LEMMA CloserApart ==
  ASSUME NEW s, NEW t, NEW u, Closer(s, t)
  PROVE  /\ Apart(s) => Apart(t)
         /\ Closer(t, u) => Closer(s, u)
  BY DEF Closer, Apart, Exchange

\* The handlers of the isolation and of the traffic.
LEMMA FrameCloser ==
  ASSUME NEW s \in NodeState, NEW ms \in Seq(Msg), NEW b \in BOOLEAN
  PROVE  /\ Closer(s, s)
         /\ Closer(s, Send(s, ms))
         /\ Closer(s, UpdateIsolateFromPif(s, b))
         /\ Closer(s, UpdateIsolateFromLif(s, b))
         /\ Closer(s, DisableTraffic(s)) /\ Closer(s, EnableTraffic(s))
  <1>1. Closer(s, s)
    BY DEF Closer
  <1>2. Closer(s, Send(s, ms))
    BY DEF Closer, Send, NodeState
  <1>3. Closer(s, UpdateIsolateFromPif(s, b))
    BY UpdateIsolateEffect DEF Closer, OnlyIsolation
  <1>4. Closer(s, UpdateIsolateFromLif(s, b))
    BY UpdateIsolateEffect DEF Closer, OnlyIsolation
  <1>5. Closer(s, DisableTraffic(s))
    BY DEF Closer, DisableTraffic, NodeState
  <1>6. Closer(s, EnableTraffic(s))
    BY DEF Closer, EnableTraffic, NodeState
  <1> QED
    BY <1>1, <1>2, <1>3, <1>4, <1>5, <1>6

\* The messages about the peer interface.
LEMMA PifUpdateCloser ==
  ASSUME NEW s \in NodeState, NEW b \in BOOLEAN
  PROVE  /\ Closer(s, UpdateAggConf(s, b))
         /\ Closer(s, UpdateAggportState(s, b))
         /\ Closer(s, SendIfUpAck(UpdateAggportState(s, b)))
  <1>0. << >> \in Seq(Msg) /\ TRUE \in BOOLEAN /\ FALSE \in BOOLEAN
    BY SMT
  <1>1. Closer(s, s)
    BY DEF Closer
  <1>2. ASSUME NEW x \in {"none", "up", "down"}, NEW c \in BOOLEAN
        PROVE  /\ Closer(s, [s EXCEPT !.pif = x])
               /\ Closer(s, UpdateIsolateFromPif([s EXCEPT !.pif = x], c))
    <2> DEFINE t == [s EXCEPT !.pif = x]
    <2>1. t \in NodeState /\ Closer(s, t)
      BY DEF NodeState, Closer
    <2> HIDE DEF t
    <2>2. Closer(t, UpdateIsolateFromPif(t, c))
      BY <1>0, <2>1, FrameCloser
    <2>3. Closer(s, UpdateIsolateFromPif(t, c))
      BY <2>1, <2>2, CloserApart
    <2> QED
      BY <2>1, <2>3 DEF t
  <1>3. Closer(s, [s EXCEPT !.need_to_sync = TRUE])
    BY DEF NodeState, Closer
  <1>4. /\ Closer(s, [s EXCEPT !.pif = "none"])
        /\ Closer(s, UpdateIsolateFromPif([s EXCEPT !.pif = "up"], TRUE))
        /\ Closer(s, UpdateIsolateFromPif([s EXCEPT !.pif = "down"], FALSE))
    BY <1>2
  <1>5. Closer(s, UpdateAggConf(s, b))
    <2>1. CASE b
      BY <2>1, <1>3, <1>4 DEF UpdateAggConf
    <2>2. CASE ~b
      BY <2>2, <1>1, <1>4 DEF UpdateAggConf
    <2> QED  BY <2>1, <2>2
  <1>6. Closer(s, UpdateAggportState(s, b))
    <2>1. CASE b
      <3> QED  BY <1>1, <1>4 DEF UpdateAggportState
    <2>2. CASE ~b
      <3> QED  BY <1>1, <1>4 DEF UpdateAggportState
    <2> QED  BY <2>1, <2>2
  <1>7. Closer(s, SendIfUpAck(UpdateAggportState(s, b)))
    <2> DEFINE t == UpdateAggportState(s, b)
    <2>1. t \in NodeState  BY PifUpdateType
    <2>2. <<"IF_UP_ACK">> \in Seq(Msg)  BY SMT DEF Msg
    <2>3. Closer(s, t)
      BY <1>6
    <2> HIDE DEF t
    <2>4. Closer(t, Send(t, <<"IF_UP_ACK">>))
      BY <2>1, <2>2, FrameCloser
    <2>5. Closer(s, Send(t, <<"IF_UP_ACK">>))
      BY <2>3, <2>4, CloserApart
    <2> QED
      BY <2>3, <2>5 DEF SendIfUpAck, t
  <1> QED
    BY <1>5, <1>6, <1>7

\* A message of the exchange: a request leaves it, for the error state.
LEMMA ReceiveApart ==
  ASSUME NEW s \in NodeState, NEW m \in Msg, Exchange(s), Apart(s)
  PROVE  Apart(Receive(s, m))
  <1>1. CASE m = "SYNC_REQ"
    <2>1. Receive(s, m) = SendAllInfo(s)
      BY <1>1 DEF Receive
    <2>2. ~Exchange(SendAllInfo(s))
      <3> DEFINE data == IF s.bound THEN <<"CONFIG", StateMsg(s)>> ELSE << >>
                 t == Send(s, <<"SYNC_START">> \o data \o <<"SYNC_DONE">>)
                 c == IF s.bound THEN FALSE ELSE t.changed
                 p == IF s.bound THEN FALSE ELSE t.port_config_sync
                 st == NextStage(t.current_state)
      <3>1. /\ t.current_state = s.current_state
            /\ DOMAIN t = DOMAIN s
        BY DEF Send, NodeState
      <3>2. st = "ERROR"
        <4> HIDE DEF t
        <4> QED  BY <3>1 DEF Exchange, NextStage
      <3>3. SendAllInfo(s) = [t EXCEPT !.changed = c, !.port_config_sync = p,
                                       !.wait_for_sync_data = FALSE,
                                       !.current_state = st]
        BY DEF SendAllInfo
      <3> HIDE DEF t, c, p, st
      <3>4. "current_state" \in DOMAIN t
        BY <3>1 DEF NodeState
      <3> QED
        BY <3>2, <3>3, <3>4 DEF Exchange
    <2> QED
      BY <2>1, <2>2 DEF Apart
  <1>2. CASE m # "SYNC_REQ"
    <2>1. Closer(s, [s EXCEPT !.wait_for_sync_data = FALSE])
      BY DEF Closer, NodeState
    <2>2. /\ Closer(s, s) /\ Closer(s, RecvIfUpAck(s))
      <3>1. << >> \in Seq(Msg) /\ TRUE \in BOOLEAN  BY SMT
      <3> QED  BY <3>1, FrameCloser DEF RecvIfUpAck
    <2>3. /\ Closer(s, UpdateAggConf(s, TRUE))
          /\ Closer(s, UpdateAggConf(s, FALSE))
          /\ Closer(s, SendIfUpAck(UpdateAggportState(s, TRUE)))
          /\ Closer(s, UpdateAggportState(s, FALSE))
      BY PifUpdateCloser
    <2>4. Closer(s, Receive(s, m))
      BY <1>2, <2>1, <2>2, <2>3 DEF Receive, Msg
    <2> QED
      BY <2>4, CloserApart
  <1> QED
    BY <1>1, <1>2

\* What mlacp_exchange_handler sends changes no isolation.
LEMMA ExchangeApart ==
  ASSUME NEW s \in NodeState, NEW m \in Msg \cup {None}, Exchange(s), Apart(s)
  PROVE  Apart(ExchangeHandler(s, m))
  <1>1. /\ <<"PURGE">> \in Seq(Msg)
        /\ <<"CONFIG">> \in Seq(Msg)
        /\ <<"SYNC_REQ">> \in Seq(Msg)
    BY SMT DEF Msg
  <1>2. ASSUME NEW r \in NodeState, NEW t \in NodeState, NEW ms \in Seq(Msg),
               Apart(r), Closer(r, t)
        PROVE  Send(t, ms) \in NodeState /\ Apart(Send(t, ms))
    <2>1. Closer(t, Send(t, ms))
      BY FrameCloser
    <2> QED  BY <1>2, <2>1, CloserApart, SendType
  <1>3. ASSUME NEW r \in NodeState, Apart(r)
        PROVE  SendSyncRequest(r) \in NodeState /\ Apart(SendSyncRequest(r))
    <2> DEFINE t == [r EXCEPT !.need_to_sync = FALSE]
    <2>1. t \in NodeState /\ Closer(r, t)
      BY DEF NodeState, Closer
    <2> HIDE DEF t
    <2>2. Send(t, <<"SYNC_REQ">>) \in NodeState /\ Apart(Send(t, <<"SYNC_REQ">>))
      BY <1>1, <1>2, <1>3, <2>1
    <2> QED
      BY <1>3, <2>2 DEF SendSyncRequest, t
  <1>4. ASSUME NEW r \in NodeState, Apart(r)
        PROVE  SendPurge(r) \in NodeState /\ Apart(SendPurge(r))
    <2> DEFINE t == [r EXCEPT !.purge = FALSE]
               u == Send(t, <<"PURGE">>)
    <2>1. t \in NodeState /\ Closer(r, t)
      BY DEF NodeState, Closer
    <2> HIDE DEF t
    <2>2. u \in NodeState /\ Apart(u)
      BY <1>1, <1>2, <1>4, <2>1
    <2> HIDE DEF u
    <2>3. EnableTraffic(u) \in NodeState /\ Apart(EnableTraffic(u))
      BY <1>1, <2>2, TrafficType, FrameCloser, CloserApart
    <2> QED
      BY <1>4, <2>3 DEF SendPurge, u, t
  <1>5. ASSUME NEW r \in NodeState, Apart(r)
        PROVE  SendConfig(r) \in NodeState /\ Apart(SendConfig(r))
    <2> DEFINE d == DisableTraffic(r)
               t == [d EXCEPT !.port_config_sync = FALSE]
    <2>1. d \in NodeState /\ Closer(r, d)
      BY <1>1, TrafficType, FrameCloser
    <2> HIDE DEF d
    <2>2. t \in NodeState /\ Closer(d, t)
      BY <2>1 DEF NodeState, Closer
    <2> HIDE DEF t
    <2>3. Closer(r, t)
      BY <2>1, <2>2, CloserApart
    <2>4. Send(t, <<"CONFIG">>) \in NodeState /\ Apart(Send(t, <<"CONFIG">>))
      BY <1>1, <1>2, <1>5, <2>2, <2>3
    <2> QED
      BY <1>5, <2>4 DEF SendConfig, t, d
  <1>6. ASSUME NEW r \in NodeState, Apart(r)
        PROVE  Apart(SendState(r))
    <2> DEFINE t == [r EXCEPT !.changed = FALSE]
    <2>1. t \in NodeState /\ Closer(r, t)
      BY DEF NodeState, Closer
    <2>2. <<StateMsg(r)>> \in Seq(Msg)
      <3>1. StateMsg(r) \in Msg  BY StateMsgType
      <3> QED  BY <3>1, SMT
    <2> HIDE DEF t
    <2>3. Apart(Send(t, <<StateMsg(r)>>))
      BY <1>2, <1>6, <2>1, <2>2
    <2> QED
      BY <1>6, <2>3 DEF SendState, t
  <1> DEFINE t == IF m = None THEN s ELSE Receive(s, m)
  <1>7. t \in NodeState /\ Apart(t)
    BY ReceiveType, ReceiveApart
  <1> HIDE DEF t
  <1>8. Apart(SendState(SendConfig(SendPurge(SendSyncRequest(t)))))
    BY <1>3, <1>4, <1>5, <1>6, <1>7
  <1> QED
    BY <1>8 DEF ExchangeHandler, t

\* A pass keeps Apart: whatever the stages leave, mlacp_peer_conn_handler
\* computes the isolation group when the exchange begins.
LEMMA FsmTransitApart ==
  ASSUME NEW n \in Node, NEW s \in NodeState, NEW m \in Msg \cup {None},
         Good(s), Apart(s)
  PROVE  Apart(FsmTransit(n, s, m))
  <1>1. ASSUME NEW r \in NodeState, Weak(r), Exchange(r)
        PROVE  Apart(PeerConnHandler(r))
    <2> DEFINE q == IF r.bound THEN PortchannelStateHandler(r, r.state) ELSE r
    <2>1. q \in NodeState
      <3>1. r.state \in BOOLEAN
        BY DEF NodeState
      <3>2. PortchannelStateHandler(r, r.state) \in NodeState
        BY <3>1, PortchannelStateType
      <3> QED  BY <3>2
    <2> HIDE DEF q
    <2>2. /\ UpdateIsolateFromAllLif(q).bound = q.bound
          /\ UpdateIsolateFromAllLif(q).isolated => q.bound
      <3> QED
        BY <2>1, SetPortIsolateEffect DEF OnlyIsolation
    <2> QED
      BY <2>2 DEF PeerConnHandler, q, Apart
  <1>2. ASSUME NEW r \in NodeState, NEW k \in Msg \cup {None}, NEW prev,
               Weak(r), prev = "EXCHANGE" => Apart(r),
               Exchange(r) \/ k = None
        PROVE  Apart(Pass(n, r, k, prev))
    <2> DEFINE i == [r EXCEPT !.wait_for_sync_data = FALSE,
                              !.current_state = "STAGE1"]
               t == IF Exchange(r) /\ prev # "EXCHANGE" THEN PeerConnHandler(r)
                    ELSE r
               q == Pass(n, r, k, prev)
    <2>1. CASE r.current_state = "INIT"
      <3>1. i \in NodeState /\ Weak(i) /\ i.current_state = "STAGE1"
        BY <1>2 DEF NodeState, MlacpState, Weak
      <3>2. q = StageHandler(n, i, k) /\ k = None
        BY <1>2, <2>1 DEF Pass, Exchange
      <3> HIDE DEF i, q
      <3>3. q.current_state = "STAGE1"
        BY <3>1, <3>2, StageWeak
      <3> QED
        BY <3>3 DEF Apart, Exchange, q
    <2>2. CASE r.current_state \in {"STAGE1", "STAGE2"}
      <3>1. q = StageHandler(n, r, k) /\ k = None
        BY <1>2, <2>2 DEF Pass, Exchange
      <3> HIDE DEF q
      <3>2. q.current_state = r.current_state
        BY <1>2, <3>1, StageWeak
      <3> QED
        BY <2>2, <3>2 DEF Apart, Exchange, q
    <2>3. CASE r.current_state = "EXCHANGE"
      <3>1. q = ExchangeHandler(t, k)
        BY <2>3 DEF Pass
      <3>2. t \in NodeState /\ Apart(t) /\ Exchange(t)
        BY <1>1, <1>2, <2>3, PeerConnGood DEF Exchange
      <3> HIDE DEF t, q
      <3>3. Apart(q)
        BY <3>1, <3>2, ExchangeApart
      <3> QED
        BY <3>3 DEF q
    <2>4. CASE r.current_state = "ERROR"
      <3>1. q = r
        BY <2>4 DEF Pass
      <3> QED
        BY <2>4, <3>1 DEF Apart, Exchange
    <2>5. r.current_state \in MlacpState
      BY DEF NodeState
    <2> QED
      BY <2>1, <2>2, <2>3, <2>4, <2>5 DEF MlacpState
  <1> DEFINE st == s.current_state
             t == Pass(n, s, m, st)
             u == Pass(n, t, None, st)
  <1>3. /\ Exchange(s) \/ m = None => Apart(t)
    BY <1>2 DEF Good
  <1>4. st = "EXCHANGE" => Apart(t)
    BY <1>3 DEF Exchange
  <1>5. t \in NodeState /\ Weak(t)
    <2>1. st \in MlacpState /\ Weak(s)
      BY DEF NodeState, Good
    <2> QED  BY <2>1, PassWeak
  <1>6. Apart(u)
    <2> HIDE DEF t, st
    <2>1. None \in Msg \cup {None}  OBVIOUS
    <2> QED  BY <1>2, <1>4, <1>5, <2>1
  <1> QED
    BY <1>3, <1>6 DEF FsmTransit

\* Every step keeps Apart of both nodes.
LEMMA ApartStep ==
  ASSUME TypeOK, \A p \in Node : Good(node[p]) /\ Apart(node[p]), Next
  PROVE  \A p \in Node : Apart(node'[p])
  <1> PICK n \in Node :
        \/ Up(n) \/ Transit(n) \/ Leave(n) \/ LeaveAfterPeer(n)
        \/ LinkChange(n) \/ VlanChange(n) \/ Bind(n) \/ Unbind(n)
    BY DEF Next
  <1> DEFINE o == node[n]
  <1>0. << >> \in Seq(Msg) /\ TRUE \in BOOLEAN /\ FALSE \in BOOLEAN
    BY SMT
  <1>1. o \in NodeState /\ Good(o) /\ Apart(o) /\ chan[n] \in Seq(Msg)
    BY DEF TypeOK
  <1>2. SUFFICES \E s \in NodeState : \E ch : Commit(n, s, ch) /\ Apart(s)
    <2>1. PICK s \in NodeState : \E ch : Commit(n, s, ch) /\ Apart(s)
      OBVIOUS
    <2> DEFINE t == [s EXCEPT !.out = << >>]
    <2>2. Closer(s, t)
      BY DEF Closer, NodeState
    <2> HIDE DEF t
    <2>3. Apart(t)
      BY <2>1, <2>2, CloserApart
    <2>4. node' = [node EXCEPT ![n] = t]
      BY <2>1 DEF Commit, t
    <2> QED
      BY <2>3, <2>4 DEF TypeOK
  <1> HIDE DEF o
  <1>3. /\ FsmTransit(n, o, None) \in NodeState
        /\ Apart(FsmTransit(n, o, None))
    <2> QED  BY <1>1, FsmTransitType, FsmTransitApart
  <1>4. CASE Up(n)
    BY <1>3, <1>4 DEF Up, o
  <1>5. CASE Transit(n)
    <2>1. CASE chan[n] = << >>
      BY <1>3, <1>5, <2>1 DEF Transit, o
    <2>2. CASE chan[n] # << >>
      <3> DEFINE r == FsmTransit(n, o, Head(chan[n]))
      <3>1. Head(chan[n]) \in Msg
        BY <1>1, <2>2, SMT
      <3>2. r \in NodeState /\ Apart(r)
        BY <1>1, <3>1, FsmTransitType, FsmTransitApart
      <3>3. Commit(n, r, [chan EXCEPT ![n] = Tail(chan[n])])
        BY <1>5, <2>2 DEF Transit, o
      <3> HIDE DEF r
      <3> QED  BY <3>2, <3>3
    <2> QED  BY <2>1, <2>2
  <1>6. CASE Leave(n) \/ LeaveAfterPeer(n)
    <2> DEFINE d == PeerDisconn(o)
               r == MlacpReset(d)
    <2>1. r \in NodeState
      BY <1>1, DisconnectType
    <2>2. d \in NodeState
      BY <1>1, SetPortIsolateType, TrafficType DEF PeerDisconn
    <2> HIDE DEF d
    <2>3. r.current_state = "INIT"
      BY <2>2 DEF MlacpReset, NodeState
    <2>4. Commit(n, r, [chan EXCEPT ![n] = << >>])
      BY <1>6 DEF Leave, LeaveAfterPeer, SessionDisconnect, d, o
    <2> HIDE DEF r
    <2>5. Apart(r)
      BY <2>3 DEF Apart, Exchange
    <2> QED
      BY <2>1, <2>4, <2>5
  <1>7. CASE LinkChange(n)
    <2> DEFINE u == ~o.state
               s == [o EXCEPT !.state = u]
               x == [s EXCEPT !.po_active = u]
               i == UpdateIsolateFromLif(s, u)
               k == UpdatePoIfInfo(i, u)
               r == IF s.bound THEN PortchannelStateHandler(s, u) ELSE x
    <2>1. u \in BOOLEAN /\ s \in NodeState /\ Closer(o, s)
      BY <1>1 DEF NodeState, Closer
    <2>2. Commit(n, r, chan)
      BY <1>7 DEF LinkChange, o
    <2> HIDE DEF s, u
    <2>3. x \in NodeState /\ Closer(s, x)
      BY <2>1 DEF NodeState, Closer
    <2>4. PortchannelStateHandler(s, u) \in NodeState
      BY <2>1, PortchannelStateType
    <2>5. Closer(s, PortchannelStateHandler(s, u))
      <3>1. i \in NodeState /\ Closer(s, i)
        BY <1>0, <2>1, UpdateIsolateType, FrameCloser
      <3> HIDE DEF i
      <3>2. k \in NodeState /\ Closer(i, k)
        <4> DEFINE c == [i EXCEPT !.changed = TRUE, !.po_active = u]
        <4>1. c \in NodeState /\ Closer(i, c)
          BY <2>1, <3>1 DEF NodeState, Closer
        <4>2. Closer(i, i)
          BY DEF Closer
        <4> QED  BY <3>1, <4>1, <4>2 DEF UpdatePoIfInfo
      <3> HIDE DEF k
      <3>3. Closer(k, k) /\ Closer(k, DisableTraffic(k))
        BY <1>0, <3>2, FrameCloser
      <3>4. Closer(s, k) /\ Closer(s, DisableTraffic(k))
        BY <3>1, <3>2, <3>3, CloserApart
      <3> QED
        BY <3>4 DEF PortchannelStateHandler, k, i
    <2>6. r \in NodeState /\ Apart(r)
      <3>1. Apart(s)
        BY <1>1, <2>1, CloserApart
      <3> HIDE DEF x
      <3> QED  BY <2>3, <2>4, <2>5, <3>1, CloserApart
    <2> HIDE DEF r
    <2> QED  BY <2>2, <2>6
  <1>8. CASE VlanChange(n)
    <2> DEFINE r == [o EXCEPT !.port_config_sync = TRUE]
    <2>1. r \in NodeState /\ Closer(o, r)
      BY <1>1 DEF NodeState, Closer
    <2>2. Commit(n, r, chan)
      BY <1>8 DEF VlanChange, o
    <2> HIDE DEF r
    <2> QED  BY <1>1, <2>1, <2>2, CloserApart
  <1>9. CASE Bind(n)
    <2> DEFINE s == [o EXCEPT !.bound = TRUE, !.purge = FALSE,
                              !.port_config_sync = TRUE]
               r == UpdateIsolateFromLif(s, s.po_active)
    <2>1. s \in NodeState /\ s.bound /\ s.po_active \in BOOLEAN
      BY <1>1 DEF NodeState
    <2>2. Commit(n, r, chan)
      BY <1>9 DEF Bind, o
    <2> HIDE DEF s
    <2>3. r \in NodeState /\ Closer(s, r)
      BY <1>0, <2>1, UpdateIsolateType, FrameCloser
    <2>4. Apart(r)
      BY <2>1, <2>3 DEF Apart, Closer
    <2> HIDE DEF r
    <2> QED  BY <2>2, <2>3, <2>4
  <1>10. CASE Unbind(n)
    <2>1. PICK k \in BOOLEAN :
            Commit(n, [IntfDetach(o, k) EXCEPT
                         !.bound = FALSE, !.purge = Exchange(o)], chan)
      BY <1>10 DEF Unbind, o
    <2> DEFINE i == IF Exchange(o) THEN SetPortIsolate(o, FALSE) ELSE o
               d == IntfDetach(o, k)
               x == Exchange(o)
               r == [d EXCEPT !.bound = FALSE, !.purge = x]
    <2>2. /\ i \in NodeState /\ i.current_state = o.current_state
          /\ Exchange(o) => ~i.isolated
      BY <1>0, <1>1, SetPortIsolateType, SetPortIsolateEffect, ZenonT(30)
      DEF OnlyIsolation
    <2>3. d = IF k THEN i ELSE EnableTraffic(i)
      BY DEF IntfDetach
    <2> HIDE DEF i, d
    <2>4. /\ d \in NodeState /\ d.current_state = i.current_state
          /\ d.isolated = i.isolated
      <3>1. /\ EnableTraffic(i) \in NodeState
            /\ EnableTraffic(i).current_state = i.current_state
            /\ EnableTraffic(i).isolated = i.isolated
        BY <2>2, TrafficType, SMT DEF EnableTraffic, NodeState
      <3> QED  BY <2>2, <2>3, <3>1
    <2>5. x \in BOOLEAN
      BY DEF Exchange
    <2>6. /\ r \in NodeState /\ r.current_state = d.current_state
          /\ r.isolated = d.isolated
      <3> HIDE DEF x
      <3> QED  BY <2>4, <2>5 DEF NodeState
    <2>7. Commit(n, r, chan)
      BY <2>1 DEF d
    <2> HIDE DEF r
    <2>8. Apart(r)
      BY <2>2, <2>4, <2>6 DEF Apart, Exchange
    <2> QED  BY <2>6, <2>7, <2>8
  <1> QED
    BY <1>4, <1>5, <1>6, <1>7, <1>8, <1>9, <1>10

\* A port-channel that was taken out of the domain is not isolated in the
\* exchange, whatever the number of removals, link changes and session losses.
THEOREM UnboundNotIsolatedAlways == Spec => []UnboundNotIsolated
  <1> DEFINE GoodInv == \A p \in Node : Good(node[p])
             ApartInv == \A p \in Node : Apart(node[p])
  <1>1. Init => ApartInv
    <2> SUFFICES ASSUME Init, NEW p \in Node PROVE Apart(node[p])
      OBVIOUS
    <2>1. node[p].current_state = "INIT"
      BY InitNode
    <2> QED
      BY <2>1 DEF Apart, Exchange
  <1>2. TypeOK /\ GoodInv /\ ApartInv /\ [Next]_vars => ApartInv'
    <2>1. ASSUME ApartInv, UNCHANGED vars PROVE ApartInv'
      BY <2>1 DEF vars, Apart
    <2>2. ASSUME TypeOK, GoodInv, ApartInv, Next PROVE ApartInv'
      BY <2>2, ApartStep
    <2> QED
      BY <2>1, <2>2
  <1>3. ApartInv => UnboundNotIsolated
    BY DEF Apart, UnboundNotIsolated
  <1>4. Spec => [](TypeOK /\ GoodInv)
    BY GoodInvariant
  <1> QED
    BY <1>1, <1>2, <1>3, <1>4, PTL DEF Spec

-----------------------------------------------------------------------------
(* The synchronisation with removals.                                      *)
(*                                                                         *)
(* A removal may lead to MLACP_STATE_ERROR, and what the peers know of     *)
(* each other is lost with it.  The order of the synchronisation is not:   *)
(* OrderInv says of the stages and the queues what SyncInv does, but       *)
(* nothing of a node that is past the stages, nor of what it sends.        *)

Past(s) == s.current_state \in {"EXCHANGE", "ERROR"}

\* q holds the rest of an answer, and then anything.
AnswerFirst(q) ==
  \E k \in DOMAIN q : /\ q[k] = "SYNC_DONE"
                      /\ \A i \in DOMAIN q : i < k => q[i] \in Early

\* What the queue q of a node n in state s can hold while n is up.
Awaited(n, s, q) ==
  \/ /\ s.current_state = "STAGE1" /\ n = Active
     /\ ~s.wait_for_sync_data /\ q \in {<< >>, <<"SYNC_REQ">>}
  \/ /\ s.current_state = "STAGE2" /\ n = Active
     /\ s.wait_for_sync_data /\ (q = << >> \/ AnswerFirst(q))
  \/ /\ s.current_state = "STAGE1" /\ n = Standby
     /\ s.wait_for_sync_data /\ (q = << >> \/ AnswerAndRequest(q))
  \/ /\ s.current_state = "STAGE2" /\ n = Standby
     /\ ~s.wait_for_sync_data /\ q = <<"SYNC_REQ">>
  \/ Past(s)

\* Both nodes are up in the same session.
InStep(a, s, qa, qs) ==
  /\ a.current_state = "STAGE1" =>
       s.current_state = "STAGE1" /\ qa = <<"SYNC_REQ">> /\ qs = << >>
  /\ a.current_state = "STAGE2" /\ ~Past(s) => qa = << >> /\ qs # << >>
  /\ a.current_state = "STAGE2" /\ Past(s) => qa # << >>
  /\ Past(a) => Past(s)

OrderInv ==
  /\ \A n \in Node : node[n].out = << >>
  /\ \A n \in Node : n \notin up => node[n].current_state = "INIT"
  /\ up \subseteq inst
  /\ up = {} => /\ inst = {} /\ chan[Standby] = << >>
                /\ chan[Active] \in {<< >>, <<"SYNC_REQ">>}
  /\ \A n \in Node : up # {} /\ n \notin inst => chan[n] = << >>
  /\ \A n \in up : Awaited(n, node[n], chan[n])
  /\ up = Node => InStep(node[Active], node[Standby], chan[Active], chan[Standby])
  /\ inst = Node /\ up = {Active} =>
       /\ node[Active].current_state = "STAGE1"
       /\ chan[Active] = << >> /\ chan[Standby] = << >>
  /\ inst = Node /\ up = {Standby} =>
       /\ node[Standby].current_state = "STAGE1"
       /\ chan[Active] = <<"SYNC_REQ">> /\ chan[Standby] = << >>

\* s and t are in the same stage, and have written the same.
SameStage(s, t) ==
  /\ t.current_state = s.current_state
  /\ t.wait_for_sync_data = s.wait_for_sync_data
  /\ t.out = s.out

\* Isolation and traffic distribution do not touch the stages.
LEMMA LinkStage ==
  ASSUME NEW s \in NodeState, NEW b \in BOOLEAN
  PROVE  /\ SameStage(s, SetPortIsolate(s, b))
         /\ SameStage(s, UpdateIsolateFromAllLif(s))
         /\ SameStage(s, UpdateIsolateFromPif(s, b))
         /\ SameStage(s, UpdateIsolateFromLif(s, b))
         /\ SameStage(s, DisableTraffic(s))
         /\ SameStage(s, EnableTraffic(s))
         /\ SameStage(s, UpdatePoIfInfo(s, b))
  <1>1. /\ SameStage(s, SetPortIsolate(s, b))
        /\ SameStage(s, UpdateIsolateFromAllLif(s))
    <2>1. /\ OnlyIsolation(s, SetPortIsolate(s, b))
          /\ OnlyIsolation(s, UpdateIsolateFromAllLif(s))
      BY SetPortIsolateEffect
    <2> QED
      BY <2>1 DEF OnlyIsolation, SameStage
  <1>2. /\ SameStage(s, UpdateIsolateFromPif(s, b))
        /\ SameStage(s, UpdateIsolateFromLif(s, b))
    BY UpdateIsolateEffect DEF OnlyIsolation, SameStage
  <1>3. SameStage(s, DisableTraffic(s)) /\ SameStage(s, EnableTraffic(s))
    BY DEF DisableTraffic, EnableTraffic, NodeState, SameStage
  <1>4. SameStage(s, UpdatePoIfInfo(s, b))
    BY DEF UpdatePoIfInfo, NodeState, SameStage
  <1> QED
    BY <1>1, <1>2, <1>3, <1>4

\* Nor do the handlers of the port-channel and of its peer interface.
LEMMA PortStage ==
  ASSUME NEW s \in NodeState, NEW b \in BOOLEAN
  PROVE  /\ SameStage(s, PortchannelStateHandler(s, b))
         /\ SameStage(s, PeerConnHandler(s)) /\ PeerConnHandler(s) \in NodeState
         /\ SameStage(s, PeerDisconn(s)) /\ PeerDisconn(s) \in NodeState
         /\ SameStage(s, RecvIfUpAck(s))
         /\ SameStage(s, UpdateAggConf(s, b))
         /\ SameStage(s, UpdateAggportState(s, b))
  <1>1. \A c \in BOOLEAN : /\ SameStage(s, PortchannelStateHandler(s, c))
                           /\ PortchannelStateHandler(s, c) \in NodeState
    <2> SUFFICES ASSUME NEW c \in BOOLEAN
                 PROVE  /\ SameStage(s, PortchannelStateHandler(s, c))
                        /\ PortchannelStateHandler(s, c) \in NodeState
      OBVIOUS
    <2> DEFINE i == UpdateIsolateFromLif(s, c)
               t == UpdatePoIfInfo(i, c)
    <2>1. i \in NodeState /\ SameStage(s, i)
      BY UpdateIsolateType, LinkStage
    <2>2. PortchannelStateHandler(s, c) = IF c THEN t ELSE DisableTraffic(t)
      BY DEF PortchannelStateHandler
    <2> HIDE DEF i
    <2>3. t \in NodeState
      <3>1. [i EXCEPT !.changed = TRUE, !.po_active = c] \in NodeState
        BY <2>1 DEF NodeState
      <3> QED
        BY <2>1, <3>1 DEF UpdatePoIfInfo
    <2>4. SameStage(i, t)
      BY <2>1, LinkStage
    <2> HIDE DEF t
    <2>5. SameStage(t, DisableTraffic(t))
      BY <2>3, LinkStage
    <2>6. PortchannelStateHandler(s, c) \in NodeState
      BY PortchannelStateType
    <2> QED
      BY <2>1, <2>2, <2>4, <2>5, <2>6 DEF SameStage
  <1>2. SameStage(s, PeerConnHandler(s)) /\ PeerConnHandler(s) \in NodeState
    <2> DEFINE t == IF s.bound THEN PortchannelStateHandler(s, s.state) ELSE s
    <2>1. s.state \in BOOLEAN
      BY DEF NodeState
    <2>2. t \in NodeState /\ SameStage(s, t)
      BY <1>1, <2>1 DEF SameStage
    <2>3. PeerConnHandler(s) = UpdateIsolateFromAllLif(t)
      BY DEF PeerConnHandler
    <2> HIDE DEF t
    <2>4. SameStage(t, UpdateIsolateFromAllLif(t))
      BY <2>2, LinkStage
    <2>5. UpdateIsolateFromAllLif(t) \in NodeState
      BY <2>2 DEF UpdateIsolateFromAllLif, NodeState
    <2> QED
      BY <2>2, <2>3, <2>4, <2>5 DEF SameStage
  <1>3. SameStage(s, PeerDisconn(s)) /\ PeerDisconn(s) \in NodeState
    <2> DEFINE t == SetPortIsolate(s, FALSE)
    <2>1. t \in NodeState /\ SameStage(s, t)
      BY SetPortIsolateType, LinkStage
    <2>2. PeerDisconn(s) = IF s.bound THEN EnableTraffic(t) ELSE s
      BY DEF PeerDisconn
    <2> HIDE DEF t
    <2>3. SameStage(t, EnableTraffic(t)) /\ EnableTraffic(t) \in NodeState
      BY <2>1, LinkStage, TrafficType
    <2> QED
      BY <2>1, <2>2, <2>3 DEF SameStage
  <1>4. SameStage(s, RecvIfUpAck(s))
    BY LinkStage DEF RecvIfUpAck, SameStage
  <1>5. \A v \in {"none", "up", "down"} :
          /\ [s EXCEPT !.pif = v] \in NodeState
          /\ SameStage(s, [s EXCEPT !.pif = v])
    BY DEF NodeState, SameStage
  <1>6. \A v \in {"none", "up", "down"}, c \in BOOLEAN :
          SameStage(s, UpdateIsolateFromPif([s EXCEPT !.pif = v], c))
    <2> SUFFICES ASSUME NEW v \in {"none", "up", "down"}, NEW c \in BOOLEAN
                 PROVE  SameStage(s, UpdateIsolateFromPif([s EXCEPT !.pif = v], c))
      OBVIOUS
    <2> DEFINE t == [s EXCEPT !.pif = v]
    <2>1. t \in NodeState /\ SameStage(s, t)
      BY <1>5
    <2> HIDE DEF t
    <2>2. SameStage(t, UpdateIsolateFromPif(t, c))
      BY <2>1, LinkStage
    <2>3. SameStage(s, UpdateIsolateFromPif(t, c))
      BY <2>1, <2>2 DEF SameStage
    <2> QED
      BY <2>3 DEF t
  <1>7. SameStage(s, s) /\ SameStage(s, [s EXCEPT !.need_to_sync = TRUE])
    BY DEF NodeState, SameStage
  <1>8. SameStage(s, UpdateAggConf(s, b))
    BY <1>5, <1>6, <1>7 DEF UpdateAggConf
  <1>9. SameStage(s, UpdateAggportState(s, b))
    BY <1>6, <1>7 DEF UpdateAggportState
  <1> QED
    BY <1>1, <1>2, <1>3, <1>4, <1>8, <1>9

\* Whatever comes behind an answer, it is still there.
LEMMA AnswerStays ==
  ASSUME NEW q \in Seq(Msg), NEW d \in Seq(Msg), AnswerFirst(q)
  PROVE  AnswerFirst(q \o d) /\ q \o d # << >>
  <1> PICK k \in DOMAIN q : /\ q[k] = "SYNC_DONE"
                            /\ \A i \in DOMAIN q : i < k => q[i] \in Early
    BY DEF AnswerFirst
  <1> DEFINE t == q \o d
             n == Len(q)
  <1>1. Len(d) \in Nat /\ n \in Nat /\ DOMAIN q = 1..n
    BY SMT
  <1>2. /\ t \in Seq(Msg) /\ Len(t) = n + Len(d)
        /\ \A i \in 1..(n + Len(d)) : t[i] = IF i <= n THEN q[i] ELSE d[i - n]
    BY ConcatParts
  <1> HIDE DEF t
  <1>3. DOMAIN t = 1..(n + Len(d))
    BY <1>2, SMT
  <1> HIDE DEF n
  <1>4. \A i \in 1..n : i \in DOMAIN t /\ t[i] = q[i]
    BY <1>1, <1>2, <1>3, SMT
  <1>5. ASSUME NEW i \in DOMAIN t, i < k PROVE t[i] \in Early
    <2>1. i \in 1..n
      BY <1>1, <1>3, <1>5, SMT
    <2> QED
      BY <2>1, <1>1, <1>4, <1>5
  <1>6. k \in DOMAIN t /\ t[k] = "SYNC_DONE"
    BY <1>1, <1>4
  <1>7. t # << >>
    BY <1>6, SMT
  <1> QED
    BY <1>5, <1>6, <1>7 DEF AnswerFirst, t

\* The first message of an answer.
LEMMA AnswerTaken ==
  ASSUME NEW q \in Seq(Msg), AnswerFirst(q)
  PROVE  /\ q # << >>
         /\ \/ Head(q) = "SYNC_DONE"
            \/ Head(q) \in Early /\ AnswerFirst(Tail(q)) /\ Tail(q) # << >>
  <1> PICK k \in DOMAIN q : /\ q[k] = "SYNC_DONE"
                            /\ \A i \in DOMAIN q : i < k => q[i] \in Early
    BY DEF AnswerFirst
  <1>1. q # << >>
    BY SMT
  <1> DEFINE t == Tail(q)
             n == Len(q)
  <1>2. /\ Head(q) = q[1] /\ n \in Nat /\ n > 0 /\ DOMAIN q = 1..n
        /\ DOMAIN t = 1..(n - 1) /\ \A i \in 1..(n - 1) : t[i] = q[i + 1]
    BY <1>1, Rest
  <1> HIDE DEF t, n
  <1>3. CASE k = 1
    BY <1>1, <1>2, <1>3
  <1>4. CASE k # 1
    <2>1. 1 \in DOMAIN q /\ 1 < k
      BY <1>2, <1>4, SMT
    <2> DEFINE j == k - 1
    <2>2. j \in DOMAIN t /\ t[j] = "SYNC_DONE" /\ j + 1 = k /\ j \in Nat
      BY <1>2, <1>4, SMT
    <2> HIDE DEF j
    <2>3. ASSUME NEW i \in DOMAIN t, i < j PROVE t[i] \in Early
      <3>1. i + 1 \in DOMAIN q /\ t[i] = q[i + 1] /\ i + 1 < k
        BY <1>2, <2>2, <2>3, SMT
      <3> QED
        BY <3>1
    <2>4. AnswerFirst(t) /\ t # << >>
      BY <2>2, <2>3, SMT DEF AnswerFirst
    <2> QED
      BY <1>1, <1>2, <2>1, <2>4 DEF t
  <1> QED
    BY <1>3, <1>4

\* iccp_csm_send of one message.
LEMMA SendStage ==
  ASSUME NEW s \in NodeState, NEW m \in Msg
  PROVE  LET r == Send(s, <<m>>) IN
         /\ r \in NodeState /\ r.current_state = s.current_state
         /\ AnswerFirst(s.out) => AnswerFirst(r.out)
  <1> DEFINE o == s.out \o <<m>>
  <1>1. s.out \in Seq(Msg) /\ <<m>> \in Seq(Msg)
    BY SMT DEF NodeState
  <1>2. AnswerFirst(s.out) => AnswerFirst(o)
    BY <1>1, AnswerStays
  <1>3. Send(s, <<m>>) \in NodeState
    BY <1>1, SendType
  <1>4. /\ Send(s, <<m>>).current_state = s.current_state
        /\ Send(s, <<m>>).out = o
    <2> HIDE DEF o
    <2>1. Send(s, <<m>>) = [s EXCEPT !.out = o]
      BY DEF Send, o
    <2> QED
      BY <2>1 DEF NodeState
  <1> QED
    BY <1>2, <1>3, <1>4

\* What mlacp_exchange_handler sends by itself.
LEMMA ExchangeSends ==
  ASSUME NEW s \in NodeState,
         NEW r \in {SendSyncRequest(s), SendPurge(s), SendConfig(s), SendState(s)}
  PROVE  /\ r \in NodeState /\ r.current_state = s.current_state
         /\ AnswerFirst(s.out) => AnswerFirst(r.out)
  <1> DEFINE Kept(t) == /\ t \in NodeState /\ t.current_state = s.current_state
                        /\ t.out = s.out
             After(t) == /\ t \in NodeState /\ t.current_state = s.current_state
                         /\ AnswerFirst(s.out) => AnswerFirst(t.out)
  <1>1. Kept(s) /\ \A t : Kept(t) => After(t)
    OBVIOUS
  <1>2. ASSUME NEW t, Kept(t), NEW m \in Msg PROVE After(Send(t, <<m>>))
    BY <1>2, SendStage
  <1>3. After(SendSyncRequest(s))
    <2> DEFINE t == [s EXCEPT !.need_to_sync = FALSE]
    <2>1. Kept(t)
      BY DEF NodeState
    <2>2. "SYNC_REQ" \in Msg
      BY DEF Msg
    <2> HIDE DEF t, Kept, After
    <2>3. After(Send(t, <<"SYNC_REQ">>))
      BY <2>1, <2>2, <1>2
    <2> QED
      BY <2>3, <1>1 DEF SendSyncRequest, t
  <1>4. After(SendPurge(s))
    <2> DEFINE t == [s EXCEPT !.purge = FALSE]
               u == Send(t, <<"PURGE">>)
    <2>1. Kept(t)
      BY DEF NodeState
    <2>2. "PURGE" \in Msg
      BY DEF Msg
    <2> HIDE DEF t
    <2>3. After(u)
      <3> HIDE DEF Kept, After
      <3> QED
        BY <2>1, <2>2, <1>2
    <2> HIDE DEF u
    <2>4. EnableTraffic(u) \in NodeState /\ SameStage(u, EnableTraffic(u))
      BY <2>3, TrafficType, LinkStage
    <2>5. After(EnableTraffic(u))
      BY <2>3, <2>4 DEF SameStage
    <2> HIDE DEF Kept, After
    <2> QED
      BY <2>5, <1>1 DEF SendPurge, u, t
  <1>5. After(SendConfig(s))
    <2> DEFINE d == DisableTraffic(s)
               t == [d EXCEPT !.port_config_sync = FALSE]
    <2>1. d \in NodeState /\ SameStage(s, d)
      BY TrafficType, LinkStage
    <2> HIDE DEF d
    <2>2. Kept(t)
      BY <2>1 DEF NodeState, SameStage
    <2>3. "CONFIG" \in Msg
      BY DEF Msg
    <2> HIDE DEF t, Kept, After
    <2>4. After(Send(t, <<"CONFIG">>))
      BY <2>2, <2>3, <1>2
    <2> QED
      BY <2>4, <1>1 DEF SendConfig, t, d
  <1>6. After(SendState(s))
    <2> DEFINE t == [s EXCEPT !.changed = FALSE]
    <2>1. Kept(t)
      BY DEF NodeState
    <2>2. StateMsg(s) \in Msg
      BY StateMsgType
    <2> HIDE DEF t, Kept, After
    <2>3. After(Send(t, <<StateMsg(s)>>))
      BY <2>1, <2>2, <1>2
    <2> QED
      BY <2>3, <1>1 DEF SendState, t
  <1>7. After(r)
    <2> HIDE DEF After
    <2> QED
      BY <1>3, <1>4, <1>5, <1>6
  <1> QED
    BY <1>7

\* mlacp_sync_receiver_handler past the stages: a request is an error there.
LEMMA ReceivePast ==
  ASSUME NEW s \in NodeState, s.out = << >>, Exchange(s), NEW m \in Msg
  PROVE  Past(Receive(s, m))
  <1>1. s.current_state = "EXCHANGE"
    BY DEF Exchange
  <1>2. Past(SendAllInfo(s))
    BY <1>1, SendAllInfoEffect DEF NextStage, Past
  <1>3. Past([s EXCEPT !.wait_for_sync_data = FALSE]) /\ Past(s)
    BY <1>1 DEF NodeState, Past
  <1>4. \A b \in BOOLEAN : /\ Past(UpdateAggConf(s, b)) /\ Past(UpdateAggportState(s, b))
                           /\ Past(RecvIfUpAck(s))
    BY <1>3, PortStage DEF SameStage, Past
  <1>5. Past(SendIfUpAck(UpdateAggportState(s, TRUE)))
    <2> DEFINE t == UpdateAggportState(s, TRUE)
    <2>1. t \in NodeState /\ Past(t)
      BY <1>4, PifUpdateType
    <2>2. "IF_UP_ACK" \in Msg
      BY DEF Msg
    <2> HIDE DEF t
    <2>3. Past(Send(t, <<"IF_UP_ACK">>))
      BY <2>1, <2>2, SendStage DEF Past
    <2>4. Past(SendIfUpAck(t))
      BY <2>1, <2>3 DEF SendIfUpAck
    <2> QED
      BY <2>4 DEF t
  <1> QED
    BY <1>2, <1>3, <1>4, <1>5 DEF Receive, Msg

\* mlacp_exchange_handler stays past the stages, and keeps an answer that was
\* written before.
LEMMA ExchangePast ==
  ASSUME NEW s \in NodeState, Exchange(s), NEW m \in Msg \cup {None},
         m = None \/ s.out = << >>
  PROVE  LET r == ExchangeHandler(s, m) IN
         /\ Past(r)
         /\ m = None /\ AnswerFirst(s.out) => AnswerFirst(r.out)
  <1> DEFINE t == IF m = None THEN s ELSE Receive(s, m)
             a == SendSyncRequest(t)
             b == SendPurge(a)
             c == SendConfig(b)
             d == SendState(c)
  <1>1. t \in NodeState /\ Past(t)
    BY ReceiveType, ReceivePast DEF Past, Exchange
  <1>2. ExchangeHandler(s, m) = d
    BY DEF ExchangeHandler
  <1>3. m = None => t = s
    OBVIOUS
  <1> HIDE DEF t
  <1>4. /\ a \in NodeState /\ a.current_state = t.current_state
        /\ AnswerFirst(t.out) => AnswerFirst(a.out)
    BY <1>1, ExchangeSends
  <1> HIDE DEF a
  <1>5. /\ b \in NodeState /\ b.current_state = a.current_state
        /\ AnswerFirst(a.out) => AnswerFirst(b.out)
    BY <1>4, ExchangeSends
  <1> HIDE DEF b
  <1>6. /\ c \in NodeState /\ c.current_state = b.current_state
        /\ AnswerFirst(b.out) => AnswerFirst(c.out)
    BY <1>5, ExchangeSends
  <1> HIDE DEF c
  <1>7. /\ d \in NodeState /\ d.current_state = c.current_state
        /\ AnswerFirst(c.out) => AnswerFirst(d.out)
    BY <1>6, ExchangeSends
  <1> HIDE DEF d
  <1> QED
    BY <1>1, <1>2, <1>3, <1>4, <1>5, <1>6, <1>7 DEF Past

\* A turn without a message, past the stages.
LEMMA IdlePast ==
  ASSUME NEW n \in Node, NEW s \in NodeState, Past(s), NEW prev
  PROVE  LET r == Pass(n, s, None, prev) IN
         Past(r) /\ (AnswerFirst(s.out) => AnswerFirst(r.out))
  <1> DEFINE t == IF Exchange(s) /\ prev # "EXCHANGE" THEN PeerConnHandler(s) ELSE s
  <1>1. CASE Exchange(s)
    <2>1. t \in NodeState /\ SameStage(s, t)
      BY PortStage DEF SameStage
    <2>2. Pass(n, s, None, prev) = ExchangeHandler(t, None)
      BY <1>1 DEF Pass, Exchange
    <2> HIDE DEF t
    <2>3. Exchange(t) /\ t.out = s.out /\ None \in Msg \cup {None}
      BY <1>1, <2>1 DEF Exchange, SameStage
    <2>4. /\ Past(ExchangeHandler(t, None))
          /\ AnswerFirst(t.out) => AnswerFirst(ExchangeHandler(t, None).out)
      BY <2>1, <2>3, ExchangePast
    <2> QED
      BY <2>2, <2>3, <2>4
  <1>2. CASE s.current_state = "ERROR"
    <2>1. Pass(n, s, None, prev) = s
      BY <1>2 DEF Pass
    <2> QED
      BY <2>1
  <1> QED
    BY <1>1, <1>2 DEF Past, Exchange

\* A pass past the stages.
LEMMA TurnPast ==
  ASSUME NEW n \in Node, NEW s \in NodeState, s.out = << >>, Past(s),
         NEW m \in Msg \cup {None}
  PROVE  Past(FsmTransit(n, s, m))
  <1> DEFINE t == Pass(n, s, m, s.current_state)
  <1>1. t \in NodeState /\ Past(t)
    <2>1. CASE Exchange(s)
      <3>1. t = ExchangeHandler(s, m)
        BY <2>1 DEF Pass, Exchange
      <3> QED
        BY <2>1, <3>1, ExchangeType, ExchangePast
    <2>2. CASE s.current_state = "ERROR"
      <3>1. t = s
        BY <2>2 DEF Pass
      <3> QED
        BY <3>1
    <2> QED
      BY <2>1, <2>2 DEF Past, Exchange
  <1>2. FsmTransit(n, s, m) = IF m = None /\ s.current_state # "INIT" THEN t
                              ELSE Pass(n, t, None, s.current_state)
    BY DEF FsmTransit
  <1> HIDE DEF t
  <1>3. Past(Pass(n, t, None, s.current_state))
    BY <1>1, IdlePast
  <1> QED
    BY <1>1, <1>2, <1>3

\* A message of the answer arrives: the node goes on waiting, and sends nothing.
LEMMA OrderData ==
  ASSUME NEW n \in Node, NEW s \in NodeState, WaitsForData(n, s),
         s.out = << >>, NEW m \in Early
  PROVE  SameStage(s, FsmTransit(n, s, m))
  <1> DEFINE t == Receive(s, m)
  <1>1. m # None /\ m \in {"SYNC_START", "CONFIG", "STATE_UP", "STATE_DOWN"}
    BY DEF Early, Info, None
  <1>2. /\ s.current_state \in {"STAGE1", "STAGE2"} /\ s.wait_for_sync_data
        /\ ~Exchange(s)
    BY DEF WaitsForData, Exchange
  <1>3. SameStage(s, t)
    <2>1. /\ SameStage(s, UpdateAggConf(s, FALSE))
          /\ SameStage(s, UpdateAggportState(s, TRUE))
          /\ SameStage(s, UpdateAggportState(s, FALSE))
          /\ SameStage(s, s)
      BY PortStage DEF SameStage
    <2>2. SendIfUpAck(UpdateAggportState(s, TRUE)) = UpdateAggportState(s, TRUE)
      BY <1>2, <2>1 DEF SendIfUpAck, Exchange, SameStage
    <2> QED
      BY <1>1, <2>1, <2>2 DEF Receive
  <1>4. StageSyncRequest(s, m) = t
    BY <1>1, <1>2, <1>3 DEF StageSyncRequest, SameStage
  <1> HIDE DEF t
  <1>5. Pass(n, s, m, s.current_state) = t
    BY <1>4, HandlerOf
  <1>6. WaitsForData(n, t)
    BY <1>3 DEF WaitsForData, SameStage
  <1>7. Pass(n, t, None, s.current_state) = t
    BY <1>6, TurnIdle
  <1>8. FsmTransit(n, s, m) = t
    BY <1>5, <1>7 DEF FsmTransit
  <1> QED
    BY <1>3, <1>8

\* The end of the answer: the standby peer waits to be asked, the active one is
\* past the stages.
LEMMA OrderDone ==
  ASSUME NEW n \in Node, NEW s \in NodeState, WaitsForData(n, s), s.out = << >>
  PROVE  LET r == FsmTransit(n, s, "SYNC_DONE") IN
         /\ n = Standby => /\ r.current_state = "STAGE2" /\ ~r.wait_for_sync_data
                           /\ r.out = << >>
         /\ n = Active => Past(r)
  <1> DEFINE m == "SYNC_DONE"
             u == [s EXCEPT !.wait_for_sync_data = FALSE]
             st == NextStage(u.current_state)
             t == [u EXCEPT !.current_state = st]
             r == FsmTransit(n, s, m)
  <1>1. m # None /\ Receive(s, m) = u
    BY DEF None, Receive
  <1>2. /\ s.current_state \in {"STAGE1", "STAGE2"} /\ s.wait_for_sync_data
        /\ n = Standby => s.current_state = "STAGE1"
        /\ n = Active => s.current_state = "STAGE2"
    BY NodeAssumption DEF WaitsForData
  <1>3. /\ u \in NodeState /\ u.current_state = s.current_state
        /\ ~u.wait_for_sync_data /\ u.out = s.out
    BY DEF NodeState
  <1>4. StageSyncRequest(s, m) = t
    BY <1>1, <1>2, <1>3 DEF StageSyncRequest
  <1> HIDE DEF u
  <1>5. /\ n = Standby => st = "STAGE2"
        /\ n = Active => st = "EXCHANGE"
        /\ st \in {"STAGE2", "EXCHANGE"}
    BY <1>2, <1>3 DEF NextStage, Node
  <1> HIDE DEF st
  <1>6. /\ t \in NodeState /\ t.current_state = st /\ ~t.wait_for_sync_data
        /\ t.out = << >>
    BY <1>3, <1>5 DEF NodeState, MlacpState
  <1> HIDE DEF t
  <1>7. Pass(n, s, m, s.current_state) = t
    BY <1>4, HandlerOf
  <1>8. r = Pass(n, t, None, s.current_state)
    BY <1>1, <1>7 DEF FsmTransit
  <1> HIDE DEF r, m
  <1>9. CASE n = Standby
    <2>1. WaitsToSend(n, t)
      BY <1>5, <1>6, <1>9 DEF WaitsToSend
    <2>2. r = t
      BY <1>8, <2>1, TurnIdle
    <2> QED
      BY <1>5, <1>6, <1>9, <2>2, NodeAssumption DEF r, m
  <1>10. CASE n = Active
    <2>1. Past(t)
      BY <1>5, <1>6, <1>10 DEF Past
    <2>2. Past(r)
      BY <1>6, <1>8, <2>1, IdlePast
    <2> QED
      BY <1>10, <2>2, NodeAssumption DEF r, m
  <1> QED
    BY <1>9, <1>10 DEF Node

\* The request of the peer arrives: the active peer answers and asks in its
\* turn, the standby peer answers and is past the stages.
LEMMA OrderAsked ==
  ASSUME NEW n \in Node, NEW s \in NodeState, WaitsToSend(n, s), s.out = << >>
  PROVE  LET r == FsmTransit(n, s, "SYNC_REQ") IN
         /\ n = Active => /\ r.current_state = "STAGE2" /\ r.wait_for_sync_data
                          /\ AnswerAndRequest(r.out)
         /\ n = Standby => Past(r) /\ AnswerFirst(r.out)
  <1> DEFINE m == "SYNC_REQ"
             t == SendAllInfo(s)
             o == t.out
             k == Len(o)
             r == FsmTransit(n, s, m)
  <1>1. m # None
    BY DEF None
  <1>2. /\ s.current_state \in {"STAGE1", "STAGE2"} /\ ~s.wait_for_sync_data
        /\ n = Standby => s.current_state = "STAGE2"
        /\ n = Active => s.current_state = "STAGE1"
    BY NodeAssumption DEF WaitsToSend
  <1>3. /\ t \in NodeState /\ ~t.wait_for_sync_data
        /\ t.current_state = NextStage(s.current_state)
        /\ k > 0 /\ o[k] = "SYNC_DONE"
        /\ \A i \in 1..(k - 1) : o[i] \in Early
    BY SendAllInfoEffect
  <1>4. StageSyncSend(s, m) = t
    BY <1>2 DEF StageSyncSend
  <1> HIDE DEF t
  <1>5. Pass(n, s, m, s.current_state) = t
    BY <1>4, HandlerOf
  <1>6. r = Pass(n, t, None, s.current_state)
    BY <1>1, <1>5 DEF FsmTransit
  <1>7. o \in Seq(Msg) /\ k \in Nat /\ DOMAIN o = 1..k
    BY <1>3, SMT DEF NodeState
  <1> HIDE DEF r, m
  <1>8. CASE n = Standby
    <2>1. Past(t)
      BY <1>2, <1>3, <1>8 DEF Past, NextStage
    <2>2. AnswerFirst(o)
      <3> HIDE DEF o, k
      <3>1. k \in DOMAIN o /\ o[k] = "SYNC_DONE"
        BY <1>3, <1>7, SMT
      <3>2. \A i \in DOMAIN o : i < k => o[i] \in Early
        BY <1>3, <1>7, SMT
      <3> QED
        BY <3>1, <3>2 DEF AnswerFirst
    <2>3. Past(r) /\ AnswerFirst(r.out)
      BY <1>3, <1>6, <2>1, <2>2, IdlePast
    <2> QED
      BY <1>8, <2>3, NodeAssumption DEF r, m
  <1>9. CASE n = Active
    <2> DEFINE w == [t EXCEPT !.wait_for_sync_data = TRUE]
               x == w.out \o <<"SYNC_REQ">>
               u == [w EXCEPT !.out = x]
    <2>1. t.current_state = "STAGE2"
      BY <1>2, <1>3, <1>9 DEF NextStage
    <2>2. StageSyncRequest(t, None) = u
      BY <1>3 DEF StageSyncRequest, Send
    <2>3. Pass(n, t, None, s.current_state) = u
      BY <1>9, <2>1, <2>2, PassStage, StageOf, SMT
    <2>4. /\ w \in NodeState /\ w.current_state = t.current_state
          /\ w.wait_for_sync_data /\ w.out = o
      BY <1>3 DEF NodeState
    <2> HIDE DEF w
    <2>5. u.current_state = w.current_state /\ u.wait_for_sync_data /\ u.out = x
      <3> HIDE DEF x
      <3> QED
        BY <2>4 DEF NodeState
    <2>6. r = u
      BY <1>6, <2>3
    <2> HIDE DEF u
    <2>7. x = o \o <<"SYNC_REQ">>
      BY <2>4
    <2> HIDE DEF x, o, k
    <2>8. AnswerAndRequest(x)
      <3>1. /\ Len(x) = k + 1 /\ DOMAIN x = 1..(k + 1)
            /\ \A i \in 1..k : x[i] = o[i]
            /\ x[k + 1] = "SYNC_REQ"
        <4>1. "SYNC_REQ" \in Msg
          BY DEF Msg
        <4> QED
          BY <1>7, <2>7, <4>1, Behind DEF k
      <3>2. x[k] = "SYNC_DONE" /\ (k + 1) - 1 = k /\ (k + 1) - 2 = k - 1
        BY <1>3, <1>7, <3>1, SMT
      <3>3. ASSUME NEW i \in 1..(k - 1) PROVE x[i] \in Early
        <4>1. i \in 1..k
          BY <1>7, SMT
        <4> QED
          BY <1>3, <3>1, <4>1
      <3>4. Len(x) > 1
        BY <1>3, <1>7, <3>1, SMT
      <3> QED
        BY <3>1, <3>2, <3>3, <3>4 DEF AnswerAndRequest
    <2> QED
      BY <1>9, <2>1, <2>4, <2>5, <2>6, <2>8, NodeAssumption DEF r, m
  <1> QED
    BY <1>8, <1>9 DEF Node

\* What a pass of n in state s with the queue q does: r is the state it leaves,
\* t the queue.
Turned(n, s, q, r, t) ==
  \/ /\ ~Past(s) /\ SameStage(s, r) /\ Awaited(n, r, t) /\ (q = << >> <=> t = << >>)
  \/ /\ n = Active /\ s.current_state = "STAGE1" /\ q # << >>
     /\ r.current_state = "STAGE2" /\ r.wait_for_sync_data
     /\ AnswerAndRequest(r.out) /\ t = << >>
  \/ /\ n = Standby /\ s.current_state = "STAGE1" /\ q # << >>
     /\ r.current_state = "STAGE2" /\ ~r.wait_for_sync_data
     /\ r.out = << >> /\ t = <<"SYNC_REQ">>
  \/ /\ n = Active /\ s.current_state = "STAGE2" /\ q # << >> /\ Past(r)
  \/ /\ n = Standby /\ s.current_state = "STAGE2" /\ q # << >> /\ Past(r)
     /\ AnswerFirst(r.out)
  \/ Past(s) /\ Past(r)

\* mlacp_fsm_transit with an empty queue.
LEMMA TurnedIdle ==
  ASSUME NEW n \in Node, NEW s \in NodeState, s.out = << >>, Awaited(n, s, << >>)
  PROVE  Turned(n, s, << >>, FsmTransit(n, s, None), << >>)
  <1>1. CASE Past(s)
    <2>1. Past(FsmTransit(n, s, None))
      BY <1>1, TurnPast
    <2> QED
      BY <1>1, <2>1 DEF Turned
  <1>2. CASE ~Past(s)
    <2>1. WaitsToSend(n, s) \/ WaitsForData(n, s)
      BY <1>2 DEF Awaited, WaitsToSend, WaitsForData
    <2>2. FsmTransit(n, s, None) = s
      BY <2>1, TurnIdle
    <2> QED
      BY <2>2 DEF Turned, SameStage
  <1> QED
    BY <1>1, <1>2

\* mlacp_fsm_transit with a message.
LEMMA TurnedMessage ==
  ASSUME NEW n \in Node, NEW s \in NodeState, s.out = << >>,
         NEW q \in Seq(Msg), q # << >>, Awaited(n, s, q)
  PROVE  Turned(n, s, q, FsmTransit(n, s, Head(q)), Tail(q))
  <1> DEFINE m == Head(q)
             t == Tail(q)
             r == FsmTransit(n, s, m)
  <1>1. m \in Msg /\ t \in Seq(Msg)
    BY Rest
  <1>2. CASE Past(s)
    <2>1. Past(r)
      BY <1>1, <1>2, TurnPast
    <2> HIDE DEF r
    <2> QED
      BY <1>2, <2>1 DEF Turned, r
  <1>3. CASE WaitsToSend(n, s) /\ ~Past(s)
    <2>1. q = <<"SYNC_REQ">>
      BY <1>3 DEF Awaited, WaitsToSend
    <2>2. m = "SYNC_REQ" /\ t = << >>
      BY <2>1, SMT
    <2>3. /\ n = Active => /\ r.current_state = "STAGE2" /\ r.wait_for_sync_data
                           /\ AnswerAndRequest(r.out)
          /\ n = Standby => Past(r) /\ AnswerFirst(r.out)
      BY <1>3, <2>2, OrderAsked
    <2> HIDE DEF r, t
    <2> QED
      BY <1>3, <2>2, <2>3, NodeAssumption DEF Turned, WaitsToSend, Node, r, t
  <1>4. CASE WaitsForData(n, s) /\ ~Past(s)
    <2>1. /\ n = Active => s.current_state = "STAGE2" /\ AnswerFirst(q)
          /\ n = Standby => s.current_state = "STAGE1" /\ AnswerAndRequest(q)
      BY <1>4, NodeAssumption DEF Awaited, WaitsForData
    <2>2. /\ n = Active => \/ m = "SYNC_DONE"
                           \/ m \in Early /\ AnswerFirst(t) /\ t # << >>
          /\ n = Standby => \/ m = "SYNC_DONE" /\ t = <<"SYNC_REQ">>
                            \/ m \in Early /\ AnswerAndRequest(t) /\ t # << >>
      BY <2>1, AnswerTaken, AnswerAndRequestRest
    <2>3. CASE m = "SYNC_DONE"
      <3>1. /\ n = Standby => /\ r.current_state = "STAGE2" /\ ~r.wait_for_sync_data
                              /\ r.out = << >>
            /\ n = Active => Past(r)
        BY <1>4, <2>3, OrderDone
      <3>2. n = Standby => t = <<"SYNC_REQ">>
        BY <2>2, <2>3 DEF Early, Info
      <3> HIDE DEF r, t
      <3> QED
        BY <2>1, <3>1, <3>2 DEF Turned, Node, r, t
    <2>4. CASE m \in Early
      <3>1. SameStage(s, r)
        BY <1>4, <2>4, OrderData
      <3>2. m # "SYNC_DONE"
        BY <2>4 DEF Early, Info
      <3> HIDE DEF r, t, m
      <3>3. Awaited(n, r, t) /\ t # << >>
        BY <1>4, <2>2, <3>1, <3>2 DEF Awaited, WaitsForData, SameStage, Node
      <3> QED
        BY <1>4, <3>1, <3>3 DEF Turned, r, t, m
    <2> QED
      BY <2>2, <2>3, <2>4 DEF Node
  <1> QED
    BY <1>2, <1>3, <1>4 DEF Awaited, WaitsToSend, WaitsForData

\* Only the stage counts.
LEMMA SameStep ==
  ASSUME NEW s, NEW t, t.current_state = s.current_state,
         t.wait_for_sync_data = s.wait_for_sync_data
  PROVE  /\ \A n, q : Awaited(n, s, q) => Awaited(n, t, q)
         /\ \A x, qa, qs : InStep(s, x, qa, qs) => InStep(t, x, qa, qs)
         /\ \A x, qa, qs : InStep(x, s, qa, qs) => InStep(x, t, qa, qs)
  BY DEF Awaited, InStep, Past

\* What the queue of n holds after a pass is what it waits for.
LEMMA TurnedAwaited ==
  ASSUME NEW n, NEW s, NEW q, NEW r, NEW t, Turned(n, s, q, r, t)
  PROVE  Awaited(n, r, t)
  BY DEF Turned, Awaited

\* A pass of the active peer keeps the stages in step.
LEMMA ActiveInStep ==
  ASSUME NEW a, NEW s, NEW qa \in Seq(Msg), NEW qs \in Seq(Msg),
         InStep(a, s, qa, qs), Awaited(Active, a, qa), Awaited(Standby, s, qs),
         a.out = << >>, NEW r, r.out \in Seq(Msg), NEW t, Turned(Active, a, qa, r, t)
  PROVE  InStep(r, s, t, qs \o r.out) /\ Awaited(Standby, s, qs \o r.out)
  <1>1. CASE /\ ~Past(a) /\ SameStage(a, r) /\ Awaited(Active, r, t)
             /\ (qa = << >> <=> t = << >>)
    <2>1. qs \o r.out = qs
      <3>1. r.out = << >> /\ qs \o << >> = qs
        BY <1>1, ConcatNil DEF SameStage
      <3> QED
        BY <3>1
    <2>2. a.current_state = "STAGE1" => t = <<"SYNC_REQ">>
      <3>1. a.current_state = "STAGE1" => qa = <<"SYNC_REQ">>
        BY DEF InStep
      <3>4. <<"SYNC_REQ">> # << >>
        OBVIOUS
      <3>2. a.current_state = "STAGE1" => r.current_state = "STAGE1"
        BY <1>1 DEF SameStage
      <3>3. r.current_state = "STAGE1" => t \in {<< >>, <<"SYNC_REQ">>}
        BY <1>1, NodeAssumption DEF Awaited, Past
      <3> QED
        BY <1>1, <3>1, <3>2, <3>3, <3>4
    <2>3. InStep(r, s, t, qs)
      BY <1>1, <2>2 DEF InStep, SameStage, Past
    <2> QED
      BY <2>1, <2>3
  <1>2. CASE /\ a.current_state = "STAGE1"
             /\ r.current_state = "STAGE2" /\ r.wait_for_sync_data
             /\ AnswerAndRequest(r.out) /\ t = << >>
    <2>1. s.current_state = "STAGE1" /\ qs = << >>
      BY <1>2 DEF InStep
    <2>2. s.wait_for_sync_data
      BY <2>1, NodeAssumption DEF Awaited, Past
    <2>3. r.out # << >>
      <3>1. Len(r.out) > 1
        BY <1>2 DEF AnswerAndRequest
      <3>2. Len(<< >>) = 0 /\ ~(0 > 1)
        BY SMT
      <3> QED
        BY <3>1, <3>2
    <2>4. qs \o r.out = r.out
      BY <2>1, ConcatNil
    <2> QED
      BY <1>2, <2>2, <2>3, <2>4 DEF InStep, Awaited, Past
  <1>3. CASE a.current_state = "STAGE2" /\ qa # << >> /\ Past(r)
    <2> QED
      BY <1>3 DEF InStep, Awaited, Past
  <1>4. CASE Past(a) /\ Past(r)
    <2> QED
      BY <1>4 DEF InStep, Awaited, Past
  <1> QED
    BY <1>1, <1>2, <1>3, <1>4, NodeAssumption DEF Turned

\* So does a pass of the standby peer.
LEMMA StandbyInStep ==
  ASSUME NEW a, NEW s, NEW qa \in Seq(Msg), NEW qs \in Seq(Msg),
         InStep(a, s, qa, qs), Awaited(Active, a, qa), Awaited(Standby, s, qs),
         s.out = << >>, NEW r, r.out \in Seq(Msg), NEW t, Turned(Standby, s, qs, r, t)
  PROVE  InStep(a, r, qa \o r.out, t) /\ Awaited(Active, a, qa \o r.out)
  <1>1. a.current_state \in {"STAGE1", "STAGE2"} \/ Past(a)
    BY DEF Awaited
  <1>2. r.out = << >> => qa \o r.out = qa
    BY ConcatNil
  <1>3. CASE /\ ~Past(s) /\ SameStage(s, r) /\ (qs = << >> <=> t = << >>)
    <2>1. qa \o r.out = qa
      BY <1>2, <1>3 DEF SameStage
    <2>2. InStep(a, r, qa, t)
      BY <1>3 DEF InStep, SameStage, Past
    <2> QED
      BY <2>1, <2>2
  <1>4. CASE /\ s.current_state = "STAGE1" /\ qs # << >>
             /\ r.current_state = "STAGE2"
             /\ r.out = << >> /\ t = <<"SYNC_REQ">>
    <2>2. qa \o r.out = qa /\ t # << >>
      BY <1>2, <1>4
    <2> QED
      BY <1>4, <2>2 DEF InStep, Past
  <1>5. CASE /\ s.current_state = "STAGE2" /\ Past(r) /\ AnswerFirst(r.out)
    <2>1. a.current_state = "STAGE2" /\ qa = << >>
      BY <1>1, <1>5 DEF InStep, Past
    <2>2. a.wait_for_sync_data
      BY <2>1 DEF Awaited, Past
    <2>3. qa \o r.out = r.out
      BY <2>1, ConcatNil
    <2>4. r.out # << >>
      BY <1>5, AnswerTaken
    <2> QED
      BY <1>5, <2>2, <2>3, <2>4 DEF InStep, Awaited, Past
  <1>6. CASE Past(s) /\ Past(r)
    <2>1. CASE Past(a)
      BY <1>6, <2>1 DEF InStep, Awaited, Past
    <2>2. CASE ~Past(a)
      <3>1. a.current_state = "STAGE2" /\ qa # << >>
        BY <1>1, <1>6, <2>2 DEF InStep, Past
      <3>2. a.wait_for_sync_data /\ AnswerFirst(qa)
        BY <3>1, NodeAssumption DEF Awaited, Past
      <3>3. AnswerFirst(qa \o r.out) /\ qa \o r.out # << >>
        BY <3>2, AnswerStays
      <3> QED
        BY <1>6, <3>2, <3>3 DEF InStep, Awaited, Past
    <2> QED
      BY <2>1, <2>2
  <1> QED
    BY <1>3, <1>4, <1>5, <1>6, NodeAssumption DEF Turned

\* One iteration of the scheduler loop.
LEMMA TransitOrder ==
  ASSUME TypeOK, OrderInv, NEW n \in Node, Transit(n)
  PROVE  OrderInv'
  <1> DEFINE s == node[n]
             q == chan[n]
             p == Peer(n)
             r == FsmTransit(n, s, IF q = << >> THEN None ELSE Head(q))
             t == IF q = << >> THEN << >> ELSE Tail(q)
             ch == [chan EXCEPT ![n] = t]
             u == node'[n]
  <1>1. n \in up /\ UNCHANGED <<up, inst>>
    BY DEF Transit
  <1>2. /\ p \in Node /\ p # n /\ Node = {n, p}
        /\ n = Active => p = Standby
        /\ n = Standby => p = Active
    BY Peers
  <1>3. /\ s \in NodeState /\ s.out = << >> /\ q \in Seq(Msg)
        /\ chan \in [Node -> Seq(Msg)] /\ chan[p] \in Seq(Msg)
        /\ up \subseteq inst /\ up \subseteq Node /\ inst \subseteq Node
        /\ Awaited(n, s, q)
    BY <1>1, <1>2 DEF TypeOK, OrderInv
  <1>4. t \in Seq(Msg) /\ ch \in [Node -> Seq(Msg)] /\ ch[n] = t /\ ch[p] = chan[p]
    <2>1. t \in Seq(Msg)
      BY <1>3, Rest
    <2> HIDE DEF t
    <2> QED
      BY <1>2, <1>3, <2>1
  <1>5. Turned(n, s, q, r, t) /\ r \in NodeState
    <2>1. CASE q = << >>
      BY <1>3, <2>1, TurnedIdle, FsmTransitType
    <2>2. CASE q # << >>
      <3>1. Head(q) \in Msg
        BY <1>3, <2>2, Rest
      <3> QED
        BY <1>3, <2>2, <3>1, TurnedMessage, FsmTransitType
    <2> QED
      BY <2>1, <2>2
  <1>6. Commit(n, r, ch)
    <2>1. CASE q = << >>
      <3>1. ch = chan
        BY <1>3, <2>1
      <3> QED
        BY <3>1 DEF Transit
    <2>2. CASE q # << >>
      BY <2>2 DEF Transit
    <2> QED
      BY <2>1, <2>2
  <1> HIDE DEF r, ch, t
  <1>7. /\ u.out = << >> /\ SameNode(r, u) /\ node'[p] = node[p]
        /\ chan'[n] = t
        /\ p \in inst => chan'[p] = chan[p] \o r.out
        /\ p \notin inst => chan'[p] = chan[p]
    <2>1. /\ u.out = << >> /\ SameNode(r, u) /\ node'[p] = node[p]
          /\ chan'[n] = ch[n]
          /\ p \in inst' => chan'[p] = ch[p] \o r.out
          /\ p \notin inst' => chan'[p] = ch[p]
      BY <1>4, <1>5, <1>6, CommitEffect
    <2> QED
      BY <1>1, <1>4, <2>1
  <1>8. u.current_state = r.current_state /\ u.wait_for_sync_data = r.wait_for_sync_data
    BY <1>7 DEF SameNode
  <1>9. Awaited(n, u, t)
    BY <1>5, <1>8, TurnedAwaited, SameStep
  <1>10. r.out \in Seq(Msg)
    BY <1>5 DEF NodeState
  <1> HIDE DEF u
  <1>11. /\ \A m \in Node : node'[m].out = << >>
         /\ \A m \in Node : m \notin up => node'[m].current_state = "INIT"
         /\ \A m \in Node : m \notin inst => chan'[m] = << >>
    BY <1>1, <1>2, <1>3, <1>7 DEF OrderInv, u
  <1>12. CASE up = Node
    <2>1. /\ InStep(node[Active], node[Standby], chan[Active], chan[Standby])
          /\ Awaited(Active, node[Active], chan[Active])
          /\ Awaited(Standby, node[Standby], chan[Standby])
      BY <1>12 DEF OrderInv, Node
    <2>2. chan'[p] = chan[p] \o r.out
      BY <1>2, <1>3, <1>7, <1>12
    <2>3. /\ InStep(node'[Active], node'[Standby], chan'[Active], chan'[Standby])
          /\ Awaited(p, node'[p], chan'[p])
      <3>1. CASE n = Active
        <4>1. /\ InStep(r, node[Standby], t, chan[Standby] \o r.out)
              /\ Awaited(Standby, node[Standby], chan[Standby] \o r.out)
          BY <1>2, <1>3, <1>5, <1>10, <2>1, <3>1, ActiveInStep
        <4>2. InStep(u, node[Standby], t, chan[Standby] \o r.out)
          BY <4>1, <1>8, SameStep, SMT
        <4> QED
          BY <4>1, <4>2, <1>2, <1>7, <2>2, <3>1 DEF u
      <3>2. CASE n = Standby
        <4>1. /\ InStep(node[Active], r, chan[Active] \o r.out, t)
              /\ Awaited(Active, node[Active], chan[Active] \o r.out)
          BY <1>2, <1>3, <1>5, <1>10, <2>1, <3>2, StandbyInStep
        <4>2. InStep(node[Active], u, chan[Active] \o r.out, t)
          BY <4>1, <1>8, SameStep
        <4> QED
          BY <4>1, <4>2, <1>2, <1>7, <2>2, <3>2 DEF u
      <3> QED
        BY <3>1, <3>2 DEF Node
    <2>4. \A m \in Node : Awaited(m, node'[m], chan'[m])
      BY <1>2, <1>7, <1>9, <2>3 DEF u
    <2>5. up # {} /\ up # {Active} /\ up # {Standby}
      BY <1>12, NodeAssumption, SMT DEF Node
    <2> QED
      BY <1>1, <1>11, <1>12, <2>3, <2>4, <2>5 DEF OrderInv
  <1>13. CASE up # Node
    <2>1. up = {n} /\ \A m \in up : Awaited(m, node'[m], chan'[m])
      BY <1>1, <1>2, <1>3, <1>7, <1>9, <1>13 DEF u
    <2>2. inst = Node => /\ chan'[n] = chan[n] /\ chan'[p] = chan[p]
                         /\ u.current_state = s.current_state
      <3> SUFFICES ASSUME inst = Node
                   PROVE  /\ chan'[n] = chan[n] /\ chan'[p] = chan[p]
                          /\ u.current_state = s.current_state
        OBVIOUS
      <3>1. s.current_state = "STAGE1" /\ q = << >>
        BY <2>1 DEF OrderInv, Node
      <3>2. SameStage(s, r) /\ t = << >>
        BY <1>5, <3>1 DEF Turned, Past
      <3>3. chan[p] \o r.out = chan[p]
        BY <1>3, <3>2, ConcatNil DEF SameStage
      <3> QED
        BY <1>7, <1>8, <3>1, <3>2, <3>3 DEF SameStage
    <2>3. /\ inst = Node /\ up = {Active} =>
               /\ node'[Active].current_state = "STAGE1"
               /\ chan'[Active] = << >> /\ chan'[Standby] = << >>
          /\ inst = Node /\ up = {Standby} =>
               /\ node'[Standby].current_state = "STAGE1"
               /\ chan'[Active] = <<"SYNC_REQ">> /\ chan'[Standby] = << >>
      BY <1>2, <2>1, <2>2 DEF OrderInv, Node, u
    <2> QED
      BY <1>1, <1>11, <1>13, <2>1, <2>3 DEF OrderInv
  <1> QED
    BY <1>12, <1>13

\* A step that leaves the stage of n, the queues and the session as they are.
LEMMA LocalOrder ==
  ASSUME TypeOK, OrderInv, NEW n \in Node, NEW r \in NodeState,
         SameStage(node[n], r), Commit(n, r, chan), UNCHANGED <<up, inst>>
  PROVE  OrderInv'
  <1> DEFINE p == Peer(n)
             u == node'[n]
  <1>1. p \in Node /\ p # n /\ Node = {n, p}
    BY Peers
  <1>2. /\ chan \in [Node -> Seq(Msg)] /\ chan[p] \in Seq(Msg)
        /\ r.out = << >>
    BY <1>1 DEF TypeOK, OrderInv, SameStage
  <1>3. /\ u.out = << >> /\ SameNode(r, u) /\ node'[p] = node[p]
        /\ chan'[n] = chan[n]
        /\ p \in inst' => chan'[p] = chan[p] \o r.out
        /\ p \notin inst' => chan'[p] = chan[p]
    BY <1>2, CommitEffect
  <1>4. chan'[p] = chan[p]
    BY <1>2, <1>3, ConcatNil
  <1>5. /\ u.current_state = node[n].current_state
        /\ u.wait_for_sync_data = node[n].wait_for_sync_data
    BY <1>3 DEF SameNode, SameStage
  <1> HIDE DEF u
  <1>6. \A m \in Node : /\ chan'[m] = chan[m] /\ node'[m].out = << >>
                        /\ node'[m].current_state = node[m].current_state
                        /\ node'[m].wait_for_sync_data = node[m].wait_for_sync_data
    BY <1>1, <1>3, <1>4, <1>5 DEF OrderInv, u
  <1>7. Active \in Node /\ Standby \in Node /\ up \subseteq Node
    BY DEF Node, TypeOK
  <1>8. \A m \in up : Awaited(m, node'[m], chan'[m])
    <2> TAKE m \in up
    <2>1. Awaited(m, node[m], chan[m])
      BY DEF OrderInv
    <2>2. /\ chan'[m] = chan[m]
          /\ node'[m].current_state = node[m].current_state
          /\ node'[m].wait_for_sync_data = node[m].wait_for_sync_data
      BY <1>6, <1>7
    <2> QED
      BY <2>1, <2>2, SameStep
  <1>9. up = Node =>
          InStep(node'[Active], node'[Standby], chan'[Active], chan'[Standby])
    <2> HAVE up = Node
    <2>1. InStep(node[Active], node[Standby], chan[Active], chan[Standby])
      BY DEF OrderInv
    <2>2. InStep(node'[Active], node[Standby], chan[Active], chan[Standby])
      BY <1>6, <1>7, <2>1, SameStep
    <2>3. InStep(node'[Active], node'[Standby], chan[Active], chan[Standby])
      BY <1>6, <1>7, <2>2, SameStep
    <2> QED
      BY <1>6, <1>7, <2>3
  <1> QED
    BY <1>6, <1>7, <1>8, <1>9 DEF OrderInv

\* The state of the port-channel, its VLANs, its place in the domain: none of
\* their handlers touches the synchronisation.
LEMMA ChangeOrder ==
  ASSUME TypeOK, OrderInv, NEW n \in Node,
         LinkChange(n) \/ VlanChange(n) \/ Bind(n) \/ Unbind(n)
  PROVE  OrderInv'
  <1> DEFINE o == node[n]
  <1>1. o \in NodeState
    BY DEF TypeOK
  <1>2. CASE LinkChange(n)
    <2> DEFINE c == ~o.state
               s == [o EXCEPT !.state = c]
               x == [s EXCEPT !.po_active = c]
               h == PortchannelStateHandler(s, c)
    <2>1. c \in BOOLEAN /\ s \in NodeState /\ SameStage(o, s)
      BY <1>1 DEF NodeState, SameStage
    <2>2. Commit(n, IF s.bound THEN h ELSE x, chan) /\ UNCHANGED <<up, inst>>
      BY <1>2 DEF LinkChange
    <2> HIDE DEF s, c
    <2>3. x \in NodeState /\ SameStage(s, x)
      BY <2>1 DEF NodeState, SameStage
    <2>4. h \in NodeState /\ SameStage(s, h)
      BY <2>1, PortStage, PortchannelStateType
    <2> HIDE DEF h, x
    <2>5. SameStage(o, h) /\ SameStage(o, x)
      BY <2>1, <2>3, <2>4 DEF SameStage
    <2>6. Commit(n, h, chan) \/ Commit(n, x, chan)
      BY <2>2
    <2> QED
      BY <2>2, <2>3, <2>4, <2>5, <2>6, LocalOrder
  <1>3. CASE VlanChange(n)
    <2> DEFINE r == [o EXCEPT !.port_config_sync = TRUE]
    <2>1. r \in NodeState /\ SameStage(o, r)
      BY <1>1 DEF NodeState, SameStage
    <2>2. Commit(n, r, chan) /\ UNCHANGED <<up, inst>>
      BY <1>3 DEF VlanChange
    <2> HIDE DEF r
    <2> QED
      BY <2>1, <2>2, LocalOrder
  <1>4. CASE Bind(n)
    <2> DEFINE s == [o EXCEPT !.bound = TRUE, !.purge = FALSE,
                              !.port_config_sync = TRUE]
               r == UpdateIsolateFromLif(s, s.po_active)
    <2>1. s \in NodeState /\ SameStage(o, s) /\ s.po_active \in BOOLEAN
      BY <1>1 DEF NodeState, SameStage
    <2>2. Commit(n, r, chan) /\ UNCHANGED <<up, inst>>
      BY <1>4 DEF Bind
    <2> HIDE DEF s
    <2>3. r \in NodeState /\ SameStage(s, r)
      BY <2>1, LinkStage, UpdateIsolateType
    <2> HIDE DEF r
    <2>4. SameStage(o, r)
      BY <2>1, <2>3 DEF SameStage
    <2> QED
      BY <2>2, <2>3, <2>4, LocalOrder
  <1>5. CASE Unbind(n)
    <2>1. PICK peer_link \in BOOLEAN :
            Commit(n, [IntfDetach(o, peer_link) EXCEPT
                         !.bound = FALSE, !.purge = Exchange(o)], chan)
      BY <1>5 DEF Unbind
    <2> DEFINE d == IntfDetach(o, peer_link)
               r == [d EXCEPT !.bound = FALSE, !.purge = Exchange(o)]
               t == IF Exchange(o) THEN SetPortIsolate(o, FALSE) ELSE o
    <2>2. t \in NodeState /\ SameStage(o, t)
      BY <1>1, LinkStage, SetPortIsolateType DEF SameStage
    <2>3. d = IF peer_link THEN t ELSE EnableTraffic(t)
      BY DEF IntfDetach
    <2> HIDE DEF t
    <2>4. EnableTraffic(t) \in NodeState /\ SameStage(t, EnableTraffic(t))
      BY <2>2, LinkStage, TrafficType
    <2>5. d \in NodeState /\ SameStage(o, d)
      BY <2>2, <2>3, <2>4 DEF SameStage
    <2>6. Exchange(o) \in BOOLEAN
      BY DEF Exchange
    <2>7. Commit(n, r, chan) /\ UNCHANGED <<up, inst>>
      BY <1>5, <2>1 DEF Unbind
    <2> HIDE DEF d
    <2>8. r \in NodeState /\ SameStage(o, r)
      BY <2>5, <2>6 DEF NodeState, SameStage
    <2> HIDE DEF r
    <2> QED
      BY <2>7, <2>8, LocalOrder
  <1> QED
    BY <1>2, <1>3, <1>4, <1>5

\* A node loses the session.
LEMMA LeaveOrder ==
  ASSUME TypeOK, OrderInv, NEW n \in Node, Leave(n) \/ LeaveAfterPeer(n)
  PROVE  OrderInv'
  <1> DEFINE o == node[n]
             p == Peer(n)
             r == MlacpReset(PeerDisconn(o))
             ch == [chan EXCEPT ![n] = << >>]
             u == node'[n]
  <1>1. /\ p \in Node /\ p # n /\ Node = {n, p}
        /\ n = Active => p = Standby
        /\ n = Standby => p = Active
    BY Peers
  <1>2. /\ o \in NodeState /\ o.out = << >>
        /\ chan[p] \in Seq(Msg) /\ up \subseteq inst
    BY <1>1 DEF TypeOK, OrderInv
  <1>3. r \in NodeState /\ r.out = << >> /\ r.current_state = "INIT"
    <2> DEFINE d == PeerDisconn(o)
    <2>1. d \in NodeState /\ SameStage(o, d)
      BY <1>2, PortStage
    <2> HIDE DEF d
    <2>2. MlacpReset(d) \in NodeState
      BY <1>2, DisconnectType DEF d
    <2>3. MlacpReset(d).out = d.out /\ MlacpReset(d).current_state = "INIT"
      BY <2>1 DEF MlacpReset, NodeState
    <2> QED
      BY <1>2, <2>1, <2>2, <2>3 DEF d, SameStage
  <1>4. Commit(n, r, ch)
    BY DEF Leave, LeaveAfterPeer, SessionDisconnect
  <1>5. ch \in [Node -> Seq(Msg)] /\ ch[n] = << >> /\ ch[p] = chan[p]
    BY <1>1, SMT DEF TypeOK
  <1>6. \/ n \notin inst /\ UNCHANGED <<up, inst>>
        \/ /\ n \in inst /\ up' = up \ {n}
           /\ inst' = IF up' = {} THEN {} ELSE inst \ {n}
    BY DEF Leave, LeaveAfterPeer, Session!Leave
  <1> HIDE DEF r, ch
  <1>7. /\ u.out = << >> /\ SameNode(r, u) /\ node'[p] = node[p]
        /\ chan'[n] = ch[n]
        /\ p \in inst' => chan'[p] = ch[p] \o r.out
        /\ p \notin inst' => chan'[p] = ch[p]
    BY <1>3, <1>4, <1>5, CommitEffect
  <1>8. chan[p] \o r.out = chan[p]
    BY <1>2, <1>3, ConcatNil
  <1>9. chan'[n] = << >> /\ chan'[p] = chan[p]
    BY <1>5, <1>7, <1>8
  <1>10. u.current_state = "INIT"
    BY <1>3, <1>7 DEF SameNode
  <1> HIDE DEF u
  <1>11. n \notin up' /\ up' \subseteq inst' /\ up' \subseteq {p} /\ n \notin inst'
    BY <1>1, <1>2, <1>6 DEF TypeOK
  <1>12. \A m \in Node : node'[m].out = << >>
    BY <1>1, <1>7 DEF OrderInv, u
  <1>13. \A m \in Node : m \notin up' => node'[m].current_state = "INIT"
    <2>1. p \notin up' => p \notin up
      BY <1>1, <1>6
    <2> QED
      BY <1>1, <1>7, <1>10, <2>1 DEF OrderInv, u
  <1>14. up' = {} => inst' = {}
    <2>1. up = {} => inst = {}
      BY DEF OrderInv
    <2> QED
      BY <1>6, <2>1
  <1>15. up' = {} => /\ n = Active => chan[Standby] = << >>
                     /\ n = Standby => chan[Active] \in {<< >>, <<"SYNC_REQ">>}
    <2>1. CASE up = {}
      BY <2>1 DEF OrderInv
    <2>2. CASE up = {n} /\ p \in inst
      <3>1. inst = Node
        BY <1>1, <1>2, <2>2 DEF TypeOK
      <3> QED
        BY <2>2, <3>1 DEF OrderInv
    <2>3. CASE up = {n} /\ p \notin inst
      <3>1. chan[p] = << >>
        BY <1>1, <2>3 DEF OrderInv
      <3> QED
        BY <1>1, <3>1
    <2>4. up' = {} => up = {} \/ up = {n}
      BY <1>6
    <2> QED
      BY <2>1, <2>2, <2>3, <2>4
  <1>16. up' = {} => /\ chan'[Standby] = << >>
                     /\ chan'[Active] \in {<< >>, <<"SYNC_REQ">>}
    <2>1. CASE n = Active
      BY <1>1, <1>9, <1>15, <2>1
    <2>2. CASE n = Standby
      BY <1>1, <1>9, <1>15, <2>2
    <2> QED
      BY <2>1, <2>2 DEF Node
  <1>17. \A m \in Node : up' # {} /\ m \notin inst' => chan'[m] = << >>
    BY <1>1, <1>9, <1>11
  <1>18. \A m \in up' : Awaited(m, node'[m], chan'[m])
    <2>1. \A m \in up' : m = p /\ m \in up
      BY <1>6, <1>11
    <2>2. p \in up => Awaited(p, node[p], chan[p])
      BY DEF OrderInv
    <2> QED
      BY <1>7, <1>9, <2>1, <2>2
  <1>19. up' # Node /\ inst' # Node
    BY <1>11
  <1> QED
    BY <1>11, <1>12, <1>13, <1>14, <1>16, <1>17, <1>18, <1>19 DEF OrderInv

\* A node comes up.
LEMMA UpOrder ==
  ASSUME TypeOK, OrderInv, NEW n \in Node, Up(n)
  PROVE  OrderInv'
  <1> DEFINE o == node[n]
             p == Peer(n)
             r == FsmTransit(n, o, None)
             u == node'[n]
  <1>1. /\ p \in Node /\ p # n /\ Node = {n, p}
        /\ n = Active => p = Standby
        /\ n = Standby => p = Active
    BY Peers
  <1>2. /\ o \in NodeState /\ o.out = << >>
        /\ chan \in [Node -> Seq(Msg)] /\ up \subseteq inst
    BY DEF TypeOK, OrderInv
  <1>3. \/ up = {} /\ up' = {n} /\ inst' = Node
        \/ up = {} /\ up' = {n} /\ inst' = {n}
        \/ n \in inst \ up /\ up' = up \cup {n} /\ inst' = inst
    BY DEF Up, Session!Open, Session!Join
  <1>4. n \notin up /\ n \in up' /\ n \in inst'
    BY <1>3
  <1>5. o.current_state = "INIT"
    BY <1>4 DEF OrderInv
  <1>6. PICK ch \in IF n \in inst THEN {chan}
                    ELSE IF inst' = Node THEN {NoMessages}
                    ELSE {NoMessages, [NoMessages EXCEPT ![n] = chan[n]]} :
          Commit(n, r, ch)
    BY DEF Up
  <1>7. /\ r \in NodeState /\ r.current_state = "STAGE1"
        /\ n = Active => ~r.wait_for_sync_data /\ r.out = << >>
        /\ n = Standby => r.wait_for_sync_data /\ r.out = <<"SYNC_REQ">>
    BY <1>2, <1>5, TurnUp
  <1> HIDE DEF r
  <1>8. /\ ch \in [Node -> Seq(Msg)]
        /\ n \in inst => ch = chan
        /\ n \notin inst => ch[n] \in {<< >>, chan[n]} /\ ch[p] = << >>
        /\ n \notin inst /\ inst' = Node => ch[n] = << >>
    <2>1. /\ NoMessages \in [Node -> Seq(Msg)]
          /\ NoMessages[n] = << >> /\ NoMessages[p] = << >>
      BY <1>1, SMT DEF NoMessages
    <2> DEFINE e == [NoMessages EXCEPT ![n] = chan[n]]
    <2>2. e \in [Node -> Seq(Msg)] /\ e[n] = chan[n] /\ e[p] = << >>
      BY <1>1, <1>2, <2>1
    <2> HIDE DEF e
    <2>3. ch \in IF n \in inst THEN {chan}
                 ELSE IF inst' = Node THEN {NoMessages} ELSE {NoMessages, e}
      BY DEF e
    <2> QED
      BY <1>2, <2>1, <2>2, <2>3
  <1>9. /\ u.out = << >> /\ SameNode(r, u) /\ node'[p] = node[p]
        /\ chan'[n] = ch[n]
        /\ p \in inst' => chan'[p] = ch[p] \o r.out
        /\ p \notin inst' => chan'[p] = ch[p]
    BY <1>6, <1>7, <1>8, CommitEffect
  <1>10. /\ u.current_state = "STAGE1"
         /\ u.wait_for_sync_data = r.wait_for_sync_data
    BY <1>7, <1>9 DEF SameNode
  <1> HIDE DEF u
  <1>11. << >> \o r.out = r.out
    <2>1. r.out \in Seq(Msg)
      BY <1>7 DEF NodeState
    <2> QED
      BY <2>1, ConcatNil
  <1>12. up = {} => n \notin inst /\ chan[Standby] = << >>
                    /\ chan[Active] \in {<< >>, <<"SYNC_REQ">>}
    BY DEF OrderInv
  <1>13. \A m \in Node : node'[m].out = << >>
    BY <1>1, <1>9 DEF OrderInv, u
  <1>14. \A m \in Node : m \notin up' => node'[m].current_state = "INIT"
    <2>1. p \notin up' => p \notin up
      BY <1>3
    <2> QED
      BY <1>1, <1>4, <1>9, <2>1 DEF OrderInv
  <1>15. CASE up = {}
    <2>1. /\ up' = {n} /\ inst' \in {Node, {n}} /\ n \notin inst
          /\ ch[n] \in {<< >>, chan[n]} /\ ch[p] = << >>
          /\ inst' = Node => ch[n] = << >>
      BY <1>3, <1>8, <1>12, <1>15
    <2>2. /\ inst' = Node => chan'[p] = r.out
          /\ inst' = {n} => chan'[p] = << >>
      BY <1>1, <1>9, <1>11, <2>1
    <2>3. Awaited(n, u, chan'[n])
      <3>1. n = Active => chan'[n] \in {<< >>, <<"SYNC_REQ">>}
        BY <1>9, <1>12, <1>15, <2>1
      <3>2. n = Standby => chan'[n] = << >>
        BY <1>9, <1>12, <1>15, <2>1
      <3> QED
        BY <1>7, <1>10, <3>1, <3>2 DEF Awaited, Node
    <2>4. up' # Node /\ up' # {} /\ up' \subseteq inst'
      BY <1>1, <2>1
    <2>5. inst' = Node => /\ chan'[n] = << >>
                          /\ n = Active => chan'[p] = << >>
                          /\ n = Standby => chan'[p] = <<"SYNC_REQ">>
      BY <1>7, <1>9, <2>1, <2>2
    <2>6. \A m \in Node : m \notin inst' => chan'[m] = << >>
      BY <1>1, <2>1, <2>2
    <2>7. inst' = Node /\ up' = {Active} =>
            /\ node'[Active].current_state = "STAGE1"
            /\ chan'[Active] = << >> /\ chan'[Standby] = << >>
      BY <1>1, <1>10, <2>1, <2>5 DEF u
    <2>8. inst' = Node /\ up' = {Standby} =>
            /\ node'[Standby].current_state = "STAGE1"
            /\ chan'[Active] = <<"SYNC_REQ">> /\ chan'[Standby] = << >>
      BY <1>1, <1>10, <2>1, <2>5 DEF u
    <2> QED
      BY <1>13, <1>14, <2>1, <2>3, <2>4, <2>6, <2>7, <2>8 DEF OrderInv, u
  <1>16. CASE up # {}
    <2>1. up = {p} /\ inst = Node /\ up' = Node /\ inst' = Node /\ n \in inst
      <3>1. up \subseteq Node /\ inst \subseteq Node
        BY DEF TypeOK
      <3> QED
        BY <1>1, <1>2, <1>3, <1>4, <1>16, <3>1
    <2>2. /\ node[p].current_state = "STAGE1"
          /\ chan[Standby] = << >>
          /\ n = Active => chan[Active] = <<"SYNC_REQ">>
          /\ n = Standby => chan[Active] = << >>
          /\ Awaited(p, node[p], chan[p])
      BY <1>1, <2>1 DEF OrderInv, Node
    <2>3. chan'[n] = chan[n] /\ chan'[p] = chan[p] \o r.out
      BY <1>1, <1>9, <2>1
    <2>4. chan'[Standby] = << >> /\ chan'[Active] = <<"SYNC_REQ">>
      <3>1. chan[p] = << >>
        BY <1>1, <2>2 DEF Node
      <3>2. chan'[p] = r.out
        BY <1>11, <2>3, <3>1
      <3>3. CASE n = Active
        BY <1>1, <1>7, <2>2, <2>3, <3>2, <3>3
      <3>4. CASE n = Standby
        BY <1>1, <1>7, <2>2, <2>3, <3>2, <3>4
      <3> QED
        BY <3>3, <3>4 DEF Node
    <2>5. Awaited(n, u, chan'[n])
      BY <1>7, <1>10, <2>4 DEF Awaited, Node
    <2>6. Awaited(p, node[p], chan'[p])
      BY <2>2, <2>4, NodeAssumption DEF Awaited, Node, Past
    <2>7. \A m \in Node : node'[m].current_state = "STAGE1"
      BY <1>1, <1>9, <1>10, <2>2 DEF u
    <2>8. InStep(node'[Active], node'[Standby], chan'[Active], chan'[Standby])
      <3>1. Active \in Node /\ Standby \in Node
        BY DEF Node
      <3> QED
        BY <2>4, <2>7, <3>1 DEF InStep, Past
    <2>9. \A m \in Node : Awaited(m, node'[m], chan'[m])
      BY <1>1, <1>9, <2>5, <2>6 DEF u
    <2>10. up' # {} /\ up' # {Active} /\ up' # {Standby}
      BY <2>1, NodeAssumption, SMT DEF Node
    <2> QED
      BY <1>13, <2>1, <2>8, <2>9, <2>10 DEF OrderInv
  <1> QED
    BY <1>15, <1>16

\* The invariant holds in every initial state ...
LEMMA OrderInit ==
  ASSUME Init
  PROVE  OrderInv
  <1>1. up = {} /\ inst = {} /\ \A n \in Node : chan[n] = << >>
    BY DEF Init, Session!SessionInit, NoMessages
  <1>2. \A n \in Node : node[n].current_state = "INIT" /\ node[n].out = << >>
    BY InitNode
  <1>3. Active \in Node /\ Standby \in Node
    BY DEF Node
  <1> QED
    BY <1>1, <1>2, <1>3 DEF OrderInv

\* ... and every step keeps it, a removal as well.
LEMMA OrderStep ==
  ASSUME TypeOK, OrderInv, [Next]_vars
  PROVE  OrderInv'
  <1>1. CASE UNCHANGED vars
    BY <1>1 DEF vars, OrderInv
  <1>2. CASE Next
    <2> PICK n \in Node :
          \/ Up(n) \/ Transit(n) \/ Leave(n) \/ LeaveAfterPeer(n)
          \/ LinkChange(n) \/ VlanChange(n) \/ Bind(n) \/ Unbind(n)
      BY <1>2 DEF Next
    <2> QED
      BY UpOrder, TransitOrder, LeaveOrder, ChangeOrder
  <1> QED
    BY <1>1, <1>2

\* No message is dropped by mlacp_stage_sync_send_handler or by
\* mlacp_stage_sync_request_handler, however often the session is lost and comes
\* up again with messages under way, and whatever is put into the domain or
\* taken out of it meanwhile.
THEOREM NothingDroppedAlways == Spec => []NothingDropped
  <1>1. OrderInv => NothingDropped
    <2> SUFFICES ASSUME OrderInv, NEW n \in up,
                        node[n].current_state \in {"STAGE1", "STAGE2"},
                        ~node[n].wait_for_sync_data
                 PROVE  chan[n] = << >> \/
                          (Head(chan[n]) = "SYNC_REQ" /\
                           (n = Active) = (node[n].current_state = "STAGE1"))
      BY DEF NothingDropped
    <2>1. Awaited(n, node[n], chan[n])
      BY DEF OrderInv
    <2>2. \/ chan[n] = << >>
          \/ /\ chan[n] = <<"SYNC_REQ">>
             /\ \/ n = Active /\ node[n].current_state = "STAGE1"
                \/ n = Standby /\ node[n].current_state = "STAGE2"
      BY <2>1 DEF Awaited, Past
    <2> QED
      BY <2>2, NodeAssumption, SMT
  <1>2. TypeOK /\ OrderInv /\ [Next]_vars => OrderInv'
    BY OrderStep
  <1> QED
    BY <1>1, <1>2, OrderInit, TypeCorrect, PTL DEF Spec
=============================================================================

----------------------------- MODULE IccpProofs -----------------------------
(***************************************************************************)
(* Proofs about the connection layer, for every set of connections, every  *)
(* assignment of MLAG domain ids and any number of faults.  It is correct  *)
(* in its types and safe with mismatched domains; it implements            *)
(* PeerSession, loses no handshake message, agrees on the handshake, and   *)
(* has a socket behind every state but the idle ones.                      *)
(*                                                                         *)
(* The argument for the session: the backlog is in the order in which the  *)
(* active peer connected, so that its current connection is the last one   *)
(* there.  Once the standby peer has said anything on that connection the  *)
(* backlog is empty, and the standby peer can be on no other one.          *)
(***************************************************************************)
EXTENDS IccpCsmProps, TLAPS

\* A leaf is left to Zenon unless it names a prover: SMT where arithmetic or the
\* theory of sequences is needed, PTL for temporal logic.
USE Zenon

-----------------------------------------------------------------------------
(* What the operators of IccpCsm return.                                   *)

\* The flags a session starts with are flags.
LEMMA InfoResetType == InfoReset \in Info
  BY DEF InfoReset, Info, Status

\* A message carries its sender's redundancy group.
LEMMA PrepareMsgType ==
  ASSUME NEW n \in Node, NEW i \in Info, NEW t \in MsgType
  PROVE  PrepareMsg(n, i, t) \in Msg
  BY DEF PrepareMsg, Info, Msg

\* What a state sends is a sequence of messages.
LEMMA PrepareIccpMsgType ==
  ASSUME NEW n \in Node, NEW s \in State, NEW i \in Info
  PROVE  PrepareIccpMsg(n, s, i) \in Seq(Msg)
  <1>1. \A t \in MsgType : <<PrepareMsg(n, i, t)>> \in Seq(Msg)
    BY PrepareMsgType, SMT
  <1>2. {"CAPABILITY", "NOTIFICATION", "RG_CONNECT", "RG_DISCONNECT"}
          \subseteq MsgType
    BY DEF MsgType
  <1>3. << >> \in Seq(Msg)
    BY SMT
  <1> QED
    BY <1>1, <1>2, <1>3 DEF PrepareIccpMsg, State

\* Checking the group of a message changes at most the status code.
LEMMA CheckIdFromMsgType ==
  ASSUME NEW n \in Node, NEW i \in Info, NEW m \in Msg
  PROVE  CheckIdFromMsg(n, i, m) \in Info
  BY DEF CheckIdFromMsg, Info, Status

\* A message changes the flags into flags.
LEMMA CorrespondFromMsgType ==
  ASSUME NEW n \in Node, NEW i \in Info, NEW m \in Msg
  PROVE  CorrespondFromMsg(n, i, m) \in Info
  <1> DEFINE j == CheckIdFromMsg(n, i, m)
  <1>1. j \in Info
    BY CheckIdFromMsgType
  <1> QED
    BY <1>1 DEF CorrespondFromMsg, Info

\* The successor of a state is a state.
LEMMA NextStateType ==
  ASSUME NEW s \in State, NEW i \in Info
  PROVE  NextState(s, i) \in State
  BY DEF NextState, State

\* Entering a state changes the flags into flags.
LEMMA EnterStateType ==
  ASSUME NEW s \in State, NEW i \in Info
  PROVE  EnterState(s, i) \in Info
  BY DEF EnterState, Info

-----------------------------------------------------------------------------
(* Type correctness.                                                       *)

\* Closing an end keeps the types of the network.
LEMMA CloseEndsType ==
  ASSUME TypeOK, NEW n \in Node, NEW C, CloseEnds(n, C)
  PROVE  /\ open' \in [Conn -> SUBSET Node]
         /\ wire' \in [Conn -> [Node -> Seq(Msg)]]
  <1>1. \A c \in Conn : open[c] \in SUBSET Node /\ open[c] \ {n} \in SUBSET Node
    BY DEF TypeOK
  <1>2. \A c \in Conn : /\ wire[c] \in [Node -> Seq(Msg)]
                        /\ [wire[c] EXCEPT ![n] = << >>] \in [Node -> Seq(Msg)]
    BY SMT DEF TypeOK
  <1> QED
    BY <1>1, <1>2 DEF CloseEnds

\* Writing messages keeps the type of the network.
LEMMA WireSendType ==
  ASSUME TypeOK, NEW n \in Node, NEW ms \in Seq(Msg), WireSend(n, ms)
  PROVE  wire' \in [Conn -> [Node -> Seq(Msg)]]
  <1>1. Peer(n) \in Node
    BY DEF Peer, Node
  <1>2. \A c \in Conn : wire[c] \in [Node -> Seq(Msg)]
    BY DEF TypeOK
  <1>3. \A c \in Conn : wire[c][Peer(n)] \o ms \in Seq(Msg)
    BY <1>1, <1>2, SMT
  <1>4. \A c \in Conn : [wire[c] EXCEPT ![Peer(n)] = @ \o ms]
                          \in [Node -> Seq(Msg)]
    BY <1>2, <1>3
  <1> QED
    BY <1>2, <1>4 DEF WireSend

\* A disconnect resets to values of the right type.
LEMMA SessionDisconnectType ==
  ASSUME TypeOK, NEW n \in Node, StatusReset(n)
  PROVE  /\ state' \in [Node -> State]
         /\ app' \in [Node -> {"NONEXISTENT", "OPERATIONAL"}]
         /\ info' \in [Node -> Info]
         /\ msg_list' \in [Node -> Seq(Msg)]
         /\ mlacp_list' \in [Node -> Seq(Msg)]
         /\ mlacp' \in [Node -> BOOLEAN]
  <1>1. "NONEXISTENT" \in State /\ << >> \in Seq(Msg)
    BY SMT DEF State
  <1> QED
    BY <1>1, InfoResetType DEF StatusReset, TypeOK

\* What mLACP sends in a pass is a sequence of messages.
LEMMA AppMessagesType ==
  ASSUME NEW n \in Node, NEW i \in Info, NEW op
  PROVE  AppMessages(n, i, op) \subseteq Seq(Msg)
  <1>1. <<PrepareMsg(n, i, "RG_APP_DATA")>> \in Seq(Msg)
    BY PrepareMsgType, SMT DEF MsgType
  <1>2. << >> \in Seq(Msg)
    BY SMT
  <1> QED
    BY <1>1, <1>2 DEF AppMessages

\* Every step of either daemon, of the network and of the operator keeps the
\* types.
LEMMA TypeOKStep ==
  ASSUME TypeOK, [Next]_vars
  PROVE  TypeOK'
  <1>1. CASE UNCHANGED vars
    BY <1>1 DEF TypeOK, vars
  <1>2. CASE Accept
    <2> DEFINE c == Head(backlog)
    <2>1. c \in Conn /\ Tail(backlog) \in Seq(Conn) /\ Standby \in Node
      BY <1>2, SMT DEF Accept, TypeOK, Node
    <2>2. CASE sock[Standby] # None \/ ~config[Standby]
      <3>1. CloseEnds(Standby, {c})
        BY <1>2, <2>2 DEF Accept, RejectClient
      <3> QED
        BY <1>2, <2>1, <2>2, <3>1, CloseEndsType DEF Accept, TypeOK
    <2>3. CASE ~(sock[Standby] # None \/ ~config[Standby])
      BY <1>2, <2>1, <2>3, ZenonT(30) DEF Accept, TypeOK, State
    <2> QED
      BY <2>2, <2>3
  <1>3. ASSUME NEW n \in Node, ReadMsg(n)
        PROVE  TypeOK'
    <2> DEFINE c == sock[n]
               m == Head(wire[c][n])
    <2>1. c \in Conn /\ wire[c] \in [Node -> Seq(Msg)]
      BY <1>3 DEF ReadMsg, TypeOK
    <2>2. m \in Msg /\ Tail(wire[c][n]) \in Seq(Msg)
      BY <1>3, <2>1, SMT DEF ReadMsg
    <2>3. wire' \in [Conn -> [Node -> Seq(Msg)]]
      BY <1>3, <2>1, <2>2 DEF ReadMsg, TypeOK
    <2>4. /\ Append(mlacp_list[n], m) \in Seq(Msg)
          /\ Append(msg_list[n], m) \in Seq(Msg)
      BY <2>2, SMT DEF TypeOK
    <2>5. mlacp_list' \in [Node -> Seq(Msg)] /\ msg_list' \in [Node -> Seq(Msg)]
      BY <1>3, <2>4 DEF ReadMsg, TypeOK
    <2> QED
      BY <1>3, <2>3, <2>5 DEF ReadMsg, TypeOK
  <1>4. ASSUME NEW n \in Node, ReadError(n)
        PROVE  TypeOK'
    BY <1>4, CloseEndsType, SessionDisconnectType
       DEF ReadError, SessionDisconnect, TypeOK
  <1>5. ASSUME NEW n \in Node, ConfigChange(n)
        PROVE  TypeOK'
    BY <1>5, CloseEndsType, SessionDisconnectType, SMT
       DEF ConfigChange, SessionDisconnect, TypeOK
  <1>6. ASSUME NEW n \in Node, ConfigComplete(n)
        PROVE  TypeOK'
    BY <1>6 DEF ConfigComplete, csmVars, netVars, TypeOK
  <1>7. ASSUME NEW n \in Node, HeartbeatTimeout(n)
        PROVE  TypeOK'
    <2>1. CloseEnds(n, {sock[n]}) /\ StatusReset(n)
      BY <1>7 DEF HeartbeatTimeout, SessionDisconnect
    <2>2. /\ sock' = [sock EXCEPT ![n] = None] /\ faults' = faults - 1
          /\ polled' = [polled EXCEPT ![n] = FALSE] /\ faults > 0
          /\ UNCHANGED <<config, backlog>>
      BY <1>7 DEF HeartbeatTimeout, SessionDisconnect
    <2> QED
      BY <2>1, <2>2, CloseEndsType, SessionDisconnectType, SMT DEF TypeOK
  <1>8. ASSUME NEW n \in Node, Restart(n)
        PROVE  TypeOK'
    <2>1. << >> \in Seq(Conn)
      BY SMT
    <2> QED
      BY <1>8, <2>1, CloseEndsType, SessionDisconnectType, SMT
         DEF Restart, TypeOK
  <1>9. ASSUME NEW n \in Node, TransitIdle(n)
        PROVE  TypeOK'
    BY <1>9 DEF TransitIdle, csmVars, netVars, TypeOK
  <1>10. ASSUME NEW n \in Node, NEW c \in Conn, TransitConnect(n, c)
         PROVE  TypeOK'
    <2>1. "INITIALIZED" \in State
      BY DEF State
    <2>2. EnterState("INITIALIZED", info[n]) \in Info
      BY <2>1, EnterStateType DEF TypeOK
    <2>3. Append(backlog, c) \in Seq(Conn)
      BY SMT DEF TypeOK
    <2> QED
      BY <1>10, <2>1, <2>2, <2>3 DEF TransitConnect, TypeOK
  <1>11. ASSUME NEW n \in Node, TransitAccepted(n)
         PROVE  TypeOK'
    <2>1. "INITIALIZED" \in State
      BY DEF State
    <2>2. EnterState("INITIALIZED", info[n]) \in Info
      BY <2>1, EnterStateType DEF TypeOK
    <2>3. msg_list[n] # << >> => Tail(msg_list[n]) \in Seq(Msg)
      BY SMT DEF TypeOK
    <2>4. msg_list' \in [Node -> Seq(Msg)]
      BY <1>11, <2>3 DEF TransitAccepted, TypeOK
    <2>5. state' \in [Node -> State] /\ info' \in [Node -> Info]
      <3>1. CASE config[n]
        <4> DEFINE i == EnterState("INITIALIZED", info[n])
        <4>1. /\ state' = [state EXCEPT ![n] = "INITIALIZED"]
              /\ info' = [info EXCEPT ![n] = i]
          BY <1>11, <3>1 DEF TransitAccepted
        <4> HIDE DEF i
        <4>2. state' \in [Node -> State]
          BY <4>1, <2>1 DEF TypeOK
        <4>3. i \in Info
          BY <2>2 DEF i
        <4>4. info' \in [Node -> Info]
          BY <4>1, <4>3 DEF TypeOK
        <4> QED
          BY <4>2, <4>4
      <3>2. CASE ~config[n]
        BY <1>11, <3>2 DEF TransitAccepted, TypeOK
      <3> QED
        BY <3>1, <3>2
    <2> QED
      BY <1>11, <2>4, <2>5 DEF TransitAccepted, netVars, TypeOK
  <1>12. ASSUME NEW n \in Node, TransitSession(n)
         PROVE  TypeOK'
    <2> DEFINE got == msg_list[n] # << >>
               i1 == IF got
                     THEN CorrespondFromMsg(n, info[n], Head(msg_list[n]))
                     ELSE info[n]
               s == NextState(state[n], i1)
               i2 == IF got \/ s # state[n] THEN EnterState(s, i1) ELSE i1
               operational == app[n] = "OPERATIONAL" \/ s = "OPERATIONAL"
               iccp == PrepareIccpMsg(n, state[n], i1)
    <2>1. got => Head(msg_list[n]) \in Msg /\ Tail(msg_list[n]) \in Seq(Msg)
      BY SMT DEF TypeOK
    <2>2. i1 \in Info
      BY <2>1, CorrespondFromMsgType DEF TypeOK
    <2>3. s \in State
      BY <2>2, NextStateType DEF TypeOK
    <2>4. i2 \in Info
      BY <2>2, <2>3, EnterStateType
    <2>5. iccp \in Seq(Msg)
      BY <2>2, PrepareIccpMsgType DEF TypeOK
    <2>6. PICK ms \in AppMessages(n, i2, operational) :
            WireSend(n, IF i1.status # "OK" /\ ~Room(n) THEN ms ELSE iccp \o ms)
      BY <1>12 DEF TransitSession
    <2>7. ms \in Seq(Msg) /\ iccp \o ms \in Seq(Msg)
      BY <2>4, <2>5, <2>6, AppMessagesType, SMT
    <2>8. wire' \in [Conn -> [Node -> Seq(Msg)]]
      BY <2>6, <2>7, WireSendType
    <2>9. /\ state' = [state EXCEPT ![n] = s]
          /\ info' = [info EXCEPT ![n] = i2]
          /\ msg_list' = [msg_list EXCEPT ![n] = IF got THEN Tail(@) ELSE @]
          /\ app' = [app EXCEPT ![n] = IF operational THEN "OPERATIONAL" ELSE @]
          /\ mlacp' = [mlacp EXCEPT ![n] = @ \/ operational]
          /\ mlacp_list' = [mlacp_list EXCEPT ![n] =
                              IF operational THEN << >> ELSE @]
          /\ polled' = [polled EXCEPT ![n] = FALSE]
          /\ UNCHANGED <<sock, config, open, backlog, faults>>
      BY <1>12 DEF TransitSession
    <2> HIDE DEF i1, s, i2, operational, iccp
    <2>10. /\ state' \in [Node -> State]
           /\ info' \in [Node -> Info]
           /\ app' \in [Node -> {"NONEXISTENT", "OPERATIONAL"}]
           /\ mlacp' \in [Node -> BOOLEAN]
      BY <2>3, <2>4, <2>9 DEF TypeOK
    <2>11. msg_list' \in [Node -> Seq(Msg)]
      BY <2>1, <2>9 DEF TypeOK
    <2>12. mlacp_list' \in [Node -> Seq(Msg)]
      <3>1. << >> \in Seq(Msg)
        BY SMT
      <3> QED
        BY <2>9, <3>1 DEF TypeOK
    <2> QED
      BY <2>8, <2>9, <2>10, <2>11, <2>12 DEF TypeOK
  <1> QED
    BY <1>1, <1>2, <1>3, <1>4, <1>5, <1>6, <1>7, <1>8, <1>9, <1>10, <1>11,
       <1>12
       DEF Next, Read, Transit

\* The state of the connection layer is type correct in every run.
THEOREM TypeCorrect == Spec => []TypeOK
  <1>1. Init => TypeOK
    BY BoundAssumption, InfoResetType, SMT DEF Init, TypeOK, State
  <1>2. TypeOK /\ [Next]_vars => TypeOK'
    BY TypeOKStep
  <1> QED
    BY <1>1, <1>2, PTL DEF Spec

-----------------------------------------------------------------------------
(* Peers of different MLAG domains never become operational.               *)

\* The messages that can come from n's peer.
FromPeer(n) == {m \in Msg : m.rg = RgId[Peer(n)]}

\* Every message in flight and every queued message carries the group of the
\* peer, and the one that sets peer_rg_connect_flag sets the status code too,
\* which only a message of the own group would clear.
MismatchInv ==
  /\ TypeOK
  /\ \A n \in Node : /\ msg_list[n] \in Seq(FromPeer(n))
                     /\ \A c \in Conn : wire[c][n] \in Seq(FromPeer(n))
                     /\ info[n].peer_rg_connect => info[n].status # "OK"
                     /\ state[n] # "OPERATIONAL"

\* The peer of a peer's peer.
LEMMA PeerFacts ==
  ASSUME NEW n \in Node
  PROVE  Peer(n) \in Node /\ Peer(n) # n /\ Peer(Peer(n)) = n
                          /\ Node = {n, Peer(n)}
  BY NodeAssumption, SMT DEF Node, Peer

\* What n sends carries n's group.
LEMMA PrepareMsgFromPeer ==
  ASSUME NEW n \in Node, NEW i \in Info, NEW t \in MsgType
  PROVE  PrepareMsg(n, i, t) \in FromPeer(Peer(n))
  <1>1. PrepareMsg(n, i, t).rg = RgId[Peer(Peer(n))]
    BY PeerFacts DEF PrepareMsg
  <1> QED
    BY <1>1, PrepareMsgType DEF FromPeer

\* The same of everything a pass sends.
LEMMA SentFromPeer ==
  ASSUME NEW n \in Node, NEW s \in State, NEW i \in Info, NEW j \in Info, NEW op,
         NEW ms \in AppMessages(n, j, op)
  PROVE  /\ ms \in Seq(FromPeer(Peer(n)))
         /\ PrepareIccpMsg(n, s, i) \in Seq(FromPeer(Peer(n)))
         /\ PrepareIccpMsg(n, s, i) \o ms \in Seq(FromPeer(Peer(n)))
  <1> DEFINE M == FromPeer(Peer(n))
  <1>1. \A k \in Info : \A t \in MsgType : <<PrepareMsg(n, k, t)>> \in Seq(M)
    BY PrepareMsgFromPeer, SMT
  <1>2. {"CAPABILITY", "NOTIFICATION", "RG_CONNECT", "RG_DISCONNECT",
         "RG_APP_DATA"} \subseteq MsgType
    BY DEF MsgType
  <1>3. << >> \in Seq(M)
    BY SMT
  <1> HIDE DEF M
  <1>4. ms \in Seq(M)
    BY <1>1, <1>2, <1>3 DEF AppMessages
  <1>5. PrepareIccpMsg(n, s, i) \in Seq(M)
    BY <1>1, <1>2, <1>3 DEF PrepareIccpMsg, State
  <1> QED
    BY <1>4, <1>5, SMT DEF M

\* Dropping the session of n, whatever the reason, keeps the invariant.
LEMMA MismatchDrop ==
  ASSUME MismatchInv, TypeOK', NEW n \in Node, NEW C, CloseEnds(n, C),
         StatusReset(n)
  PROVE  MismatchInv'
  <1> SUFFICES ASSUME NEW p \in Node
               PROVE  /\ msg_list'[p] \in Seq(FromPeer(p))
                      /\ \A c \in Conn : wire'[c][p] \in Seq(FromPeer(p))
                      /\ info'[p].peer_rg_connect => info'[p].status # "OK"
                      /\ state'[p] # "OPERATIONAL"
    BY DEF MismatchInv
  <1>1. << >> \in Seq(FromPeer(p))
    BY SMT
  <1>2. \A c \in Conn : wire'[c][p] \in {wire[c][p], << >>}
    BY DEF CloseEnds, MismatchInv, TypeOK
  <1>3. \A c \in Conn : wire'[c][p] \in Seq(FromPeer(p))
    BY <1>1, <1>2 DEF MismatchInv
  <1>4. /\ msg_list'[p] \in {msg_list[p], << >>}
        /\ info'[p] \in {info[p], InfoReset}
        /\ state'[p] \in {state[p], "NONEXISTENT"}
    BY SMT DEF StatusReset, MismatchInv, TypeOK
  <1>5. info'[p].peer_rg_connect => info'[p].status # "OK"
    <2>1. CASE info'[p] = info[p]
      BY <2>1 DEF MismatchInv
    <2>2. CASE info'[p] = InfoReset
      BY <2>2, SMT DEF InfoReset
    <2> QED
      BY <1>4, <2>1, <2>2
  <1>6. msg_list'[p] \in Seq(FromPeer(p)) /\ state'[p] # "OPERATIONAL"
    BY <1>1, <1>4 DEF MismatchInv
  <1> QED
    BY <1>3, <1>5, <1>6

\* Every step keeps the invariant.
LEMMA MismatchStep ==
  ASSUME RgId[Active] # RgId[Standby], MismatchInv, [Next]_vars
  PROVE  MismatchInv'
  <1>0. TypeOK /\ TypeOK'
    BY TypeOKStep DEF MismatchInv
  <1> DEFINE Inv(p) == /\ msg_list'[p] \in Seq(FromPeer(p))
                       /\ \A c \in Conn : wire'[c][p] \in Seq(FromPeer(p))
                       /\ info'[p].peer_rg_connect => info'[p].status # "OK"
                       /\ state'[p] # "OPERATIONAL"
  <1>1. CASE UNCHANGED vars
    BY <1>0, <1>1 DEF MismatchInv, vars
  <1>2. CASE Accept
    <2>1. /\ UNCHANGED <<info, msg_list>>
          /\ \A p \in Node : state'[p] \in {state[p], "NONEXISTENT"}
      BY <1>0, <1>2, SMT DEF Accept, TypeOK
    <2>2. \A p \in Node : \A c \in Conn : wire'[c][p] \in {wire[c][p], << >>}
      <3>1. CloseEnds(Standby, {Head(backlog)}) \/ UNCHANGED wire
        BY <1>2 DEF Accept, RejectClient
      <3>2. \A c \in Conn : wire[c] \in [Node -> Seq(Msg)]
        BY <1>0 DEF TypeOK
      <3>3. CASE CloseEnds(Standby, {Head(backlog)})
        BY <3>2, <3>3 DEF CloseEnds
      <3> QED
        BY <3>1, <3>3
    <2>3. ASSUME NEW p \in Node PROVE << >> \in Seq(FromPeer(p))
      BY SMT
    <2> QED
      BY <1>0, <2>1, <2>2, <2>3 DEF MismatchInv
  <1>3. ASSUME NEW n \in Node, ReadMsg(n)
        PROVE  MismatchInv'
    <2> DEFINE c == sock[n]
               m == Head(wire[c][n])
    <2>1. c \in Conn /\ wire[c][n] \in Seq(FromPeer(n)) /\ wire[c][n] # << >>
      BY <1>0, <1>3 DEF ReadMsg, TypeOK, MismatchInv
    <2>2. m \in FromPeer(n) /\ Tail(wire[c][n]) \in Seq(FromPeer(n))
      BY <2>1, SMT
    <2>3. \A p \in Node : \A d \in Conn :
            wire'[d][p] = IF p = n /\ d = c THEN Tail(wire[c][n]) ELSE wire[d][p]
      BY <1>0, <1>3, <2>1, SMT DEF ReadMsg, TypeOK
    <2>4. \A p \in Node :
            msg_list'[p] \in {msg_list[p],
                              IF p = n THEN Append(msg_list[p], m)
                              ELSE msg_list[p]}
      BY <1>0, <1>3, SMT DEF ReadMsg, TypeOK
    <2>5. Append(msg_list[n], m) \in Seq(FromPeer(n))
      BY <2>2, SMT DEF MismatchInv
    <2>6. UNCHANGED <<info, state>>
      BY <1>3 DEF ReadMsg
    <2> QED
      BY <1>0, <2>2, <2>3, <2>4, <2>5, <2>6, ZenonT(30) DEF MismatchInv
  <1>4. ASSUME NEW n \in Node, ReadError(n)
        PROVE  MismatchInv'
    BY <1>0, <1>4, MismatchDrop DEF ReadError, SessionDisconnect
  <1>5. ASSUME NEW n \in Node, ConfigChange(n)
        PROVE  MismatchInv'
    BY <1>0, <1>5, MismatchDrop DEF ConfigChange, SessionDisconnect
  <1>6. ASSUME NEW n \in Node, ConfigComplete(n)
        PROVE  MismatchInv'
    BY <1>0, <1>6 DEF ConfigComplete, MismatchInv, csmVars, netVars
  <1>7. ASSUME NEW n \in Node, HeartbeatTimeout(n)
        PROVE  MismatchInv'
    BY <1>0, <1>7, MismatchDrop DEF HeartbeatTimeout, SessionDisconnect
  <1>8. ASSUME NEW n \in Node, Restart(n)
        PROVE  MismatchInv'
    BY <1>0, <1>8, MismatchDrop DEF Restart
  <1>9. ASSUME NEW n \in Node, TransitIdle(n)
        PROVE  MismatchInv'
    BY <1>0, <1>9 DEF TransitIdle, MismatchInv, csmVars, netVars
  <1>10. ASSUME NEW n \in Node, NEW c \in Conn, TransitConnect(n, c)
         PROVE  MismatchInv'
    BY <1>0, <1>10, SMT
       DEF TransitConnect, MismatchInv, EnterState, TypeOK, Info
  <1>11. ASSUME NEW n \in Node, TransitAccepted(n)
         PROVE  MismatchInv'
    <2>1. \A p \in Node : msg_list'[p] \in Seq(FromPeer(p))
      BY <1>0, <1>11, SMT DEF TransitAccepted, MismatchInv, TypeOK
    <2>2. UNCHANGED wire
      BY <1>11 DEF TransitAccepted, netVars
    <2>3. \A p \in Node :
            /\ state'[p] \in {state[p], "INITIALIZED"}
            /\ info'[p] \in {info[p],
                             [info[p] EXCEPT !.sender_capability = TRUE]}
      BY <1>0, <1>11, SMT DEF TransitAccepted, EnterState, TypeOK
    <2>4. \A p \in Node : /\ info'[p].peer_rg_connect = info[p].peer_rg_connect
                          /\ info'[p].status = info[p].status
      <3> SUFFICES ASSUME NEW p \in Node
                   PROVE  /\ info'[p].peer_rg_connect = info[p].peer_rg_connect
                          /\ info'[p].status = info[p].status
        OBVIOUS
      <3>1. info[p] \in Info
        BY <1>0 DEF TypeOK
      <3>2. \/ info'[p] = info[p]
            \/ info'[p] = [info[p] EXCEPT !.sender_capability = TRUE]
        BY <2>3
      <3> QED
        BY <3>1, <3>2 DEF Info
    <2> QED
      BY <1>0, <2>1, <2>2, <2>3, <2>4 DEF MismatchInv
  <1>12. ASSUME NEW n \in Node, TransitSession(n)
         PROVE  MismatchInv'
    <2> DEFINE got == msg_list[n] # << >>
               m == Head(msg_list[n])
               i1 == IF got THEN CorrespondFromMsg(n, info[n], m) ELSE info[n]
               s == NextState(state[n], i1)
               i2 == IF got \/ s # state[n] THEN EnterState(s, i1) ELSE i1
               operational == app[n] = "OPERATIONAL" \/ s = "OPERATIONAL"
               iccp == PrepareIccpMsg(n, state[n], i1)
    <2>1. got => m \in FromPeer(n) /\ Tail(msg_list[n]) \in Seq(FromPeer(n))
      BY SMT DEF MismatchInv
    <2>2. RgId[Peer(n)] # RgId[n]
      BY SMT DEF Peer, Node
    <2>3. got => m \in Msg /\ m.rg # RgId[n]
      BY <2>1, <2>2 DEF FromPeer
    <2>4. i1 \in Info
      BY <1>0, <2>3, CorrespondFromMsgType DEF TypeOK
    <2>5. i1.peer_rg_connect => i1.status # "OK"
      <3>1. CASE ~got
        BY <3>1 DEF MismatchInv
      <3>2. CASE got /\ m.type = "CAPABILITY"
        BY <1>0, <3>2, SMT
           DEF MismatchInv, CorrespondFromMsg, CheckIdFromMsg, TypeOK, Info
      <3>3. CASE got /\ m.type # "CAPABILITY"
        <4> DEFINE j == CheckIdFromMsg(n, info[n], m)
        <4>1. j = [info[n] EXCEPT !.status = "U_ICCP_RG"]
          BY <2>3, <3>3 DEF CheckIdFromMsg
        <4> HIDE DEF j
        <4>2. info[n] \in Info
          BY <1>0 DEF TypeOK
        <4>3. j.status = "U_ICCP_RG" /\ j \in Info
          BY <4>1, <4>2 DEF Info, Status
        <4>4. CorrespondFromMsg(n, info[n], m).status = "U_ICCP_RG"
          BY <3>3, <4>3 DEF CorrespondFromMsg, Info, j
        <4> QED
          BY <3>3, <4>4
      <3> QED
        BY <3>1, <3>2, <3>3
    <2>6. s # "OPERATIONAL" /\ s \in State
      BY <1>0, <2>4, <2>5, NextStateType, SMT
         DEF NextState, MismatchInv, TypeOK, State
    <2>7. i2.peer_rg_connect => i2.status # "OK"
      BY <2>4, <2>5, <2>6 DEF EnterState, Info
    <2>8. i2 \in Info
      BY <2>4, <2>6, EnterStateType
    <2>9. PICK ms \in AppMessages(n, i2, operational) :
            WireSend(n, IF i1.status # "OK" /\ ~Room(n) THEN ms ELSE iccp \o ms)
      BY <1>12 DEF TransitSession
    <2>10. /\ ms \in Seq(FromPeer(Peer(n)))
           /\ iccp \o ms \in Seq(FromPeer(Peer(n)))
      BY <1>0, <2>4, <2>8, <2>9, SentFromPeer, SMT DEF TypeOK
    <2>11. /\ state' = [state EXCEPT ![n] = s]
           /\ info' = [info EXCEPT ![n] = i2]
           /\ msg_list' = [msg_list EXCEPT ![n] = IF got THEN Tail(@) ELSE @]
      BY <1>12 DEF TransitSession
    <2> HIDE DEF i1, s, i2, operational, iccp
    <2>12. \A p \in Node : \A c \in Conn : wire'[c][p] \in Seq(FromPeer(p))
      <3> SUFFICES ASSUME NEW p \in Node, NEW c \in Conn
                   PROVE  wire'[c][p] \in Seq(FromPeer(p))
        OBVIOUS
      <3>1. wire[c][p] \in Seq(FromPeer(p)) /\ wire[c] \in [Node -> Seq(Msg)]
        BY <1>0 DEF MismatchInv, TypeOK
      <3>2. CASE p = Peer(n)
        <4>1. wire'[c][p] \in {wire[c][p], wire[c][p] \o ms,
                               wire[c][p] \o (iccp \o ms)}
          BY <2>9, <3>1, <3>2 DEF WireSend
        <4>2. /\ wire[c][p] \o ms \in Seq(FromPeer(p))
              /\ wire[c][p] \o (iccp \o ms) \in Seq(FromPeer(p))
          BY <2>10, <3>1, <3>2, SMT
        <4> QED
          BY <3>1, <4>1, <4>2
      <3>3. CASE p # Peer(n)
        <4>1. wire'[c][p] = wire[c][p]
          BY <2>9, <3>1, <3>3 DEF WireSend
        <4> QED
          BY <3>1, <4>1
      <3> QED
        BY <3>2, <3>3
    <2>13. \A p \in Node : msg_list'[p] \in Seq(FromPeer(p))
      BY <1>0, <2>1, <2>11, SMT DEF MismatchInv, TypeOK
    <2>14. \A p \in Node : /\ info'[p].peer_rg_connect => info'[p].status # "OK"
                           /\ state'[p] # "OPERATIONAL"
      BY <1>0, <2>6, <2>7, <2>11 DEF MismatchInv, TypeOK
    <2> QED
      BY <1>0, <2>12, <2>13, <2>14 DEF MismatchInv
  <1> QED
    BY <1>1, <1>2, <1>3, <1>4, <1>5, <1>6, <1>7, <1>8, <1>9, <1>10, <1>11,
       <1>12
       DEF Next, Read, Transit

\* Peers that are configured with different MLAG domain ids never become
\* OPERATIONAL, whatever is lost, restarted or reconfigured.
THEOREM MismatchSafe == Spec => []MismatchNeverOperational
  <1>1. CASE RgId[Active] = RgId[Standby]
    <2>1. MismatchNeverOperational
      BY <1>1 DEF MismatchNeverOperational
    <2> QED
      BY <2>1, PTL
  <1>2. CASE RgId[Active] # RgId[Standby]
    <2>1. Init => MismatchInv
      <3> SUFFICES ASSUME Init PROVE MismatchInv
        OBVIOUS
      <3>1. TypeOK
        BY BoundAssumption, InfoResetType, SMT DEF Init, TypeOK, State
      <3>2. \A p \in Node : << >> \in Seq(FromPeer(p))
        BY SMT
      <3> QED
        BY <3>1, <3>2 DEF Init, MismatchInv, InfoReset
    <2>2. MismatchInv /\ [Next]_vars => MismatchInv'
      BY <1>2, MismatchStep
    <2>3. MismatchInv => MismatchNeverOperational
      BY DEF MismatchInv, MismatchNeverOperational
    <2> QED
      BY <2>1, <2>2, <2>3, PTL DEF Spec
  <1> QED
    BY <1>1, <1>2

-----------------------------------------------------------------------------
(* The session: what a connection that is not there has left behind.       *)

\* A connection state machine in NONEXISTENT has nothing of an earlier
\* session, and a socket only from accept() to the pass that follows.
Idle(n) ==
  state[n] = "NONEXISTENT" =>
    /\ app[n] = "NONEXISTENT" /\ info[n] = InfoReset /\ msg_list[n] = << >>
    /\ sock[n] # None => config[n] /\ polled[n]

Backed(n) == sock[n] = None => state[n] = "NONEXISTENT"

\* A socket is an open end of its connection; nothing is in flight to a
\* closed end.
Ends(n) ==
  /\ sock[n] # None => n \in open[sock[n]]
  /\ \A c \in Conn : n \notin open[c] => wire[c][n] = << >>

\* The connections that wait for accept().
Queue ==
  /\ \A i, j \in 1..Len(backlog) : backlog[i] = backlog[j] => i = j
  /\ \A i \in 1..Len(backlog) :
       backlog[i] # sock[Standby] /\ Standby \in open[backlog[i]]
  /\ sock[Active] # None =>
       backlog = << >> \/ backlog[Len(backlog)] = sock[Active]
  /\ \A c \in Conn : Active \in open[c] => sock[Active] = c

\* The active peer has not heard of the standby one on its connection.
Unanswered ==
  /\ wire[sock[Active]][Active] = << >> /\ msg_list[Active] = << >>
  /\ state[Active] \in {"INITIALIZED", "CAPSENT"} /\ app[Active] = "NONEXISTENT"
  /\ ~info[Active].peer_capability /\ ~info[Active].peer_rg_connect

OneConnection ==
  sock[Active] # None =>
    Unanswered \/ (backlog = << >> /\ sock[Standby] \in {sock[Active], None})

SessionInv ==
  /\ TypeOK
  /\ \A n \in Node : Idle(n) /\ Backed(n) /\ Ends(n)
  /\ Queue
  /\ OneConnection

-----------------------------------------------------------------------------
(* What the steps change.                                                  *)

\* The session of n is dropped: everything of n is reset, its end of the
\* connection is closed, and the other peer keeps what it has.
LEMMA DropFacts ==
  ASSUME TypeOK, NEW n \in Node, NEW C, CloseEnds(n, C), StatusReset(n),
         sock' = [sock EXCEPT ![n] = None]
  PROVE  /\ sock'[n] = None /\ sock'[Peer(n)] = sock[Peer(n)]
         /\ state'[n] = "NONEXISTENT" /\ state'[Peer(n)] = state[Peer(n)]
         /\ app'[n] = "NONEXISTENT" /\ app'[Peer(n)] = app[Peer(n)]
         /\ info'[n] = InfoReset /\ info'[Peer(n)] = info[Peer(n)]
         /\ msg_list'[n] = << >> /\ msg_list'[Peer(n)] = msg_list[Peer(n)]
         /\ \A c \in Conn : /\ wire'[c][Peer(n)] = wire[c][Peer(n)]
                            /\ wire'[c][n] = IF c \in C THEN << >> ELSE wire[c][n]
                            /\ open'[c] = IF c \in C THEN open[c] \ {n} ELSE open[c]
<1>1. Peer(n) \in Node /\ Peer(n) # n
  BY PeerFacts
<1>2. \A c \in Conn : wire[c] \in [Node -> Seq(Msg)]
  BY DEF TypeOK
<1>3. \A c \in Conn : /\ wire'[c][Peer(n)] = wire[c][Peer(n)]
                      /\ wire'[c][n] = IF c \in C THEN << >> ELSE wire[c][n]
                      /\ open'[c] = IF c \in C THEN open[c] \ {n} ELSE open[c]
  BY <1>1, <1>2 DEF CloseEnds
<1> QED
  BY <1>1, <1>3 DEF StatusReset, TypeOK

\* A drop keeps the invariant.
LEMMA SessionDrop ==
  ASSUME SessionInv, TypeOK', NEW n \in Node, NEW C, CloseEnds(n, C),
         StatusReset(n), sock' = [sock EXCEPT ![n] = None], sock[n] \in C,
         config'[Peer(n)] = config[Peer(n)], polled'[Peer(n)] = polled[Peer(n)],
         \/ backlog' = << >>
         \/ backlog' = backlog /\ C = {sock[n]}
  PROVE  SessionInv'
<1> DEFINE p == Peer(n)
<1>0. TypeOK /\ p \in Node /\ p # n /\ Node = {n, p}
  BY PeerFacts DEF SessionInv
<1>1. /\ sock'[n] = None /\ sock'[p] = sock[p]
      /\ state'[n] = "NONEXISTENT" /\ state'[p] = state[p]
      /\ app'[n] = "NONEXISTENT" /\ app'[p] = app[p]
      /\ info'[n] = InfoReset /\ info'[p] = info[p]
      /\ msg_list'[n] = << >> /\ msg_list'[p] = msg_list[p]
  BY <1>0, DropFacts
<1>2. \A c \in Conn : /\ wire'[c][p] = wire[c][p]
                      /\ wire'[c][n] = IF c \in C THEN << >> ELSE wire[c][n]
                      /\ open'[c] = IF c \in C THEN open[c] \ {n} ELSE open[c]
  BY <1>0, DropFacts
<1> HIDE DEF p
<1>3. \A m \in Node : Idle(m)' /\ Backed(m)'
  BY <1>0, <1>1, SMT DEF SessionInv, Idle, Backed, p
<1>4. \A m \in Node : Ends(m)'
  <2>1. Ends(n)'
    BY <1>0, <1>1, <1>2, ZenonT(30) DEF SessionInv, Ends
  <2>2. Ends(p)'
    <3>1. sock[p] # None => sock[p] \in Conn
      BY <1>0 DEF TypeOK
    <3>2. Ends(p)
      BY <1>0 DEF SessionInv
    <3>3. \A c \in Conn : p \in open[c] <=> p \in open'[c]
      BY <1>0, <1>2
    <3> QED
      BY <1>1, <1>2, <3>1, <3>2, <3>3 DEF Ends
  <2> QED
    BY <1>0, <2>1, <2>2
<1>5. Queue'
  <2>1. \A c \in Conn : (Active \in open[c])' => (sock[Active] = c)'
    <3>1. \A c \in Conn : Active \in open[c] => sock[Active] = c
      BY DEF SessionInv, Queue
    <3>2. \A c \in Conn : open'[c] \subseteq open[c] /\ (c \in C => n \notin open'[c])
      BY <1>2
    <3>3. CASE n = Active
      BY <3>1, <3>2, <3>3
    <3>4. CASE p = Active
      BY <1>1, <3>1, <3>2, <3>4
    <3> QED
      BY <1>0, <3>3, <3>4 DEF Node
  <2>2. CASE backlog' = << >>
    <3>1. Len(backlog') = 0
      BY <2>2
    <3> QED
      BY <2>1, <2>2, <3>1, SMT DEF Queue
  <2>3. CASE backlog' = backlog /\ C = {sock[n]}
    <3>1. \A i \in 1..Len(backlog) : backlog[i] \in Conn /\ backlog[i] # None
      <4>1. backlog \in Seq(Conn)
        BY <1>0 DEF TypeOK
      <4> QED
        BY <4>1, ConnAssumption, SMT
    <3>2. \A i \in 1..Len(backlog) :
            backlog[i] # sock'[Standby] /\ Standby \in open'[backlog[i]]
      <4> SUFFICES ASSUME NEW i \in 1..Len(backlog)
                   PROVE  backlog[i] # sock'[Standby] /\ Standby \in open'[backlog[i]]
        OBVIOUS
      <4> DEFINE b == backlog[i]
      <4>1. b # sock[Standby] /\ Standby \in open[b] /\ b \in Conn /\ b # None
        BY <3>1 DEF SessionInv, Queue
      <4> HIDE DEF b
      <4>2. CASE n = Standby
        BY <1>1, <1>2, <2>3, <4>1, <4>2 DEF b
      <4>3. CASE p = Standby
        <5>1. open'[b] = open[b] \/ open'[b] = open[b] \ {n}
          BY <1>2, <4>1
        <5> QED
          BY <1>0, <1>1, <4>1, <4>3, <5>1 DEF b
      <4> QED
        BY <1>0, <4>2, <4>3 DEF Node
    <3>3. sock'[Active] # None => sock'[Active] = sock[Active]
      BY <1>0, <1>1 DEF Node
    <3> QED
      BY <2>1, <2>3, <3>2, <3>3 DEF SessionInv, Queue
  <2> QED
    BY <2>2, <2>3
<1>6. OneConnection'
  <2>1. CASE n = Active
    BY <1>1, <2>1 DEF OneConnection
  <2>2. CASE n = Standby
    <3>1. p = Active
      BY <2>2, NodeAssumption DEF p, Peer
    <3>2. sock[Active] # None => sock[Active] \in Conn
      BY <1>0, <3>1 DEF TypeOK
    <3>3. sock[Active] # None /\ Unanswered => Unanswered'
      <4>1. sock'[Active] = sock[Active] /\ msg_list'[Active] = msg_list[Active]
            /\ state'[Active] = state[Active] /\ app'[Active] = app[Active]
            /\ info'[Active] = info[Active]
        BY <1>1, <3>1
      <4>2. sock[Active] # None =>
              wire'[sock'[Active]][Active] = wire[sock[Active]][Active]
        BY <1>2, <3>1, <3>2, <4>1
      <4> QED
        BY <4>1, <4>2 DEF Unanswered
    <3>4. sock'[Standby] = None /\ sock'[Active] = sock[Active]
      BY <1>1, <2>2, <3>1
    <3>5. backlog = << >> => backlog' = << >>
      OBVIOUS
    <3> QED
      BY <3>3, <3>4, <3>5 DEF SessionInv, OneConnection
  <2> QED
    BY <2>1, <2>2 DEF Node
<1> QED
  BY <1>3, <1>4, <1>5, <1>6 DEF SessionInv

\* Servicing the listening socket: the head of the backlog goes, and becomes
\* the standby peer's socket or loses its end there.
LEMMA SessionAccept ==
  ASSUME SessionInv, TypeOK', Accept
  PROVE  SessionInv'
<1> DEFINE c == Head(backlog)
<1>0. TypeOK /\ Active \in Node /\ Standby \in Node /\ Active # Standby
  BY NodeAssumption DEF SessionInv, Node
<1>1. backlog \in Seq(Conn) /\ backlog # << >> /\ backlog' = Tail(backlog)
  BY <1>0 DEF Accept, TypeOK
<1>2. /\ Len(backlog) \in Nat /\ Len(backlog) > 0 /\ c = backlog[1] /\ c \in Conn
      /\ Len(backlog') = Len(backlog) - 1
      /\ \A i \in 1..Len(backlog') : backlog'[i] = backlog[i + 1]
                                     /\ i + 1 \in 1..Len(backlog)
  BY <1>1, SMT
<1>3. /\ \A i, j \in 1..Len(backlog') : backlog'[i] = backlog'[j] => i = j
      /\ \A i \in 1..Len(backlog') :
           /\ backlog'[i] # c /\ backlog'[i] # sock[Standby]
           /\ Standby \in open[backlog'[i]] /\ backlog'[i] \in Conn
      /\ c # sock[Standby] /\ Standby \in open[c]
  <2>1. /\ \A i, j \in 1..Len(backlog) : backlog[i] = backlog[j] => i = j
        /\ \A i \in 1..Len(backlog) :
             backlog[i] # sock[Standby] /\ Standby \in open[backlog[i]]
    BY DEF SessionInv, Queue
  <2>2. c # sock[Standby] /\ Standby \in open[c] /\ 1 \in 1..Len(backlog)
    BY <1>2, <2>1, SMT
  <2>3. \A i, j \in 1..Len(backlog') : backlog'[i] = backlog'[j] => i = j
    BY <1>2, <2>1, SMT
  <2>4. \A i \in 1..Len(backlog') : backlog'[i] # c
    BY <1>2, <2>1, <2>2, SMT
  <2>5. \A i \in 1..Len(backlog') :
          /\ backlog'[i] # sock[Standby]
          /\ Standby \in open[backlog'[i]] /\ backlog'[i] \in Conn
    BY <1>1, <1>2, <2>1, SMT
  <2> QED
    BY <2>2, <2>3, <2>4, <2>5
<1>4. sock[Active] # None =>
        backlog' = << >> \/ backlog'[Len(backlog')] = sock[Active]
  <2> SUFFICES ASSUME sock[Active] # None, backlog' # << >>
               PROVE  backlog'[Len(backlog')] = sock[Active]
    OBVIOUS
  <2>1. Len(backlog') \in 1..Len(backlog')
    BY <1>1, <1>2, SMT
  <2>2. backlog'[Len(backlog')] = backlog[Len(backlog)]
    BY <1>2, <2>1, SMT
  <2> QED
    BY <1>1, <2>2 DEF SessionInv, Queue
<1>5. UNCHANGED <<app, info, msg_list, config>>
      /\ sock'[Active] = sock[Active] /\ state'[Active] = state[Active]
      /\ polled'[Active] = polled[Active]
  BY <1>0 DEF Accept, TypeOK
<1>6. sock[Active] # None => Unanswered
  BY <1>1 DEF SessionInv, OneConnection
<1>7. CASE sock[Standby] # None \/ ~config[Standby]
  <2>1. UNCHANGED <<sock, polled, state>> /\ CloseEnds(Standby, {c})
    BY <1>7 DEF Accept, RejectClient
  <2>2. \A d \in Conn : wire[d] \in [Node -> Seq(Msg)]
    BY <1>0 DEF TypeOK
  <2>3. \A d \in Conn :
          /\ wire'[d][Active] = wire[d][Active]
          /\ wire'[d][Standby] = IF d = c THEN << >> ELSE wire[d][Standby]
          /\ open'[d] = IF d = c THEN open[d] \ {Standby} ELSE open[d]
    BY <1>0, <2>1, <2>2 DEF CloseEnds
  <2>4. \A n \in Node : Idle(n)' /\ Backed(n)'
    BY <1>5, <2>1 DEF SessionInv, Idle, Backed
  <2>5. Ends(Active)'
    <3>1. sock[Active] # None => sock[Active] \in Conn
      BY <1>0 DEF TypeOK
    <3>2. Ends(Active)
      BY <1>0 DEF SessionInv
    <3>3. \A d \in Conn : Active \in open[d] <=> Active \in open'[d]
      BY <1>0, <2>3
    <3> QED
      BY <2>1, <2>3, <3>1, <3>2, <3>3 DEF Ends
  <2>6. Ends(Standby)'
    <3>1. sock[Standby] # None => sock[Standby] \in Conn
      BY <1>0 DEF TypeOK
    <3>2. Ends(Standby)
      BY <1>0 DEF SessionInv
    <3> QED
      BY <1>3, <2>1, <2>3, <3>1, <3>2 DEF Ends
  <2>7. Queue'
    <3>1. \A d \in Conn : Active \in open'[d] => sock'[Active] = d
      BY <1>0, <1>5, <2>3 DEF SessionInv, Queue
    <3>2. \A i \in 1..Len(backlog') :
            backlog'[i] # sock'[Standby] /\ Standby \in open'[backlog'[i]]
      BY <1>3, <2>1, <2>3
    <3> QED
      BY <1>3, <1>4, <1>5, <3>1, <3>2 DEF Queue
  <2>8. OneConnection'
    <3>1. sock[Active] # None => sock[Active] \in Conn
      BY <1>0 DEF TypeOK
    <3>2. sock[Active] # None => Unanswered'
      BY <1>5, <1>6, <2>3, <3>1 DEF Unanswered
    <3> QED
      BY <1>5, <3>2 DEF OneConnection
  <2> QED
    BY <2>4, <2>5, <2>6, <2>7, <2>8 DEF SessionInv, Node
<1>8. CASE ~(sock[Standby] # None \/ ~config[Standby])
  <2>1. /\ UNCHANGED <<wire, open>> /\ sock'[Standby] = c
        /\ state'[Standby] = "NONEXISTENT" /\ polled'[Standby] = TRUE
        /\ config[Standby]
    BY <1>0, <1>8, SMT DEF Accept, TypeOK
  <2>2. Idle(Standby)' /\ Backed(Standby)'
    <3>1. Idle(Standby) /\ state[Standby] = "NONEXISTENT"
      BY <1>0, <1>8 DEF SessionInv, Backed
    <3> QED
      BY <1>5, <2>1, <3>1 DEF Idle, Backed
  <2>3. Idle(Active)' /\ Backed(Active)'
    BY <1>0, <1>5 DEF SessionInv, Idle, Backed
  <2>4. Ends(Active)' /\ Ends(Standby)'
    BY <1>0, <1>3, <1>5, <2>1 DEF SessionInv, Ends
  <2>5. Queue'
    <3>1. \A d \in Conn : Active \in open'[d] => sock'[Active] = d
      BY <1>5, <2>1 DEF SessionInv, Queue
    <3>2. \A i \in 1..Len(backlog') :
            backlog'[i] # sock'[Standby] /\ Standby \in open'[backlog'[i]]
      BY <1>3, <2>1
    <3> QED
      BY <1>3, <1>4, <1>5, <3>1, <3>2 DEF Queue
  <2>6. OneConnection'
    BY <1>5, <1>6, <2>1 DEF OneConnection, Unanswered
  <2> QED
    BY <2>2, <2>3, <2>4, <2>5, <2>6 DEF SessionInv, Node
<1> QED
  BY <1>7, <1>8

\* A message that is read moves from the connection to a queue of the reader,
\* which is past NONEXISTENT.
LEMMA SessionRead ==
  ASSUME SessionInv, TypeOK', NEW n \in Node, ReadMsg(n)
  PROVE  SessionInv'
<1> DEFINE p == Peer(n)
           c == sock[n]
<1>0. TypeOK /\ p \in Node /\ p # n /\ Node = {n, p}
  BY PeerFacts DEF SessionInv
<1>1. c \in Conn /\ c # None /\ wire[c][n] # << >> /\ n \in open[c]
  BY <1>0, SMT DEF ReadMsg, TypeOK, SessionInv, Ends
<1>2. UNCHANGED <<state, app, info, sock, config, open, backlog>>
  BY DEF ReadMsg
<1>3. state[n] # "NONEXISTENT"
  BY DEF SessionInv, Idle, ReadMsg
<1>4. msg_list'[p] = msg_list[p] /\ polled'[p] = polled[p]
  BY <1>0, SMT DEF ReadMsg, TypeOK
<1>5. \A d \in Conn : /\ wire'[d][p] = wire[d][p]
                      /\ d # c => wire'[d][n] = wire[d][n]
  BY <1>0, <1>1, SMT DEF ReadMsg, TypeOK
<1> HIDE DEF p, c
<1>6. \A m \in Node : Idle(m)' /\ Backed(m)'
  BY <1>0, <1>2, <1>3, <1>4 DEF SessionInv, Idle, Backed
<1>7. Ends(n)' /\ Ends(p)'
  BY <1>0, <1>1, <1>2, <1>5 DEF SessionInv, Ends
<1>8. Queue'
  BY <1>2 DEF SessionInv, Queue
<1>9. OneConnection'
  <2>1. CASE n = Active
    BY <1>1, <1>2, <2>1 DEF SessionInv, OneConnection, Unanswered, c
  <2>2. CASE p = Active
    <3>1. sock[Active] # None => sock[Active] \in Conn
      BY <1>0, <2>2 DEF TypeOK
    <3>2. sock[Active] # None /\ Unanswered => Unanswered'
      BY <1>2, <1>4, <1>5, <2>2, <3>1 DEF Unanswered
    <3> QED
      BY <1>2, <3>2 DEF SessionInv, OneConnection
  <2> QED
    BY <1>0, <2>1, <2>2 DEF Node
<1> QED
  BY <1>0, <1>6, <1>7, <1>8, <1>9 DEF SessionInv

\* The active peer connects: its new connection is the last of the backlog.
LEMMA SessionConnect ==
  ASSUME SessionInv, TypeOK', NEW c \in Conn, TransitConnect(Active, c)
  PROVE  SessionInv'
<1>0. TypeOK /\ Active \in Node /\ Standby \in Node /\ Active # Standby
  BY NodeAssumption DEF SessionInv, Node
<1>1. /\ sock[Active] = None /\ state[Active] = "NONEXISTENT" /\ open[c] = {}
      /\ \A i \in 1..Len(backlog) : backlog[i] # c
      /\ UNCHANGED <<app, msg_list, config, wire>>
      /\ backlog' = Append(backlog, c) /\ c # None
  BY ConnAssumption DEF TransitConnect, FreeConn
<1>2. /\ sock'[Active] = c /\ sock'[Standby] = sock[Standby]
      /\ state'[Active] = "INITIALIZED" /\ state'[Standby] = state[Standby]
      /\ info'[Standby] = info[Standby] /\ polled'[Standby] = polled[Standby]
      /\ info'[Active] = EnterState("INITIALIZED", info[Active])
      /\ \A d \in Conn : open'[d] = IF d = c THEN Node ELSE open[d]
  BY <1>0, ZenonT(30) DEF TransitConnect, TypeOK
<1>3. /\ app[Active] = "NONEXISTENT" /\ info[Active] = InfoReset
      /\ msg_list[Active] = << >>
  BY <1>0, <1>1 DEF SessionInv, Idle
<1>4. ~info'[Active].peer_capability /\ ~info'[Active].peer_rg_connect
  BY <1>2, <1>3, SMT DEF EnterState, InfoReset
<1>5. wire[c][Active] = << >> /\ sock[Standby] # c
  BY <1>0, <1>1 DEF SessionInv, Ends
<1>6. \A n \in Node : Idle(n)' /\ Backed(n)'
  BY <1>0, <1>1, <1>2, SMT DEF SessionInv, Idle, Backed, Node
<1>7. Ends(Active)' /\ Ends(Standby)'
  <2>1. Ends(Active) /\ Ends(Standby)
    BY <1>0 DEF SessionInv
  <2>2. sock[Standby] # None => sock[Standby] \in Conn
    BY <1>0 DEF TypeOK
  <2> QED
    BY <1>0, <1>1, <1>2, <1>5, <2>1, <2>2 DEF Ends
<1>8. Queue'
  <2>1. backlog \in Seq(Conn)
    BY <1>0 DEF TypeOK
  <2>2. /\ Len(backlog) \in Nat /\ Len(backlog') = Len(backlog) + 1
        /\ backlog'[Len(backlog')] = c
        /\ \A i \in 1..Len(backlog') :
             i # Len(backlog') => i \in 1..Len(backlog) /\ backlog'[i] = backlog[i]
                                  /\ backlog[i] \in Conn
    BY <1>1, <2>1, SMT
  <2>3. /\ \A i, j \in 1..Len(backlog) : backlog[i] = backlog[j] => i = j
        /\ \A i \in 1..Len(backlog) :
             backlog[i] # sock[Standby] /\ Standby \in open[backlog[i]]
        /\ \A d \in Conn : Active \in open[d] => sock[Active] = d
    BY DEF SessionInv, Queue
  <2>4. \A i, j \in 1..Len(backlog') : backlog'[i] = backlog'[j] => i = j
    BY <1>1, <2>2, <2>3, SMT
  <2>5. \A i \in 1..Len(backlog') :
          backlog'[i] # sock'[Standby] /\ Standby \in open'[backlog'[i]]
    <3> SUFFICES ASSUME NEW i \in 1..Len(backlog')
                 PROVE  backlog'[i] # sock'[Standby]
                        /\ Standby \in open'[backlog'[i]]
      OBVIOUS
    <3>1. CASE i = Len(backlog')
      BY <1>0, <1>2, <1>5, <2>2, <3>1
    <3>2. CASE i # Len(backlog')
      <4>1. backlog'[i] # sock[Standby] /\ Standby \in open[backlog'[i]]
            /\ backlog'[i] \in Conn
        BY <2>2, <2>3, <3>2
      <4> QED
        BY <1>0, <1>2, <4>1
    <3> QED
      BY <3>1, <3>2
  <2>6. \A d \in Conn : Active \in open'[d] => sock'[Active] = d
    BY <1>1, <1>2, <2>3, ConnAssumption
  <2> QED
    BY <1>2, <2>2, <2>4, <2>5, <2>6 DEF Queue
<1>9. OneConnection'
  BY <1>1, <1>2, <1>3, <1>4, <1>5 DEF OneConnection, Unanswered
<1> QED
  BY <1>6, <1>7, <1>8, <1>9 DEF SessionInv, Node

\* The pass that follows accept(): nothing has been received before it.
LEMMA SessionAccepted ==
  ASSUME SessionInv, TypeOK', NEW n \in Node, TransitAccepted(n)
  PROVE  SessionInv'
<1> DEFINE p == Peer(n)
<1>0. TypeOK /\ p \in Node /\ p # n /\ Node = {n, p}
  BY PeerFacts DEF SessionInv
<1>1. /\ sock[n] # None /\ state[n] = "NONEXISTENT" /\ config[n]
      /\ msg_list[n] = << >>
      /\ UNCHANGED <<app, sock, config, wire, open, backlog>>
  BY DEF TransitAccepted, SessionInv, Idle, netVars
<1>2. /\ state'[n] = "INITIALIZED" /\ state'[p] = state[p]
      /\ info'[p] = info[p] /\ polled'[p] = polled[p]
      /\ msg_list'[p] = msg_list[p]
  BY <1>0, <1>1, SMT DEF TransitAccepted, TypeOK
<1> HIDE DEF p
<1>3. \A m \in Node : Idle(m)' /\ Backed(m)'
  BY <1>0, <1>1, <1>2, SMT DEF SessionInv, Idle, Backed
<1>4. \A m \in Node : Ends(m)'
  BY <1>1 DEF SessionInv, Ends
<1>5. Queue'
  BY <1>1 DEF SessionInv, Queue
<1>6. OneConnection'
  <2>1. CASE n = Active
    BY <1>1, <2>1 DEF SessionInv, OneConnection, Unanswered
  <2>2. CASE p = Active
    BY <1>1, <1>2, <2>2 DEF SessionInv, OneConnection, Unanswered
  <2> QED
    BY <1>0, <2>1, <2>2 DEF Node
<1> QED
  BY <1>3, <1>4, <1>5, <1>6 DEF SessionInv

\* A pass with a session: what it leaves alone, and what a peer that has heard
\* nothing does.
LEMMA TransitFacts ==
  ASSUME TypeOK, NEW n \in Node, TransitSession(n)
  PROVE  /\ state'[n] # "NONEXISTENT"
         /\ state'[Peer(n)] = state[Peer(n)] /\ app'[Peer(n)] = app[Peer(n)]
         /\ info'[Peer(n)] = info[Peer(n)]
         /\ msg_list'[Peer(n)] = msg_list[Peer(n)]
         /\ polled'[Peer(n)] = polled[Peer(n)]
         /\ app'[n] = "OPERATIONAL" <=>
              app[n] = "OPERATIONAL" \/ state'[n] = "OPERATIONAL"
         /\ \A c \in Conn :
              /\ wire'[c][n] = wire[c][n]
              /\ (c # sock[n] \/ Peer(n) \notin open[c]) =>
                   wire'[c][Peer(n)] = wire[c][Peer(n)]
         /\ (/\ msg_list[n] = << >> /\ state[n] \in {"INITIALIZED", "CAPSENT"}
             /\ ~info[n].peer_capability) =>
              /\ msg_list'[n] = << >> /\ state'[n] \in {"INITIALIZED", "CAPSENT"}
              /\ app'[n] = app[n]
              /\ info'[n].peer_capability = info[n].peer_capability
              /\ info'[n].peer_rg_connect = info[n].peer_rg_connect
<1> DEFINE p == Peer(n)
           got == msg_list[n] # << >>
           m == Head(msg_list[n])
           i1 == IF got THEN CorrespondFromMsg(n, info[n], m) ELSE info[n]
           s == NextState(state[n], i1)
           i2 == IF got \/ s # state[n] THEN EnterState(s, i1) ELSE i1
           operational == app[n] = "OPERATIONAL" \/ s = "OPERATIONAL"
<1>0. p \in Node /\ p # n
  BY PeerFacts
<1>1. /\ state' = [state EXCEPT ![n] = s]
      /\ info' = [info EXCEPT ![n] = i2]
      /\ msg_list' = [msg_list EXCEPT ![n] = IF got THEN Tail(@) ELSE @]
      /\ app' = [app EXCEPT ![n] = IF operational THEN "OPERATIONAL" ELSE @]
      /\ polled' = [polled EXCEPT ![n] = FALSE]
      /\ \E ms : WireSend(n, ms)
  BY DEF TransitSession
<1>2. \A c \in Conn :
        /\ wire'[c][n] = wire[c][n]
        /\ (c # sock[n] \/ p \notin open[c]) => wire'[c][p] = wire[c][p]
  <2>1. \A c \in Conn : wire[c] \in [Node -> Seq(Msg)]
    BY DEF TypeOK
  <2> QED
    BY <1>0, <1>1, <2>1 DEF WireSend
<1>3. s # "NONEXISTENT"
  BY DEF NextState, TypeOK, State, TransitSession
<1>4. ASSUME msg_list[n] = << >>, state[n] \in {"INITIALIZED", "CAPSENT"},
             ~info[n].peer_capability
      PROVE  /\ s \in {"INITIALIZED", "CAPSENT"} /\ ~got
             /\ i2.peer_capability = info[n].peer_capability
             /\ i2.peer_rg_connect = info[n].peer_rg_connect
  <2>1. i1 = info[n] /\ ~got
    BY <1>4
  <2>2. s \in {"INITIALIZED", "CAPSENT"}
    BY <1>4, <2>1 DEF NextState
  <2>3. info[n] \in Info
    BY DEF TypeOK
  <2> HIDE DEF i1, s, got
  <2>4. i2.peer_capability = info[n].peer_capability
        /\ i2.peer_rg_connect = info[n].peer_rg_connect
    BY <2>1, <2>2, <2>3 DEF EnterState, Info
  <2> QED
    BY <2>1, <2>2, <2>4
<1> HIDE DEF p, i1, s, i2, got
<1>5. /\ state'[n] = s /\ info'[n] = i2
      /\ msg_list'[n] = IF got THEN Tail(msg_list[n]) ELSE msg_list[n]
      /\ app'[n] = IF operational THEN "OPERATIONAL" ELSE app[n]
      /\ state'[p] = state[p] /\ app'[p] = app[p] /\ info'[p] = info[p]
      /\ msg_list'[p] = msg_list[p] /\ polled'[p] = polled[p]
  BY <1>0, <1>1 DEF TypeOK
<1> QED
  BY <1>2, <1>3, <1>4, <1>5 DEF p

\* A pass with a session keeps the invariant: when the standby peer writes to
\* the active one's connection, that connection has left the backlog.
LEMMA SessionTransit ==
  ASSUME SessionInv, TypeOK', NEW n \in Node, TransitSession(n)
  PROVE  SessionInv'
<1> DEFINE p == Peer(n)
<1>0. TypeOK /\ p \in Node /\ p # n /\ Node = {n, p}
  BY PeerFacts DEF SessionInv
<1>1. /\ sock[n] # None /\ state[n] # "NONEXISTENT"
      /\ UNCHANGED <<sock, config, open, backlog>>
  BY DEF TransitSession
<1>2. /\ state'[n] # "NONEXISTENT" /\ state'[p] = state[p] /\ app'[p] = app[p]
      /\ info'[p] = info[p] /\ msg_list'[p] = msg_list[p]
      /\ polled'[p] = polled[p]
  BY <1>0, TransitFacts
<1>3. \A c \in Conn :
        /\ wire'[c][n] = wire[c][n]
        /\ (c # sock[n] \/ p \notin open[c]) => wire'[c][p] = wire[c][p]
  BY <1>0, TransitFacts
<1>4. \A m \in Node : Idle(m)' /\ Backed(m)'
  BY <1>0, <1>1, <1>2 DEF SessionInv, Idle, Backed
<1>5. Ends(n)' /\ Ends(p)'
  BY <1>0, <1>1, <1>3 DEF SessionInv, Ends
<1>6. Queue'
  BY <1>1 DEF SessionInv, Queue
<1>7. OneConnection'
  <2>0. sock[Active] # None => sock[Active] \in Conn
    BY <1>0 DEF TypeOK, Node
  <2>1. CASE n = Active
    <3>1. sock[Active] # None /\ Unanswered => Unanswered'
      <4> SUFFICES ASSUME Unanswered, sock[Active] # None PROVE Unanswered'
        OBVIOUS
      <4>1. /\ msg_list'[n] = << >> /\ state'[n] \in {"INITIALIZED", "CAPSENT"}
            /\ app'[n] = app[n]
            /\ info'[n].peer_capability = info[n].peer_capability
            /\ info'[n].peer_rg_connect = info[n].peer_rg_connect
        BY <1>0, <2>1, TransitFacts DEF Unanswered
      <4> QED
        BY <1>1, <1>3, <2>0, <2>1, <4>1 DEF Unanswered
    <3> QED
      BY <1>1, <3>1 DEF SessionInv, OneConnection
  <2>2. CASE p = Active
    <3>1. n = Standby
      BY <1>0, <2>2 DEF Node
    <3>2. CASE sock[Active] = sock[n]
      <4>1. backlog # << >> => Len(backlog) \in 1..Len(backlog)
        BY <1>0, SMT DEF TypeOK
      <4>2. backlog = << >>
        BY <1>1, <3>1, <3>2, <4>1 DEF SessionInv, Queue
      <4> QED
        BY <1>1, <3>1, <3>2, <4>2 DEF OneConnection
    <3>3. CASE sock[Active] # sock[n]
      <4>1. sock[Active] # None /\ Unanswered => Unanswered'
        BY <1>1, <1>2, <1>3, <2>0, <2>2, <3>3 DEF Unanswered
      <4> QED
        BY <1>1, <4>1 DEF SessionInv, OneConnection
    <3> QED
      BY <3>2, <3>3
  <2> QED
    BY <1>0, <2>1, <2>2 DEF Node
<1> QED
  BY <1>0, <1>4, <1>5, <1>6, <1>7 DEF SessionInv

\* Every step keeps the invariant.
LEMMA SessionStep ==
  ASSUME SessionInv, [Next]_vars
  PROVE  SessionInv'
<1>0. TypeOK /\ TypeOK'
  BY TypeOKStep DEF SessionInv
<1>1. CASE UNCHANGED vars
  <2>1. \A n \in Node : Idle(n)' /\ Backed(n)' /\ Ends(n)'
    BY <1>1 DEF vars, SessionInv, Idle, Backed, Ends
  <2>2. Queue' /\ OneConnection'
    BY <1>1, SMT DEF vars, SessionInv, Queue, OneConnection, Unanswered
  <2> QED
    BY <1>0, <2>1, <2>2 DEF SessionInv
<1>2. ASSUME NEW n \in Node, ReadError(n) \/ HeartbeatTimeout(n) \/ ConfigChange(n)
      PROVE  SessionInv'
  <2>1. /\ CloseEnds(n, {sock[n]}) /\ StatusReset(n)
        /\ sock' = [sock EXCEPT ![n] = None] /\ backlog' = backlog
    BY <1>2 DEF ReadError, HeartbeatTimeout, ConfigChange, SessionDisconnect
  <2>2. config'[Peer(n)] = config[Peer(n)] /\ polled'[Peer(n)] = polled[Peer(n)]
    BY <1>0, <1>2, PeerFacts
       DEF ReadError, HeartbeatTimeout, ConfigChange, TypeOK
  <2> QED
    BY <1>0, <2>1, <2>2, SessionDrop
<1>3. ASSUME NEW n \in Node, Restart(n)
      PROVE  SessionInv'
  <2>1. polled'[Peer(n)] = polled[Peer(n)] /\ config' = config
    BY <1>0, <1>3, PeerFacts DEF Restart, TypeOK
  <2>2. CASE n = Standby
    <3> DEFINE C == {sock[n]} \cup {backlog[i] : i \in 1..Len(backlog)}
    <3>1. CloseEnds(n, C) /\ backlog' = << >> /\ sock[n] \in C
      BY <1>3, <2>2 DEF Restart
    <3> HIDE DEF C
    <3> QED
      BY <1>0, <1>3, <2>1, <3>1, SessionDrop DEF Restart
  <2>3. CASE n # Standby
    <3>1. CloseEnds(n, {sock[n]} \cup {}) /\ backlog' = backlog
      BY <1>3, <2>3 DEF Restart
    <3>2. {sock[n]} \cup {} = {sock[n]}
      OBVIOUS
    <3>3. CloseEnds(n, {sock[n]})
      BY <3>1, <3>2
    <3> QED
      BY <1>0, <1>3, <2>1, <3>1, <3>3, SessionDrop DEF Restart
  <2> QED
    BY <2>2, <2>3
<1>4. ASSUME NEW n \in Node, ConfigComplete(n) \/ TransitIdle(n)
      PROVE  SessionInv'
  <2>1. UNCHANGED <<state, app, info, msg_list, sock, wire, open, backlog>>
    BY <1>4 DEF ConfigComplete, TransitIdle, csmVars, netVars
  <2>2. \A m \in Node : sock[m] # None =>
                          (config[m] => config'[m]) /\ polled'[m] = polled[m]
    BY <1>0, <1>4 DEF ConfigComplete, TransitIdle, TypeOK
  <2>3. \A m \in Node : Idle(m)'
    BY <2>1, <2>2 DEF SessionInv, Idle
  <2>4. \A m \in Node : Backed(m)' /\ Ends(m)'
    BY <2>1 DEF SessionInv, Backed, Ends
  <2>5. Queue'
    BY <2>1 DEF SessionInv, Queue
  <2>6. OneConnection'
    BY <2>1 DEF SessionInv, OneConnection, Unanswered
  <2> QED
    BY <1>0, <2>3, <2>4, <2>5, <2>6 DEF SessionInv
<1>5. ASSUME NEW n \in Node, NEW c \in Conn, TransitConnect(n, c)
      PROVE  SessionInv'
  <2>1. TransitConnect(Active, c)
    BY <1>5 DEF TransitConnect
  <2> QED
    BY <1>0, <2>1, SessionConnect
<1> QED
  BY <1>0, <1>1, <1>2, <1>3, <1>4, <1>5, SessionAccept, SessionRead,
     SessionAccepted, SessionTransit
     DEF Next, Read, Transit

\* The invariant holds in every state of every run.
LEMMA SessionAlways == Spec => []SessionInv
<1>1. Init => SessionInv
  <2> SUFFICES ASSUME Init PROVE SessionInv
    OBVIOUS
  <2>1. TypeOK
    BY BoundAssumption, InfoResetType, SMT DEF Init, TypeOK, State
  <2> QED
    BY <2>1, SMT
       DEF Init, SessionInv, Idle, Backed, Ends, Queue, OneConnection, Node
<1>2. SessionInv /\ [Next]_vars => SessionInv'
  BY SessionStep
<1> QED
  BY <1>1, <1>2, PTL DEF Spec

\* No handshake message is ever dropped in NONEXISTENT: iccp_csm_transit, which
\* dequeues before it looks at the state, finds the queue empty there.
THEOREM NoMessageDroppedAlways == Spec => []NoMessageDropped
<1>1. SessionInv => NoMessageDropped
  BY DEF SessionInv, Idle, NoMessageDropped
<1> QED
  BY <1>1, SessionAlways, PTL

-----------------------------------------------------------------------------
(* Refinement: the session of PeerSession.                                 *)

\* A peer that is up has a socket, and two peers that are up share it.
LEMMA UpFacts ==
  ASSUME SessionInv
  PROVE  /\ \A n \in upMap : n \in Node /\ sock[n] # None
         /\ \A n, p \in upMap : sock[n] = sock[p]
<1>1. \A n \in upMap : n \in Node /\ sock[n] # None
  BY DEF SessionInv, Idle, Backed, upMap
<1>2. Active \in upMap => ~Unanswered
  BY DEF Unanswered, upMap
<1>3. Active \in upMap /\ Standby \in upMap => sock[Active] = sock[Standby]
  BY <1>1, <1>2 DEF SessionInv, OneConnection
<1> QED
  BY <1>1, <1>3 DEF upMap, Node

\* A step that changes no socket and no application state machine is a stutter.
LEMMA RefineStutter ==
  ASSUME UNCHANGED <<app, sock>>
  PROVE  UNCHANGED <<upMap, instMap>>
BY DEF upMap, instMap

\* A drop of the session is the Leave of a peer that holds the connection of
\* the instance, and not seen otherwise.
LEMMA RefineDrop ==
  ASSUME SessionInv, NEW n \in Node, StatusReset(n),
         sock' = [sock EXCEPT ![n] = None]
  PROVE  Session!Leave(n) \/ UNCHANGED <<upMap, instMap>>
<1> DEFINE p == Peer(n)
<1>0. TypeOK /\ p \in Node /\ p # n /\ Node = {n, p}
  BY PeerFacts DEF SessionInv
<1>1. /\ sock'[n] = None /\ sock'[p] = sock[p]
      /\ app'[n] = "NONEXISTENT" /\ app'[p] = app[p]
  BY <1>0 DEF StatusReset, TypeOK
<1> HIDE DEF p
<1>2. upMap' = upMap \ {n}
  BY <1>0, <1>1 DEF upMap
<1>3. instMap' = IF upMap' = {} THEN {} ELSE instMap \ {n}
  <2>1. upMap' = {} \/ upMap' = {p}
    BY <1>0, <1>1 DEF upMap
  <2>2. CASE upMap' = {}
    BY <2>2 DEF instMap
  <2>3. CASE upMap' = {p}
    <3>1. p \in upMap /\ sock[p] # None
      BY <1>2, <2>3, UpFacts
    <3>2. instMap' = {p}
      BY <1>0, <1>1, <2>3, <3>1 DEF instMap
    <3>3. p \in instMap /\ instMap \subseteq Node
      BY <3>1 DEF instMap, upMap
    <3> QED
      BY <1>0, <2>3, <3>2, <3>3
  <2> QED
    BY <2>1, <2>2, <2>3
<1>4. CASE n \in instMap
  BY <1>2, <1>3, <1>4 DEF Session!Leave
<1>5. CASE n \notin instMap
  <2>1. upMap' = upMap /\ (upMap = {} => instMap = {})
    BY <1>2, <1>5 DEF instMap
  <2>2. instMap \ {n} = instMap
    BY <1>5
  <2> QED
    BY <1>3, <2>1, <2>2
<1> QED
  BY <1>4, <1>5

\* A pass with a session opens an instance, joins the one the peer has opened,
\* or is not seen.
LEMMA RefineTransit ==
  ASSUME SessionInv, SessionInv', NEW n \in Node, TransitSession(n)
  PROVE  Session!Open(n) \/ Session!Join(n) \/ UNCHANGED <<upMap, instMap>>
<1> DEFINE p == Peer(n)
<1>0. TypeOK /\ p \in Node /\ p # n /\ Node = {n, p}
  BY PeerFacts DEF SessionInv
<1>1. UNCHANGED sock /\ app'[p] = app[p]
      /\ (app[n] = "OPERATIONAL" => app'[n] = "OPERATIONAL")
  BY <1>0, TransitFacts DEF TransitSession
<1> HIDE DEF p
<1>2. upMap' = upMap \/ (n \notin upMap /\ upMap' = upMap \cup {n})
  BY <1>0, <1>1 DEF upMap
<1>3. CASE upMap' = upMap
  BY <1>1, <1>3 DEF instMap
<1>4. CASE n \notin upMap /\ upMap' = {n} /\ upMap = {}
  <2>1. n \in instMap' /\ instMap' \subseteq Node
    BY <1>4 DEF instMap
  <2>2. instMap' \in {Node, {n}}
    BY <1>0, <2>1
  <2> QED
    BY <1>4, <2>2 DEF Session!Open
<1>5. CASE n \notin upMap /\ upMap' = upMap \cup {n} /\ upMap # {}
  <2>1. p \in upMap /\ p \in upMap' /\ n \in upMap'
    BY <1>0, <1>5 DEF upMap
  <2>2. \A a, b \in upMap' : sock'[a] = sock'[b]
    <3>1. Active \in upMap' => ~Unanswered'
      BY DEF Unanswered, upMap
    <3>2. sock'[n] # None /\ sock'[p] # None
      BY <1>0, <2>1 DEF SessionInv, Idle, Backed, upMap
    <3>3. sock'[Active] = sock'[Standby]
      BY <1>0, <2>1, <3>1, <3>2 DEF SessionInv, OneConnection, Node
    <3> QED
      BY <3>3 DEF upMap, Node
  <2>3. sock[n] = sock[p]
    BY <1>1, <2>1, <2>2
  <2>4. instMap = Node /\ instMap' = Node
    <3>1. upMap \subseteq Node /\ upMap' \subseteq Node
      BY DEF upMap
    <3>2. n \in instMap /\ p \in instMap /\ n \in instMap' /\ p \in instMap'
      BY <2>1, <2>3 DEF instMap
    <3>3. instMap \subseteq Node /\ instMap' \subseteq Node
      BY <3>1 DEF instMap
    <3> QED
      BY <1>0, <3>2, <3>3
  <2> QED
    BY <1>5, <2>4 DEF Session!Join
<1> QED
  BY <1>2, <1>3, <1>4, <1>5

\* Every step of the connection layer is a step of PeerSession or a stutter.
LEMMA RefineStep ==
  ASSUME SessionInv, SessionInv', [Next]_vars
  PROVE  Session!SessionNext \/ UNCHANGED <<upMap, instMap>>
<1>0. TypeOK /\ Active \in Node /\ Standby \in Node /\ Active # Standby
  BY NodeAssumption DEF SessionInv, Node
<1>1. CASE UNCHANGED vars
  BY <1>1, RefineStutter DEF vars
<1>2. CASE Accept
  <2>1. CASE sock[Standby] # None \/ ~config[Standby]
    BY <1>2, <2>1, RefineStutter DEF Accept
  <2>2. CASE ~(sock[Standby] # None \/ ~config[Standby])
    <3>1. Standby \notin upMap
      BY <2>2, UpFacts
    <3>2. Active \notin upMap
      BY <1>2, UpFacts DEF Accept, SessionInv, OneConnection, Unanswered, upMap
    <3>3. upMap = {} /\ app' = app
      BY <1>2, <3>1, <3>2 DEF Accept, upMap, Node
    <3>4. upMap' = {}
      BY <3>3 DEF upMap
    <3> QED
      BY <3>3, <3>4 DEF instMap
  <2> QED
    BY <2>1, <2>2
<1>3. ASSUME NEW n \in Node, ReadMsg(n) \/ ConfigComplete(n) \/ TransitIdle(n)
                               \/ TransitAccepted(n)
      PROVE  UNCHANGED <<upMap, instMap>>
  BY <1>3, RefineStutter
     DEF ReadMsg, ConfigComplete, TransitIdle, TransitAccepted, csmVars
<1>4. ASSUME NEW n \in Node, ReadError(n) \/ ConfigChange(n)
                               \/ HeartbeatTimeout(n) \/ Restart(n)
      PROVE  Session!Leave(n) \/ UNCHANGED <<upMap, instMap>>
  <2>1. StatusReset(n) /\ sock' = [sock EXCEPT ![n] = None]
    BY <1>4
       DEF ReadError, ConfigChange, HeartbeatTimeout, Restart,
           SessionDisconnect
  <2> QED
    BY <2>1, RefineDrop
<1>5. ASSUME NEW n \in Node, NEW c \in Conn, TransitConnect(n, c)
      PROVE  UNCHANGED <<upMap, instMap>>
  <2>1. /\ n = Active /\ app' = app /\ sock[Active] = None /\ open[c] = {}
        /\ sock'[Active] = c /\ sock'[Standby] = sock[Standby] /\ c # None
    BY <1>0, <1>5, ConnAssumption DEF TransitConnect, FreeConn, TypeOK
  <2>2. sock[Standby] # c
    BY <1>0, <2>1 DEF SessionInv, Ends
  <2>3. upMap' = upMap
    BY <2>1 DEF upMap
  <2>4. upMap = {} \/ (upMap = {Standby} /\ sock[Standby] # None)
    BY <2>1, UpFacts DEF Node
  <2>5. CASE upMap = {}
    BY <2>3, <2>5 DEF instMap
  <2>6. CASE upMap = {Standby} /\ sock[Standby] # None
    <3>1. instMap = {Standby}
      BY <1>0, <2>1, <2>6 DEF instMap, Node
    <3>2. instMap' = {Standby}
      BY <1>0, <2>1, <2>2, <2>3, <2>6 DEF instMap, Node
    <3> QED
      BY <2>3, <3>1, <3>2
  <2> QED
    BY <2>4, <2>5, <2>6
<1>6. ASSUME NEW n \in Node, TransitSession(n)
      PROVE  Session!SessionNext \/ UNCHANGED <<upMap, instMap>>
  BY <1>6, RefineTransit DEF Session!SessionNext
<1> QED
  BY <1>1, <1>2, <1>3, <1>4, <1>5, <1>6
     DEF Next, Read, Transit, Session!SessionNext

\* The connection layer implements PeerSession: whatever is lost, restarted or
\* reconfigured, the two application state machines are operational together
\* only in one session, which the second one joins and either may leave.
THEOREM SessionRefinement == Spec => ImplementsSession
<1>1. Init => Session!SessionInit
  BY DEF Init, upMap, instMap, Session!SessionInit
<1>2. SessionInv /\ SessionInv' /\ [Next]_vars
        => [Session!SessionNext]_<<upMap, instMap>>
  BY RefineStep
<1>3. Spec => Session!SessionSpec
  BY <1>1, <1>2, SessionAlways, PTL
  DEF Spec, Session!SessionSpec, Session!sessionVars
<1> QED
  BY <1>3 DEF ImplementsSession

-----------------------------------------------------------------------------
(* The handshake: peers of one MLAG domain.                                *)

Up == {"CONNECTING", "OPERATIONAL"}

\* With one group the status code stays OK, and so does the code of a message.
Good == {m \in Msg : m.code = "OK"}
NoConnect == {m \in Msg : m.type # "RG_CONNECT"}

\* Before n has sent its connect message there is none on its way to the peer,
\* and none has arrived.
Unconnected(n) ==
  sock[n] # None /\ state[n] \notin Up =>
    /\ wire[sock[n]][Peer(n)] \in Seq(NoConnect)
    /\ sock[Peer(n)] = sock[n] => /\ msg_list[Peer(n)] \in Seq(NoConnect)
                                  /\ ~info[Peer(n)].peer_rg_connect

\* The state machine of n has met no error, and OPERATIONAL has both flags.
Healthy(n) ==
  /\ msg_list[n] \in Seq(Good) /\ \A c \in Conn : wire[c][n] \in Seq(Good)
  /\ info[n].status = "OK"
  /\ state[n] = "OPERATIONAL" => /\ info[n].sender_rg_connect
                                 /\ info[n].peer_rg_connect

HandshakeInv ==
  /\ SessionInv
  /\ \A n \in Node : Healthy(n) /\ Unconnected(n)

\* A message of the own group leaves the status code OK and clears no flag;
\* only a connect message sets peer_rg_connect_flag.
LEMMA GoodMessage ==
  ASSUME RgId[Active] = RgId[Standby], NEW n \in Node, NEW i \in Info,
         i.status = "OK", NEW m \in Good
  PROVE  LET j == CorrespondFromMsg(n, i, m) IN
         /\ j \in Info /\ j.status = "OK"
         /\ i.sender_rg_connect => j.sender_rg_connect
         /\ i.peer_rg_connect => j.peer_rg_connect
         /\ m.type # "RG_CONNECT" => j.peer_rg_connect = i.peer_rg_connect
<1>1. m \in Msg /\ m.code = "OK" /\ m.rg = RgId[n]
  BY DEF Good, Msg, Node
<1>2. CheckIdFromMsg(n, i, m) = i
  BY <1>1 DEF CheckIdFromMsg
<1> QED
  BY <1>1, <1>2 DEF CorrespondFromMsg, Info

\* With the status code OK the states from CAPREC on lead on, and OPERATIONAL
\* is entered with peer_rg_connect_flag set.
LEMMA GoodTransit ==
  ASSUME NEW s \in State, NEW i \in Info, i.status = "OK",
         s = "OPERATIONAL" => i.sender_rg_connect /\ i.peer_rg_connect
  PROVE  LET t == NextState(s, i)
             e == EnterState(t, i)
         IN /\ t \in State /\ e \in Info /\ e.status = "OK"
            /\ s \in Up \cup {"CAPREC"} => t \in Up
            /\ t = "OPERATIONAL" => /\ i.peer_rg_connect
                                    /\ e.sender_rg_connect /\ e.peer_rg_connect
                                    /\ s = t => i.sender_rg_connect
            /\ t # "OPERATIONAL" => e.peer_rg_connect = i.peer_rg_connect
<1> DEFINE t == NextState(s, i)
<1>1. t \in State
  BY NextStateType
<1>2. /\ s \in Up \cup {"CAPREC"} => t \in Up
      /\ t = "OPERATIONAL" => /\ i.peer_rg_connect
                              /\ s = t => i.sender_rg_connect
  BY DEF NextState, State, Up
<1> HIDE DEF t
<1>3. LET e == EnterState(t, i)
      IN /\ e \in Info /\ e.status = "OK"
         /\ t = "OPERATIONAL" => e.sender_rg_connect /\ e.peer_rg_connect
         /\ t # "OPERATIONAL" => e.peer_rg_connect = i.peer_rg_connect
  BY <1>1 DEF EnterState, Info, State
<1> QED
  BY <1>1, <1>2, <1>3 DEF t

\* Two sequences over a set make one over the set.
LEMMA Concatenation ==
  ASSUME NEW S, NEW a \in Seq(S), NEW b \in Seq(S)
  PROVE  a \o b \in Seq(S)
BY SMT

\* What a pass sends is Good, and a connect message is sent in CAPREC only.
LEMMA GoodSent ==
  ASSUME NEW n \in Node, NEW s \in State, NEW i \in Info, i.status = "OK",
         NEW j \in Info, j.status = "OK", NEW op, NEW ms \in AppMessages(n, j, op)
  PROVE  /\ PrepareIccpMsg(n, s, i) \o ms \in Seq(Good)
         /\ s # "CAPREC" => PrepareIccpMsg(n, s, i) \o ms \in Seq(NoConnect)
<1>1. \A k \in {i, j} : \A t \in MsgType :
        /\ PrepareMsg(n, k, t) \in Good
        /\ t # "RG_CONNECT" => PrepareMsg(n, k, t) \in NoConnect
  <2>1. \A k \in {i, j} : \A t \in MsgType : PrepareMsg(n, k, t) \in Msg
    BY PrepareMsgType
  <2>2. \A k \in {i, j} : \A t \in MsgType : PrepareMsg(n, k, t).code = "OK"
                                             /\ PrepareMsg(n, k, t).type = t
    BY DEF PrepareMsg
  <2> QED
    BY <2>1, <2>2 DEF Good, NoConnect
<1>2. {"CAPABILITY", "NOTIFICATION", "RG_CONNECT", "RG_DISCONNECT",
       "RG_APP_DATA"} \subseteq MsgType
  BY DEF MsgType
<1>3. \A k \in {i, j} : \A t \in MsgType :
        /\ <<PrepareMsg(n, k, t)>> \in Seq(Good)
        /\ t # "RG_CONNECT" => <<PrepareMsg(n, k, t)>> \in Seq(NoConnect)
  BY <1>1, SMT
<1>4. << >> \in Seq(Good) /\ << >> \in Seq(NoConnect)
  BY SMT
<1>5. ms \in Seq(Good) /\ ms \in Seq(NoConnect)
  BY <1>2, <1>3, <1>4 DEF AppMessages
<1>6. PrepareIccpMsg(n, s, i) \in Seq(Good)
  BY <1>2, <1>3, <1>4 DEF PrepareIccpMsg, State
<1>7. s # "CAPREC" => PrepareIccpMsg(n, s, i) \in Seq(NoConnect)
  BY <1>2, <1>3, <1>4 DEF PrepareIccpMsg, State
<1> QED
  BY <1>5, <1>6, <1>7, SMT

\* A drop keeps it: n has no socket afterwards, and its peer is alone on the
\* connection.
LEMMA HandshakeDrop ==
  ASSUME HandshakeInv, SessionInv', NEW n \in Node, NEW C, CloseEnds(n, C),
         StatusReset(n), sock' = [sock EXCEPT ![n] = None]
  PROVE  HandshakeInv'
<1> DEFINE p == Peer(n)
<1>0. /\ TypeOK /\ SessionInv /\ p \in Node /\ p # n /\ Node = {n, p}
      /\ Peer(p) = n
  BY PeerFacts DEF SessionInv, HandshakeInv
<1>1. /\ sock'[n] = None /\ sock'[p] = sock[p] /\ state'[p] = state[p]
      /\ state'[n] = "NONEXISTENT"
      /\ info'[n] = InfoReset /\ info'[p] = info[p]
      /\ msg_list'[n] = << >> /\ msg_list'[p] = msg_list[p]
  BY <1>0, DropFacts
<1>2. \A c \in Conn : /\ wire'[c][p] = wire[c][p]
                      /\ wire'[c][n] = IF c \in C THEN << >> ELSE wire[c][n]
                      /\ open'[c] = IF c \in C THEN open[c] \ {n} ELSE open[c]
  BY <1>0, DropFacts
<1>3. << >> \in Seq(Good) /\ << >> \in Seq(NoConnect)
  BY SMT
<1> HIDE DEF p
<1>4. Healthy(n)' /\ Healthy(p)'
  <2>1. Healthy(n) /\ Healthy(p)
    BY <1>0 DEF HandshakeInv
  <2> QED
    <3>1. Healthy(p)'
      BY <1>1, <1>2, <2>1 DEF Healthy
    <3>2. \A c \in Conn : wire'[c][n] \in Seq(Good)
      <4>1. \A c \in Conn : wire[c][n] \in Seq(Good)
        BY <2>1 DEF Healthy
      <4>2. \A c \in Conn : wire'[c][n] \in {wire[c][n], << >>}
        BY <1>2
      <4> QED
        BY <1>3, <4>1, <4>2
    <3>3. info'[n].status = "OK"
      <4>1. InfoReset.status = "OK"
        BY DEF InfoReset
      <4> QED
        BY <1>1, <4>1
    <3> QED
      BY <1>1, <1>3, <3>1, <3>2, <3>3 DEF Healthy
<1>5. Unconnected(n)' /\ Unconnected(p)'
  <2>1. Unconnected(p) /\ (sock[p] # None => sock[p] \in Conn)
    BY <1>0 DEF HandshakeInv, TypeOK
  <2> QED
    BY <1>0, <1>1, <1>2, <1>3, <2>1, ZenonT(30) DEF Unconnected
<1> QED
  BY <1>0, <1>4, <1>5 DEF HandshakeInv

\* A connection that is accepted carries nothing to the active peer yet.
LEMMA HandshakeAccept ==
  ASSUME HandshakeInv, SessionInv', Accept
  PROVE  HandshakeInv'
<1> DEFINE c == Head(backlog)
<1>0. /\ TypeOK /\ SessionInv /\ Active \in Node /\ Standby \in Node
      /\ Active # Standby /\ Peer(Active) = Standby /\ Peer(Standby) = Active
  BY NodeAssumption DEF SessionInv, HandshakeInv, Node, Peer
<1>1. /\ UNCHANGED <<info, msg_list>> /\ c \in Conn /\ backlog # << >>
      /\ sock'[Active] = sock[Active] /\ state'[Active] = state[Active]
  BY <1>0, SMT DEF Accept, TypeOK
<1>2. << >> \in Seq(Good) /\ << >> \in Seq(NoConnect)
  BY SMT
<1>3. /\ Healthy(Active) /\ Healthy(Standby)
      /\ Unconnected(Active) /\ Unconnected(Standby)
      /\ \A n \in Node : sock[n] # None => sock[n] \in Conn
  BY <1>0 DEF HandshakeInv, TypeOK
<1>4. CASE sock[Standby] # None \/ ~config[Standby]
  <2>1. UNCHANGED <<sock, state>> /\ CloseEnds(Standby, {c})
    BY <1>4 DEF Accept, RejectClient
  <2>2. \A d \in Conn : wire[d] \in [Node -> Seq(Msg)]
    BY <1>0 DEF TypeOK
  <2>3. \A d \in Conn :
          /\ wire'[d][Active] = wire[d][Active]
          /\ wire'[d][Standby] = IF d = c THEN << >> ELSE wire[d][Standby]
    BY <1>0, <2>1, <2>2 DEF CloseEnds
  <2>4. Healthy(Active)' /\ Healthy(Standby)'
    BY <1>1, <1>2, <1>3, <2>1, <2>3 DEF Healthy
  <2>5. Unconnected(Active)' /\ Unconnected(Standby)'
    BY <1>0, <1>1, <1>2, <1>3, <2>1, <2>3 DEF Unconnected
  <2> QED
    BY <2>4, <2>5 DEF HandshakeInv, Node
<1>5. CASE ~(sock[Standby] # None \/ ~config[Standby])
  <2>1. /\ UNCHANGED wire /\ sock'[Standby] = c
        /\ state'[Standby] = "NONEXISTENT"
    BY <1>0, <1>5 DEF Accept, TypeOK
  <2>2. Healthy(Active)' /\ Healthy(Standby)'
    BY <1>1, <1>3, <2>1 DEF Healthy
  <2>3. msg_list[Standby] = << >> /\ ~info[Standby].peer_rg_connect
    <3>1. Idle(Standby) /\ state[Standby] = "NONEXISTENT"
      BY <1>0, <1>5 DEF SessionInv, Backed
    <3> QED
      BY <3>1, SMT DEF Idle, InfoReset
  <2>4. Unconnected(Active)'
    BY <1>0, <1>1, <1>2, <1>3, <2>1, <2>3 DEF Unconnected
  <2>5. sock[Active] # None => Unanswered
    BY <1>0, <1>1 DEF SessionInv, OneConnection
  <2>6. wire[c][Active] = << >>
    BY <1>0, <1>1, <2>5, ConnAssumption, SMT
       DEF SessionInv, Queue, Ends, Unanswered
  <2>7. Unconnected(Standby)'
    BY <1>0, <1>1, <1>2, <2>1, <2>5, <2>6, ConnAssumption
       DEF Unconnected, Unanswered
  <2> QED
    BY <2>2, <2>4, <2>7 DEF HandshakeInv, Node
<1> QED
  BY <1>4, <1>5

\* A message that is read was not a connect message if its sender has sent none.
LEMMA HandshakeRead ==
  ASSUME HandshakeInv, SessionInv', NEW n \in Node, ReadMsg(n)
  PROVE  HandshakeInv'
<1> DEFINE p == Peer(n)
           c == sock[n]
           m == Head(wire[c][n])
<1>0. /\ TypeOK /\ p \in Node /\ p # n /\ Node = {n, p} /\ Peer(p) = n
  BY PeerFacts DEF SessionInv, HandshakeInv
<1>1. /\ c \in Conn /\ c # None /\ wire[c][n] # << >>
      /\ UNCHANGED <<state, info, sock>>
  BY <1>0 DEF ReadMsg, TypeOK
<1>2. /\ \A d \in Conn : /\ wire'[d][p] = wire[d][p]
                         /\ d # c => wire'[d][n] = wire[d][n]
      /\ wire'[c][n] = Tail(wire[c][n])
  BY <1>0, <1>1 DEF ReadMsg, TypeOK
<1>3. /\ msg_list'[p] = msg_list[p]
      /\ msg_list'[n] \in {msg_list[n], Append(msg_list[n], m)}
  BY <1>0 DEF ReadMsg, TypeOK
<1>4. /\ Healthy(n) /\ Healthy(p) /\ Unconnected(n) /\ Unconnected(p)
      /\ \A q \in Node : sock[q] # None => sock[q] \in Conn
  BY <1>0 DEF HandshakeInv, TypeOK
<1> HIDE DEF p, c
<1>5. Healthy(n)' /\ Healthy(p)'
  <2>1. m \in Good /\ Tail(wire[c][n]) \in Seq(Good)
    <3>1. wire[c][n] \in Seq(Good)
      BY <1>1, <1>4 DEF Healthy
    <3> QED
      BY <1>1, <3>1, SMT
  <2>2. msg_list'[n] \in Seq(Good)
    <3>1. msg_list[n] \in Seq(Good)
      BY <1>4 DEF Healthy
    <3>2. Append(msg_list[n], m) \in Seq(Good)
      BY <2>1, <3>1, SMT
    <3> QED
      BY <1>3, <3>1, <3>2
  <2>3. \A d \in Conn : wire'[d][n] \in Seq(Good) /\ wire'[d][p] \in Seq(Good)
    BY <1>2, <1>4, <2>1 DEF Healthy
  <2> QED
    BY <1>1, <1>3, <1>4, <2>2, <2>3 DEF Healthy
<1>6. Unconnected(n)'
  BY <1>0, <1>1, <1>2, <1>3, <1>4 DEF Unconnected, p
<1>7. Unconnected(p)'
  <2> SUFFICES ASSUME sock[p] # None, state[p] \notin Up
               PROVE  /\ wire'[sock[p]][n] \in Seq(NoConnect)
                      /\ sock[n] = sock[p] =>
                           /\ msg_list'[n] \in Seq(NoConnect)
                           /\ ~info[n].peer_rg_connect
    BY <1>0, <1>1 DEF Unconnected
  <2>1. /\ wire[sock[p]][n] \in Seq(NoConnect)
        /\ sock[n] = sock[p] => /\ msg_list[n] \in Seq(NoConnect)
                                /\ ~info[n].peer_rg_connect
    BY <1>0, <1>4 DEF Unconnected
  <2>2. CASE sock[n] # sock[p]
    BY <1>2, <1>4, <2>1, <2>2, <1>0 DEF c
  <2>3. CASE sock[n] = sock[p]
    <3>1. wire[c][n] \in Seq(NoConnect)
      BY <2>1, <2>3 DEF c
    <3>2. m \in NoConnect /\ Tail(wire[c][n]) \in Seq(NoConnect)
      BY <1>1, <3>1, SMT
    <3>3. wire'[sock[p]][n] \in Seq(NoConnect)
      BY <1>2, <2>3, <3>2 DEF c
    <3>4. Append(msg_list[n], m) \in Seq(NoConnect)
      BY <2>1, <2>3, <3>2, SMT
    <3> QED
      BY <1>3, <2>1, <2>3, <3>3, <3>4
  <2> QED
    BY <2>2, <2>3
<1> QED
  BY <1>0, <1>5, <1>6, <1>7 DEF HandshakeInv

\* A new connection and a new session carry nothing.
LEMMA HandshakeConnect ==
  ASSUME HandshakeInv, SessionInv', NEW c \in Conn, TransitConnect(Active, c)
  PROVE  HandshakeInv'
<1>0. /\ TypeOK /\ SessionInv /\ Active \in Node /\ Standby \in Node
      /\ Active # Standby /\ Peer(Active) = Standby /\ Peer(Standby) = Active
  BY NodeAssumption DEF SessionInv, HandshakeInv, Node, Peer
<1>1. /\ sock[Active] = None /\ open[c] = {} /\ UNCHANGED <<msg_list, wire>>
      /\ c # None
  BY ConnAssumption DEF TransitConnect, FreeConn
<1>2. /\ sock'[Active] = c /\ sock'[Standby] = sock[Standby]
      /\ state'[Active] = "INITIALIZED" /\ state'[Standby] = state[Standby]
      /\ info'[Standby] = info[Standby]
      /\ info'[Active] = [info[Active] EXCEPT !.sender_capability = TRUE]
  BY <1>0 DEF TransitConnect, TypeOK, EnterState
<1>3. info'[Active].status = info[Active].status
  <2>1. info[Active] \in Info
    BY <1>0 DEF TypeOK
  <2> QED
    BY <1>2, <2>1 DEF Info
<1>4. wire[c][Standby] = << >> /\ sock[Standby] # c
  BY <1>0, <1>1 DEF SessionInv, Ends
<1>5. Healthy(Active) /\ Healthy(Standby) /\ Unconnected(Standby)
  BY <1>0 DEF HandshakeInv
<1>6. Healthy(Active)' /\ Healthy(Standby)'
  BY <1>1, <1>2, <1>3, <1>5 DEF Healthy
<1>7. << >> \in Seq(NoConnect)
  BY SMT
<1>8. Unconnected(Active)' /\ Unconnected(Standby)'
  BY <1>0, <1>1, <1>2, <1>4, <1>5, <1>7 DEF Unconnected
<1> QED
  BY <1>6, <1>8 DEF HandshakeInv, Node

\* The first pass of an accepted connection changes no flag of the handshake
\* that the invariant is about.
LEMMA HandshakeAccepted ==
  ASSUME HandshakeInv, SessionInv', NEW n \in Node, TransitAccepted(n)
  PROVE  HandshakeInv'
<1> DEFINE p == Peer(n)
<1>0. /\ TypeOK /\ SessionInv /\ p \in Node /\ p # n /\ Node = {n, p}
      /\ Peer(p) = n
  BY PeerFacts DEF SessionInv, HandshakeInv
<1>1. /\ state[n] = "NONEXISTENT" /\ config[n] /\ msg_list[n] = << >>
      /\ UNCHANGED <<sock, wire>> /\ sock[n] # None
  BY <1>0 DEF TransitAccepted, SessionInv, Idle, netVars
<1>2. /\ state'[n] = "INITIALIZED" /\ state'[p] = state[p]
      /\ info'[p] = info[p] /\ msg_list'[p] = msg_list[p]
      /\ msg_list'[n] = msg_list[n]
      /\ info'[n] = [info[n] EXCEPT !.sender_capability = TRUE]
  BY <1>0, <1>1 DEF TransitAccepted, TypeOK, EnterState
<1>3. /\ info'[n].status = info[n].status
      /\ info'[n].peer_rg_connect = info[n].peer_rg_connect
  <2>1. info[n] \in Info
    BY <1>0 DEF TypeOK
  <2> QED
    BY <1>2, <2>1 DEF Info
<1> HIDE DEF p
<1>4. Healthy(n) /\ Healthy(p) /\ Unconnected(n) /\ Unconnected(p)
  BY <1>0 DEF HandshakeInv
<1>5. Healthy(n)' /\ Healthy(p)'
  BY <1>1, <1>2, <1>3, <1>4 DEF Healthy
<1>6. Unconnected(n)'
  BY <1>0, <1>1, <1>2, <1>4 DEF Unconnected, Up, p
<1>7. Unconnected(p)'
  BY <1>0, <1>1, <1>2, <1>3, <1>4 DEF Unconnected
<1> QED
  BY <1>0, <1>5, <1>6, <1>7 DEF HandshakeInv

\* A pass sends a connect message only when it leaves CAPREC for a state of Up,
\* and Up is left only with the session.
LEMMA HandshakeTransit ==
  ASSUME RgId[Active] = RgId[Standby], HandshakeInv, SessionInv', NEW n \in Node,
         TransitSession(n)
  PROVE  HandshakeInv'
<1> DEFINE p == Peer(n)
           got == msg_list[n] # << >>
           m == Head(msg_list[n])
           i1 == IF got THEN CorrespondFromMsg(n, info[n], m) ELSE info[n]
           s == NextState(state[n], i1)
           i2 == IF got \/ s # state[n] THEN EnterState(s, i1) ELSE i1
           operational == app[n] = "OPERATIONAL" \/ s = "OPERATIONAL"
           iccp == PrepareIccpMsg(n, state[n], i1)
<1>0. /\ TypeOK /\ p \in Node /\ p # n /\ Node = {n, p} /\ Peer(p) = n
  BY PeerFacts DEF SessionInv, HandshakeInv
<1>1. /\ Healthy(n) /\ Healthy(p) /\ Unconnected(n) /\ Unconnected(p)
      /\ info[n] \in Info /\ state[n] \in State
      /\ \A q \in Node : sock[q] # None => sock[q] \in Conn
  BY <1>0 DEF HandshakeInv, TypeOK
<1>2. got => m \in Good /\ Tail(msg_list[n]) \in Seq(Good)
  <2> DEFINE q == msg_list[n]
  <2>1. q \in Seq(Good)
    BY <1>1 DEF Healthy
  <2> HIDE DEF q
  <2>2. q # << >> => Head(q) \in Good /\ Tail(q) \in Seq(Good)
    BY <2>1, SMT
  <2> QED
    BY <2>2 DEF q
<1>3. /\ i1 \in Info /\ i1.status = "OK"
      /\ info[n].sender_rg_connect => i1.sender_rg_connect
      /\ info[n].peer_rg_connect => i1.peer_rg_connect
      /\ got /\ m.type # "RG_CONNECT" =>
           i1.peer_rg_connect = info[n].peer_rg_connect
  <2>1. CASE got
    <3>1. m \in Good /\ info[n].status = "OK"
      BY <1>1, <1>2, <2>1 DEF Healthy
    <3> HIDE DEF m, got
    <3> QED
      BY <1>1, <2>1, <3>1, GoodMessage
  <2>2. CASE ~got
    BY <1>1, <2>2 DEF Healthy
  <2> QED
    BY <2>1, <2>2
<1>4. state[n] = "OPERATIONAL" => i1.sender_rg_connect /\ i1.peer_rg_connect
  BY <1>1, <1>3 DEF Healthy
<1>5. PICK ms \in AppMessages(n, i2, operational) :
        WireSend(n, IF i1.status # "OK" /\ ~Room(n) THEN ms ELSE iccp \o ms)
  BY DEF TransitSession
<1>6. /\ state' = [state EXCEPT ![n] = s]
      /\ info' = [info EXCEPT ![n] = i2]
      /\ msg_list' = [msg_list EXCEPT ![n] = IF got THEN Tail(@) ELSE @]
      /\ UNCHANGED sock /\ sock[n] # None
  BY DEF TransitSession
<1> HIDE DEF p, i1, got, m
<1>7. /\ s \in State /\ i2 \in Info /\ i2.status = "OK"
      /\ state[n] \in Up \cup {"CAPREC"} => s \in Up
      /\ s = "OPERATIONAL" => /\ i1.peer_rg_connect
                              /\ i2.sender_rg_connect /\ i2.peer_rg_connect
      /\ s # "OPERATIONAL" => i2.peer_rg_connect = i1.peer_rg_connect
  BY <1>1, <1>3, <1>4, GoodTransit
<1> HIDE DEF s, i2, operational
<1>8. /\ iccp \o ms \in Seq(Good)
      /\ state[n] # "CAPREC" => iccp \o ms \in Seq(NoConnect)
  BY <1>1, <1>3, <1>5, <1>7, GoodSent
<1>9. \A c \in Conn :
        /\ wire'[c][n] = wire[c][n]
        /\ wire'[c][p] \in {wire[c][p], wire[c][p] \o (iccp \o ms)}
  <2>1. \A c \in Conn : wire[c] \in [Node -> Seq(Msg)]
    BY <1>0 DEF TypeOK
  <2>2. WireSend(n, iccp \o ms)
    BY <1>3, <1>5
  <2> HIDE DEF iccp
  <2> QED
    BY <1>0, <2>1, <2>2 DEF WireSend, p
<1> HIDE DEF iccp
<1>10. /\ state'[n] = s /\ info'[n] = i2
       /\ msg_list'[n] = IF got THEN Tail(msg_list[n]) ELSE msg_list[n]
       /\ state'[p] = state[p] /\ info'[p] = info[p]
       /\ msg_list'[p] = msg_list[p]
  BY <1>0, <1>6 DEF TypeOK
<1>11. Healthy(n)'
  <2>1. msg_list'[n] \in Seq(Good)
    BY <1>1, <1>2, <1>10 DEF Healthy
  <2> QED
    BY <1>1, <1>7, <1>9, <1>10, <2>1 DEF Healthy
<1>12. Healthy(p)'
  <2>1. \A c \in Conn : wire[c][p] \in Seq(Good)
    BY <1>1 DEF Healthy
  <2>2. \A c \in Conn : wire[c][p] \o (iccp \o ms) \in Seq(Good)
    BY <1>8, <2>1, Concatenation
  <2>3. \A c \in Conn : wire'[c][p] \in Seq(Good)
    BY <1>9, <2>1, <2>2
  <2> QED
    BY <1>1, <1>10, <2>3 DEF Healthy
<1>13. Unconnected(n)'
  <2> SUFFICES ASSUME s \notin Up
               PROVE  /\ wire'[sock[n]][p] \in Seq(NoConnect)
                      /\ sock[p] = sock[n] => /\ msg_list[p] \in Seq(NoConnect)
                                              /\ ~info[p].peer_rg_connect
    BY <1>6, <1>10 DEF Unconnected, p
  <2>1. state[n] \notin Up /\ state[n] # "CAPREC"
    BY <1>7
  <2>2. /\ wire[sock[n]][p] \in Seq(NoConnect)
        /\ sock[p] = sock[n] => /\ msg_list[p] \in Seq(NoConnect)
                                /\ ~info[p].peer_rg_connect
    BY <1>1, <1>6, <2>1 DEF Unconnected, p
  <2>3. wire[sock[n]][p] \o (iccp \o ms) \in Seq(NoConnect)
    <3>1. iccp \o ms \in Seq(NoConnect)
      BY <1>8, <2>1
    <3> QED
      BY <2>2, <3>1, Concatenation
  <2> QED
    BY <1>1, <1>6, <1>9, <2>2, <2>3
<1>14. Unconnected(p)'
  <2> SUFFICES ASSUME sock[p] # None, state[p] \notin Up
               PROVE  /\ wire'[sock[p]][n] \in Seq(NoConnect)
                      /\ sock[n] = sock[p] => /\ msg_list'[n] \in Seq(NoConnect)
                                              /\ ~i2.peer_rg_connect
    BY <1>0, <1>6, <1>10 DEF Unconnected
  <2>1. /\ wire[sock[p]][n] \in Seq(NoConnect)
        /\ sock[n] = sock[p] => /\ msg_list[n] \in Seq(NoConnect)
                                /\ ~info[n].peer_rg_connect
    BY <1>0, <1>1 DEF Unconnected
  <2>2. wire'[sock[p]][n] \in Seq(NoConnect)
    BY <1>0, <1>1, <1>9, <2>1
  <2>3. ASSUME sock[n] = sock[p]
        PROVE  msg_list'[n] \in Seq(NoConnect) /\ ~i2.peer_rg_connect
    <3>1. msg_list[n] \in Seq(NoConnect) /\ ~info[n].peer_rg_connect
      BY <2>1, <2>3
    <3>2. got => m \in NoConnect /\ Tail(msg_list[n]) \in Seq(NoConnect)
      BY <3>1, SMT DEF got, m
    <3>3. ~i1.peer_rg_connect
      BY <1>3, <3>1, <3>2 DEF NoConnect, i1
    <3>4. ~i2.peer_rg_connect
      BY <1>7, <3>3
    <3> QED
      BY <1>10, <3>1, <3>2, <3>4
  <2> QED
    BY <2>2, <2>3
<1> QED
  BY <1>0, <1>11, <1>12, <1>13, <1>14 DEF HandshakeInv

\* Every step keeps the invariant of the handshake.
LEMMA HandshakeStep ==
  ASSUME RgId[Active] = RgId[Standby], HandshakeInv, [Next]_vars
  PROVE  HandshakeInv'
<1>0. SessionInv'
  BY SessionStep DEF HandshakeInv
<1>1. CASE UNCHANGED vars
  BY <1>0, <1>1 DEF vars, HandshakeInv, Healthy, Unconnected
<1>2. ASSUME NEW n \in Node, ReadError(n) \/ ConfigChange(n)
                               \/ HeartbeatTimeout(n) \/ Restart(n)
      PROVE  HandshakeInv'
  <2>1. StatusReset(n) /\ sock' = [sock EXCEPT ![n] = None]
    BY <1>2
       DEF ReadError, ConfigChange, HeartbeatTimeout, Restart,
           SessionDisconnect
  <2>2. PICK C : CloseEnds(n, C)
    BY <1>2
       DEF ReadError, ConfigChange, HeartbeatTimeout, Restart,
           SessionDisconnect
  <2> QED
    BY <1>0, <2>1, <2>2, HandshakeDrop
<1>3. ASSUME NEW n \in Node, ConfigComplete(n) \/ TransitIdle(n)
      PROVE  HandshakeInv'
  <2>1. UNCHANGED <<state, info, msg_list, sock, wire>>
    BY <1>3 DEF ConfigComplete, TransitIdle, csmVars, netVars
  <2> QED
    BY <1>0, <2>1 DEF HandshakeInv, Healthy, Unconnected
<1>4. ASSUME NEW n \in Node, NEW c \in Conn, TransitConnect(n, c)
      PROVE  HandshakeInv'
  <2>1. TransitConnect(Active, c)
    BY <1>4 DEF TransitConnect
  <2> QED
    BY <1>0, <2>1, HandshakeConnect
<1> QED
  BY <1>0, <1>1, <1>2, <1>3, <1>4, HandshakeAccept, HandshakeRead,
     HandshakeAccepted, HandshakeTransit
     DEF Next, Read, Transit

\* A peer is OPERATIONAL only while the other end of its connection has sent its
\* connect message and not fallen back, and two peers that are OPERATIONAL are
\* on one connection, for any number of connections and faults.
THEOREM HandshakeAgreementAlways == Spec => []HandshakeAgreement
<1> DEFINE First == \A n \in Node :
             (state[n] = "OPERATIONAL" /\ sock[Peer(n)] = sock[n])
               => state[Peer(n)] \in {"CONNECTING", "OPERATIONAL"}
           Second == (\A n \in Node : state[n] = "OPERATIONAL")
                       => sock[Active] = sock[Standby]
<1>1. SessionInv => Second
  <2> SUFFICES ASSUME SessionInv, \A n \in Node : state[n] = "OPERATIONAL"
               PROVE  sock[Active] = sock[Standby]
    OBVIOUS
  <2>1. Active \in Node /\ Standby \in Node
    BY DEF Node
  <2>2. sock[Active] # None /\ sock[Standby] # None
    BY <2>1 DEF SessionInv, Backed
  <2>3. ~Unanswered
    BY <2>1 DEF Unanswered
  <2> QED
    BY <2>2, <2>3 DEF SessionInv, OneConnection
<1>2. Spec => []First
  <2>1. CASE RgId[Active] = RgId[Standby]
    <3>1. Init => HandshakeInv
      <4> SUFFICES ASSUME Init PROVE HandshakeInv
        OBVIOUS
      <4>1. TypeOK
        BY BoundAssumption, InfoResetType, SMT DEF Init, TypeOK, State
      <4>2. SessionInv
        BY <4>1, SMT
           DEF Init, SessionInv, Idle, Backed, Ends, Queue, OneConnection,
               Node
      <4>3. << >> \in Seq(Good)
        BY SMT
      <4> QED
        BY <4>2, <4>3 DEF Init, HandshakeInv, Healthy, Unconnected, InfoReset
    <3>2. HandshakeInv /\ [Next]_vars => HandshakeInv'
      BY <2>1, HandshakeStep
    <3>3. HandshakeInv => First
      <4> SUFFICES ASSUME HandshakeInv, NEW n \in Node, state[n] = "OPERATIONAL",
                          sock[Peer(n)] = sock[n], state[Peer(n)] \notin Up
                   PROVE  FALSE
        BY DEF Up
      <4>1. Peer(n) \in Node /\ Peer(Peer(n)) = n
        BY PeerFacts
      <4>2. sock[n] # None
        BY DEF HandshakeInv, SessionInv, Backed
      <4>3. Healthy(n) /\ Unconnected(Peer(n))
        BY <4>1 DEF HandshakeInv
      <4> QED
        BY <4>1, <4>2, <4>3 DEF Healthy, Unconnected
    <3> QED
      BY <3>1, <3>2, <3>3, PTL DEF Spec
  <2>2. CASE RgId[Active] # RgId[Standby]
    <3>1. MismatchNeverOperational => First
      BY <2>2 DEF MismatchNeverOperational
    <3> QED
      BY <3>1, MismatchSafe, PTL
  <2> QED
    BY <2>1, <2>2
<1>3. First /\ Second => HandshakeAgreement
  BY DEF HandshakeAgreement
<1> QED
  BY <1>1, <1>2, <1>3, SessionAlways, PTL

-----------------------------------------------------------------------------
(* The socket, the state machines and the order of the handshake.          *)

\* Capability messages say so (s_bit); messages that do, if they are one.
Caps == {m \in Msg : m.type = "CAPABILITY" /\ m.s_bit}
Bits == {m \in Msg : m.type = "CAPABILITY" => m.s_bit}

\* A sequence over a set is one over a larger set.
LEMMA SeqWider ==
  ASSUME NEW S, NEW T, S \subseteq T, NEW q \in Seq(S)
  PROVE  q \in Seq(T)
  BY SMT

\* The parts of a sequence over a set.
LEMMA SeqParts ==
  ASSUME NEW S, NEW q \in Seq(S), q # << >>
  PROVE  /\ Head(q) \in S /\ Tail(q) \in Seq(S) /\ 1 \in 1..Len(q)
         /\ Len(q) <= 1 => Tail(q) = << >>
  BY SMT

\* Every message of either kind is a message.
LEMMA BitsAreMessages == Caps \subseteq Bits /\ Bits \subseteq Msg
  BY DEF Caps, Bits

HasConnect(q) == \E i \in DOMAIN q : q[i].type = "RG_CONNECT"

\* Application data in q comes after a connect message in q.
ConnectFirst(q) ==
  \A j \in DOMAIN q : q[j].type = "RG_APP_DATA" =>
    \E i \in DOMAIN q : i < j /\ q[i].type = "RG_CONNECT"

\* The capability, the connect message has been read, if not yet processed.
SeenCap(n) == info[n].peer_capability \/ msg_list[n] # << >>
SeenConnect(n) ==
  info[n].peer_rg_connect
    \/ (msg_list[n] # << >> /\ Head(msg_list[n]).type = "RG_CONNECT")

\* The state machines above the connection end with it, and mLACP has messages
\* only in OPERATIONAL.
Layers(n) ==
  /\ app[n] = "OPERATIONAL" => state[n] = "OPERATIONAL"
  /\ mlacp[n] => app[n] = "OPERATIONAL"
  /\ mlacp_list[n] # << >> => state[n] = "OPERATIONAL"

\* One message is read between two passes, and a pass takes one.
Pace(n) ==
  /\ polled[n] \/ msg_list[n] = << >>
  /\ Len(msg_list[n]) <= 1

\* The state of a session says which messages have been processed.
Flags(n) ==
  state[n] # "NONEXISTENT" =>
    /\ info[n].sender_capability
    /\ state[n] \in {"INITIALIZED", "CAPSENT"} <=> ~info[n].peer_capability
    /\ state[n] = "OPERATIONAL" <=> info[n].peer_rg_connect

\* What n receives: the capability message first, application data last.  Before
\* a connection is accepted it has carried capability messages only.
InOrder(n) ==
  /\ msg_list[n] \in Seq(Bits)
  /\ \A c \in Conn : wire[c][n] \in Seq(Bits)
  /\ \A c \in Conn : c # sock[n] => wire[c][n] \in Seq(Caps)
  /\ msg_list[n] # << >> /\ ~info[n].peer_capability =>
       Head(msg_list[n]) \in Caps
  /\ sock[n] # None /\ ~SeenCap(n) /\ wire[sock[n]][n] # << >> =>
       Head(wire[sock[n]][n]) \in Caps
  /\ sock[n] # None /\ ~SeenConnect(n) => ConnectFirst(wire[sock[n]][n])

\* What n has sent on its connection has not been lost.
Sent(n) ==
  sock[n] # None =>
    /\ state[n] \notin {"NONEXISTENT", "INITIALIZED"} /\ Peer(n) \in open[sock[n]]
         => \/ wire[sock[n]][Peer(n)] # << >>
            \/ sock[Peer(n)] = sock[n] /\ SeenCap(Peer(n))
    /\ state[n] \in Up /\ sock[Peer(n)] = sock[n] =>
         HasConnect(wire[sock[n]][Peer(n)]) \/ SeenConnect(Peer(n))

\* The standby peer's end of a connection is its socket or waits for accept().
Held ==
  \A c \in Conn : Standby \in open[c] =>
    sock[Standby] = c \/ \E i \in 1..Len(backlog) : backlog[i] = c

OrderInv ==
  /\ HandshakeInv
  /\ Held
  /\ \A n \in Node : Layers(n) /\ Pace(n) /\ Flags(n) /\ InOrder(n) /\ Sent(n)

\* A peer that a step leaves alone, with what is in flight to it, keeps its part
\* of the invariant.
LEMMA OrderFrame ==
  ASSUME NEW n \in Node, Layers(n), Pace(n), Flags(n), InOrder(n),
         sock[n] \in Conn \cup {None}, sock'[n] = sock[n],
         state'[n] = state[n], app'[n] = app[n], info'[n] = info[n],
         msg_list'[n] = msg_list[n], polled'[n] = polled[n],
         mlacp'[n] = mlacp[n], mlacp_list'[n] = mlacp_list[n],
         \A c \in Conn : wire'[c][n] = wire[c][n]
  PROVE  Layers(n)' /\ Pace(n)' /\ Flags(n)' /\ InOrder(n)'
<1>1. Layers(n)' /\ Pace(n)' /\ Flags(n)'
  BY DEF Layers, Pace, Flags
<1>2. SeenCap(n)' = SeenCap(n) /\ SeenConnect(n)' = SeenConnect(n)
  BY DEF SeenCap, SeenConnect
<1>3. InOrder(n)'
  <2>1. sock[n] # None => wire'[sock[n]][n] = wire[sock[n]][n]
    OBVIOUS
  <2> QED
    BY <1>2, <2>1 DEF InOrder
<1> QED
  BY <1>1, <1>3

\* A drop keeps the order: the peer is alone on the connection, and what it has
\* sent goes to a closed end.
LEMMA OrderDrop ==
  ASSUME OrderInv, HandshakeInv', NEW n \in Node, NEW C, CloseEnds(n, C),
         StatusReset(n), sock' = [sock EXCEPT ![n] = None], sock[n] \in C,
         polled'[Peer(n)] = polled[Peer(n)],
         \/ backlog' = backlog
         \/ n = Standby /\ \A i \in 1..Len(backlog) : backlog[i] \in C
  PROVE  OrderInv'
<1> DEFINE p == Peer(n)
<1>0. /\ TypeOK /\ p \in Node /\ p # n /\ Node = {n, p} /\ Peer(p) = n
  BY PeerFacts DEF OrderInv, HandshakeInv, SessionInv
<1>1. /\ sock'[n] = None /\ sock'[p] = sock[p]
      /\ state'[n] = "NONEXISTENT" /\ state'[p] = state[p]
      /\ app'[n] = "NONEXISTENT" /\ app'[p] = app[p]
      /\ info'[p] = info[p] /\ msg_list'[n] = << >> /\ msg_list'[p] = msg_list[p]
  BY <1>0, DropFacts
<1>2. \A c \in Conn : /\ wire'[c][p] = wire[c][p]
                      /\ wire'[c][n] = IF c \in C THEN << >> ELSE wire[c][n]
                      /\ open'[c] = IF c \in C THEN open[c] \ {n} ELSE open[c]
  BY <1>0, DropFacts
<1>3. /\ mlacp'[n] = FALSE /\ mlacp'[p] = mlacp[p]
      /\ mlacp_list'[n] = << >> /\ mlacp_list'[p] = mlacp_list[p]
  BY <1>0 DEF StatusReset, TypeOK
<1>4. /\ Layers(p) /\ Pace(p) /\ Flags(p) /\ InOrder(p) /\ Sent(p) /\ InOrder(n)
      /\ sock[p] \in Conn \cup {None} /\ sock[n] \in Conn \cup {None}
      /\ polled'[p] = polled[p]
  BY <1>0 DEF OrderInv, TypeOK
<1> HIDE DEF p
<1>5. Layers(p)' /\ Pace(p)' /\ Flags(p)' /\ InOrder(p)'
  BY <1>0, <1>1, <1>2, <1>3, <1>4, OrderFrame
<1>6. Layers(n)' /\ Pace(n)' /\ Flags(n)' /\ InOrder(n)' /\ Sent(n)'
  <2>1. \A c \in Conn : wire'[c][n] \in Seq(Caps)
    <3>1. << >> \in Seq(Caps)
      BY SMT
    <3>2. \A c \in Conn : c \notin C => wire[c][n] \in Seq(Caps)
      BY <1>4 DEF InOrder
    <3> QED
      BY <1>2, <3>1, <3>2
  <2>2. << >> \in Seq(Bits)
    BY SMT
  <2>3. \A c \in Conn : wire'[c][n] \in Seq(Bits)
    BY <2>1, BitsAreMessages, SeqWider
  <2> QED
    BY <1>1, <1>3, <2>1, <2>2, <2>3, SMT DEF Layers, Pace, Flags, InOrder, Sent
<1>7. Sent(p)'
  <2>1. (sock[p] # None /\ n \in open'[sock[p]]) => sock[p] \notin C
    BY <1>2, <1>4, ZenonT(30)
  <2>2. sock[p] # None => wire'[sock[p]][n] = IF sock[p] \in C THEN << >>
                                              ELSE wire[sock[p]][n]
    BY <1>2, <1>4
  <2>3. (sock[p] # None /\ n \in open'[sock[p]]) =>
          /\ n \in open[sock[p]] /\ sock[n] # sock[p]
          /\ wire'[sock[p]][n] = wire[sock[p]][n]
    BY <1>2, <1>4, <2>1, <2>2
  <2>4. ASSUME sock[p] # None, state[p] \notin {"NONEXISTENT", "INITIALIZED"},
               n \in open'[sock[p]]
        PROVE  wire'[sock[p]][n] # << >>
    BY <1>0, <1>4, <2>3, <2>4 DEF Sent
  <2> QED
    BY <1>0, <1>1, <2>4 DEF Sent
<1>8. Held'
  <2> SUFFICES ASSUME NEW c \in Conn, Standby \in open'[c]
               PROVE  sock'[Standby] = c \/ \E i \in 1..Len(backlog') : backlog'[i] = c
    BY DEF Held
  <2>1. open'[c] = IF c \in C THEN open[c] \ {n} ELSE open[c]
    BY <1>2
  <2>2. Standby \in open[c] /\ (n = Standby => c \notin C)
    BY <2>1
  <2>3. sock[Standby] = c \/ \E i \in 1..Len(backlog) : backlog[i] = c
    BY <2>2 DEF OrderInv, Held
  <2>4. Standby \in {n, p}
    BY <1>0 DEF Node
  <2> QED
    BY <1>1, <2>2, <2>3, <2>4
<1> QED
  BY <1>0, <1>5, <1>6, <1>7, <1>8 DEF OrderInv

\* accept() takes over a connection on which only the capability message can
\* have been sent; a rejected one is closed.
LEMMA OrderAccept ==
  ASSUME OrderInv, HandshakeInv', Accept
  PROVE  OrderInv'
<1> DEFINE c == Head(backlog)
<1>0. /\ TypeOK /\ SessionInv /\ Active \in Node /\ Standby \in Node
      /\ Active # Standby /\ Peer(Active) = Standby /\ Peer(Standby) = Active
  BY NodeAssumption DEF OrderInv, HandshakeInv, SessionInv, Node, Peer
<1>1. /\ UNCHANGED <<app, info, msg_list, mlacp, mlacp_list>>
      /\ c \in Conn /\ backlog # << >> /\ backlog' = Tail(backlog)
      /\ c = backlog[1] /\ backlog \in Seq(Conn)
      /\ sock'[Active] = sock[Active] /\ state'[Active] = state[Active]
      /\ polled'[Active] = polled[Active]
  BY <1>0, SMT DEF Accept, TypeOK
<1>2. \A n \in Node : /\ Layers(n) /\ Pace(n) /\ Flags(n) /\ InOrder(n) /\ Sent(n)
                      /\ sock[n] \in Conn \cup {None}
  BY <1>0 DEF OrderInv, TypeOK
<1>3. \A d \in Conn : (\E i \in 1..Len(backlog) : backlog[i] = d) =>
        d = c \/ \E i \in 1..Len(backlog') : backlog'[i] = d
  <2> SUFFICES ASSUME NEW i \in 1..Len(backlog), backlog[i] # c
               PROVE  i - 1 \in 1..Len(backlog') /\ backlog'[i - 1] = backlog[i]
    OBVIOUS
  <2>1. i # 1
    BY <1>1
  <2> QED
    BY <1>1, <2>1, SMT
<1>4. sock[Active] # None => Unanswered
  BY <1>0, <1>1 DEF SessionInv, OneConnection
<1>5. sock[Active] # None => state[Active] \notin Up
  BY <1>4 DEF Unanswered, Up
<1> HIDE DEF c
<1>6. CASE sock[Standby] # None \/ ~config[Standby]
  <2>1. UNCHANGED <<sock, state, polled>> /\ CloseEnds(Standby, {c})
    BY <1>6 DEF Accept, RejectClient, c
  <2>2. \A d \in Conn : wire[d] \in [Node -> Seq(Msg)]
    BY <1>0 DEF TypeOK
  <2>3. \A d \in Conn :
          /\ wire'[d][Active] = wire[d][Active]
          /\ wire'[d][Standby] = IF d = c THEN << >> ELSE wire[d][Standby]
          /\ open'[d] = IF d = c THEN open[d] \ {Standby} ELSE open[d]
    BY <1>0, <2>1, <2>2 DEF CloseEnds
  <2>4. Layers(Active)' /\ Pace(Active)' /\ Flags(Active)' /\ InOrder(Active)'
    BY <1>0, <1>1, <1>2, <2>1, <2>3, OrderFrame
  <2>5. Layers(Standby)' /\ Pace(Standby)' /\ Flags(Standby)'
    BY <1>0, <1>1, <1>2, <2>1 DEF Layers, Pace, Flags
  <2>6. c # sock[Standby]
    <3>1. backlog \in Seq(Conn) /\ backlog # << >> /\ c = backlog[1]
      BY <1>0, <1>1 DEF TypeOK
    <3>2. 1 \in 1..Len(backlog)
      BY <3>1, SeqParts
    <3> QED
      BY <1>0, <3>1, <3>2 DEF SessionInv, Queue
  <2>7. InOrder(Standby)'
    <3>1. << >> \in Seq(Bits) /\ << >> \in Seq(Caps)
      BY SMT
    <3>2. /\ SeenCap(Standby)' = SeenCap(Standby)
          /\ SeenConnect(Standby)' = SeenConnect(Standby)
      BY <1>1 DEF SeenCap, SeenConnect
    <3>3. InOrder(Standby) /\ sock[Standby] \in Conn \cup {None}
      BY <1>0, <1>2
    <3>4. sock[Standby] # None =>
            wire'[sock[Standby]][Standby] = wire[sock[Standby]][Standby]
      BY <2>3, <2>6, <3>3
    <3> QED
      BY <1>1, <2>1, <2>3, <3>1, <3>2, <3>3, <3>4 DEF InOrder
  <2>8. Sent(Standby)'
    <3>1. sock[Standby] # None =>
            /\ wire'[sock[Standby]][Active] = wire[sock[Standby]][Active]
            /\ open'[sock[Standby]] = open[sock[Standby]]
      BY <1>0, <1>2, <2>3, <2>6
    <3>2. /\ SeenCap(Active)' = SeenCap(Active)
          /\ SeenConnect(Active)' = SeenConnect(Active)
      BY <1>1 DEF SeenCap, SeenConnect
    <3>3. Sent(Standby)
      BY <1>0, <1>2
    <3> QED
      BY <1>0, <2>1, <3>1, <3>2, <3>3 DEF Sent
  <2>9. Sent(Active)'
    <3>1. (sock[Active] # None /\ Standby \in open'[sock[Active]]) =>
            /\ wire'[sock[Active]][Standby] = wire[sock[Active]][Standby]
            /\ Standby \in open[sock[Active]]
      BY <1>0, <1>2, <2>3
    <3>2. SeenCap(Standby)' = SeenCap(Standby)
      BY <1>1 DEF SeenCap
    <3>3. Sent(Active)
      BY <1>0, <1>2
    <3> QED
      BY <1>0, <1>5, <2>1, <3>1, <3>2, <3>3 DEF Sent
  <2>10. Held'
    BY <1>3, <2>1, <2>3 DEF OrderInv, Held
  <2> QED
    BY <2>4, <2>5, <2>7, <2>8, <2>9, <2>10 DEF OrderInv, Node
<1>7. CASE ~(sock[Standby] # None \/ ~config[Standby])
  <2>1. /\ UNCHANGED <<wire, open>> /\ sock'[Standby] = c
        /\ state'[Standby] = "NONEXISTENT" /\ polled'[Standby] = TRUE
    BY <1>0, <1>7 DEF Accept, TypeOK, c
  <2>2. /\ app[Standby] = "NONEXISTENT" /\ msg_list[Standby] = << >>
        /\ state[Standby] = "NONEXISTENT"
    BY <1>0, <1>7 DEF SessionInv, Backed, Idle
  <2>3. Layers(Active)' /\ Pace(Active)' /\ Flags(Active)' /\ InOrder(Active)'
    BY <1>0, <1>1, <1>2, <2>1, OrderFrame
  <2>4. Layers(Standby)' /\ Pace(Standby)' /\ Flags(Standby)'
    BY <1>0, <1>1, <1>2, <2>1, <2>2 DEF Layers, Pace, Flags
  <2>5. InOrder(Standby)'
    <3>1. InOrder(Standby) /\ sock[Standby] = None /\ c # None
      BY <1>0, <1>1, <1>2, <1>7, ConnAssumption
    <3> DEFINE w == wire[c][Standby]
    <3>2. w \in Seq(Caps) /\ \A d \in Conn : wire[d][Standby] \in Seq(Caps)
      BY <1>1, <3>1, ConnAssumption DEF InOrder
    <3>3. /\ msg_list'[Standby] = << >> /\ << >> \in Seq(Bits)
          /\ \A d \in Conn : wire'[d][Standby] \in Seq(Bits)
      BY <1>1, <2>1, <2>2, <3>1 DEF InOrder
    <3>4. wire'[sock'[Standby]][Standby] = w
      BY <2>1
    <3> HIDE DEF w
    <3>5. w # << >> => Head(w) \in Caps
      BY <3>2, SMT
    <3>6. ConnectFirst(w)
      BY <3>2, SMT DEF ConnectFirst, Caps
    <3> QED
      BY <2>1, <3>2, <3>3, <3>4, <3>5, <3>6 DEF InOrder
  <2>6. Sent(Standby)'
    BY <2>1 DEF Sent, Up
  <2>7. Sent(Active)'
    <3>1. Sent(Active) /\ c # None
      BY <1>0, <1>1, <1>2, ConnAssumption
    <3> QED
      BY <1>0, <1>1, <1>5, <1>7, <2>1, <3>1 DEF Sent
  <2>8. Held'
    BY <1>3, <1>7, <2>1, ConnAssumption DEF OrderInv, Held
  <2> QED
    BY <2>3, <2>4, <2>5, <2>6, <2>7, <2>8 DEF OrderInv, Node
<1> QED
  BY <1>6, <1>7

\* The order of a sequence is the order of its tail, unless the head is the
\* connect message that is waited for.
LEMMA ConnectTail ==
  ASSUME NEW q \in Seq(Msg), q # << >>
  PROVE  /\ Head(q).type = "RG_APP_DATA" => ~ConnectFirst(q)
         /\ ConnectFirst(q) /\ Head(q).type # "RG_CONNECT" => ConnectFirst(Tail(q))
         /\ HasConnect(q) /\ Head(q).type # "RG_CONNECT" => HasConnect(Tail(q))
<1>1. /\ Head(q) = q[1] /\ 1 \in DOMAIN q /\ DOMAIN q = 1..Len(q)
      /\ DOMAIN Tail(q) = 1..(Len(q) - 1) /\ Len(q) \in Nat
      /\ \A i \in DOMAIN Tail(q) : Tail(q)[i] = q[i + 1] /\ i + 1 \in DOMAIN q
  BY SMT
<1>2. \A i \in DOMAIN q : i # 1 => i - 1 \in DOMAIN Tail(q) /\ Tail(q)[i - 1] = q[i]
  BY SMT
<1>3. Head(q).type = "RG_APP_DATA" => ~ConnectFirst(q)
  BY <1>1, SMT DEF ConnectFirst
<1>4. ASSUME HasConnect(q), Head(q).type # "RG_CONNECT"
      PROVE  HasConnect(Tail(q))
  <2>1. PICK i \in DOMAIN q : q[i].type = "RG_CONNECT"
    BY <1>4 DEF HasConnect
  <2>2. i # 1
    BY <1>1, <1>4, <2>1
  <2> QED
    BY <1>2, <2>1, <2>2 DEF HasConnect
<1>5. ASSUME ConnectFirst(q), Head(q).type # "RG_CONNECT",
             NEW j \in DOMAIN Tail(q), Tail(q)[j].type = "RG_APP_DATA"
      PROVE  \E i \in DOMAIN Tail(q) : i < j /\ Tail(q)[i].type = "RG_CONNECT"
  <2>1. q[j + 1].type = "RG_APP_DATA" /\ j + 1 \in DOMAIN q
    BY <1>1, <1>5
  <2>2. PICK i \in DOMAIN q : i < j + 1 /\ q[i].type = "RG_CONNECT"
    BY <1>5, <2>1 DEF ConnectFirst
  <2>3. i # 1
    BY <1>1, <1>5, <2>2
  <2>4. i - 1 \in DOMAIN Tail(q) /\ Tail(q)[i - 1].type = "RG_CONNECT"
    BY <1>2, <2>2, <2>3
  <2>5. i - 1 < j
    BY <1>1, <2>2, SMT
  <2> QED
    BY <2>4, <2>5
<1> QED
  BY <1>3, <1>4, <1>5 DEF ConnectFirst

\* A message is read when the one before has been processed: application data
\* finds the connect message processed, and the state machine OPERATIONAL.
LEMMA OrderRead ==
  ASSUME OrderInv, HandshakeInv', NEW n \in Node, ReadMsg(n)
  PROVE  OrderInv'
<1> DEFINE p == Peer(n)
           c == sock[n]
           q == wire[c][n]
           m == Head(q)
<1>0. /\ TypeOK /\ p \in Node /\ p # n /\ Node = {n, p} /\ Peer(p) = n
      /\ SessionInv
  BY PeerFacts DEF OrderInv, HandshakeInv, SessionInv
<1>1. /\ c \in Conn /\ c # None /\ q # << >> /\ ~polled[n] /\ q \in Seq(Msg)
      /\ UNCHANGED <<state, info, sock, app, mlacp, open, backlog>>
  BY <1>0, SMT DEF ReadMsg, TypeOK
<1>2. /\ \A d \in Conn : /\ wire'[d][p] = wire[d][p]
                         /\ d # c => wire'[d][n] = wire[d][n]
      /\ wire'[c][n] = Tail(q)
  BY <1>0, <1>1 DEF ReadMsg, TypeOK
<1>3. /\ msg_list'[p] = msg_list[p] /\ mlacp_list'[p] = mlacp_list[p]
      /\ polled'[p] = polled[p] /\ polled'[n] = TRUE
      /\ IF m.type = "RG_APP_DATA"
         THEN msg_list'[n] = msg_list[n]
         ELSE /\ msg_list'[n] = Append(msg_list[n], m)
              /\ mlacp_list'[n] = mlacp_list[n]
  BY <1>0 DEF ReadMsg, TypeOK
<1>4. \A k \in Node : /\ Layers(k) /\ Pace(k) /\ Flags(k) /\ InOrder(k) /\ Sent(k)
                      /\ sock[k] \in Conn \cup {None}
  BY <1>0 DEF OrderInv, TypeOK
<1>5. msg_list[n] = << >> /\ state[n] # "NONEXISTENT"
  BY <1>0, <1>1, <1>4 DEF Pace, SessionInv, Idle
<1> HIDE DEF p, c, q, m
<1>6. /\ m.type = "RG_APP_DATA" => msg_list'[n] = << >>
      /\ m.type # "RG_APP_DATA" => /\ msg_list'[n] = <<m>>
                                   /\ msg_list'[n] # << >>
                                   /\ Head(msg_list'[n]) = m
  <2>1. Append(<< >>, m) = <<m>> /\ <<m>> # << >> /\ Head(<<m>>) = m
    BY SMT
  <2> QED
    BY <1>3, <1>5, <2>1
<1>7. /\ q \in Seq(Bits) /\ (~info[n].peer_capability => m \in Caps)
      /\ ~info[n].peer_rg_connect => ConnectFirst(q)
  <2>1. InOrder(n)
    BY <1>4
  <2>2. SeenCap(n) = info[n].peer_capability
        /\ SeenConnect(n) = info[n].peer_rg_connect
    <3>1. info[n].peer_capability \in BOOLEAN /\ info[n].peer_rg_connect \in BOOLEAN
      BY <1>0 DEF TypeOK, Info
    <3> QED
      BY <1>5, <3>1 DEF SeenCap, SeenConnect
  <2> QED
    BY <1>1, <2>1, <2>2 DEF InOrder, q, c, m
<1>8. m.type = "RG_APP_DATA" =>
        info[n].peer_capability /\ info[n].peer_rg_connect
  BY <1>1, <1>7, ConnectTail DEF Caps, m
<1>9. Layers(n)' /\ Pace(n)' /\ Flags(n)'
  <2>1. m.type = "RG_APP_DATA" => state[n] = "OPERATIONAL"
    BY <1>4, <1>5, <1>8 DEF Flags
  <2>2. Layers(n)'
    BY <1>1, <1>3, <1>4, <2>1 DEF Layers
  <2>3. Pace(n)'
    BY <1>3, <1>6, SMT DEF Pace
  <2>4. Flags(n)'
    BY <1>1, <1>4 DEF Flags
  <2> QED
    BY <2>2, <2>3, <2>4
<1>10. InOrder(n)'
  <2>1. Tail(q) \in Seq(Bits) /\ m \in Bits
    BY <1>1, <1>7, SeqParts DEF m
  <2>2. msg_list'[n] \in Seq(Bits)
    <3>1. << >> \in Seq(Bits) /\ <<m>> \in Seq(Bits)
      BY <2>1, SMT
    <3> QED
      BY <1>6, <3>1
  <2>3. \A d \in Conn : wire'[d][n] \in Seq(Bits)
    BY <1>2, <1>4, <2>1 DEF InOrder
  <2>4. \A d \in Conn : d # c => wire'[d][n] \in Seq(Caps)
    BY <1>2, <1>4 DEF InOrder, c
  <2>5. SeenCap(n)'
    BY <1>1, <1>6, <1>8 DEF SeenCap
  <2>6. msg_list'[n] # << >> /\ ~info[n].peer_capability => Head(msg_list'[n]) \in Caps
    BY <1>6, <1>7
  <2>7. ~SeenConnect(n)' => ConnectFirst(Tail(q))
    <3> SUFFICES ASSUME ~SeenConnect(n)' PROVE ConnectFirst(Tail(q))
      OBVIOUS
    <3>1. ~info[n].peer_rg_connect /\ m.type # "RG_CONNECT"
      BY <1>1, <1>6 DEF SeenConnect
    <3> QED
      BY <1>1, <1>7, <3>1, ConnectTail DEF m
  <2> QED
    BY <1>1, <1>2, <2>2, <2>3, <2>4, <2>5, <2>6, <2>7 DEF InOrder, c
<1>11. Layers(p)' /\ Pace(p)' /\ Flags(p)' /\ InOrder(p)'
  BY <1>0, <1>1, <1>2, <1>3, <1>4, OrderFrame
<1>12. Sent(n)'
  <2>1. SeenCap(p)' = SeenCap(p) /\ SeenConnect(p)' = SeenConnect(p)
    BY <1>1, <1>3 DEF SeenCap, SeenConnect
  <2>2. Sent(n) /\ wire'[sock[n]][p] = wire[sock[n]][p]
    BY <1>1, <1>2, <1>4 DEF c
  <2> QED
    BY <1>1, <2>1, <2>2 DEF Sent, p
<1>13. Sent(p)'
  <2>1. Sent(p)
    BY <1>0, <1>4
  <2>2. CASE sock[p] # c
    <3>1. sock[p] # None => wire'[sock[p]][n] = wire[sock[p]][n]
      BY <1>0, <1>2, <1>4, <2>2
    <3> QED
      BY <1>0, <1>1, <2>1, <2>2, <3>1 DEF Sent, c
  <2>3. CASE sock[p] = c
    <3>1. SeenCap(n)'
      BY <1>1, <1>6, <1>8 DEF SeenCap
    <3>2. HasConnect(q) \/ SeenConnect(n) => HasConnect(Tail(q)) \/ SeenConnect(n)'
      <4>1. CASE m.type = "RG_CONNECT"
        BY <1>6, <4>1 DEF SeenConnect
      <4>2. CASE m.type # "RG_CONNECT"
        <5>1. SeenConnect(n) => info'[n].peer_rg_connect
          BY <1>1, <1>5 DEF SeenConnect
        <5>2. HasConnect(q) => HasConnect(Tail(q))
          BY <1>1, <4>2, ConnectTail DEF m
        <5> QED
          BY <5>1, <5>2 DEF SeenConnect
      <4> QED
        BY <4>1, <4>2
    <3> QED
      BY <1>0, <1>1, <1>2, <2>1, <2>3, <3>1, <3>2 DEF Sent, c, q
  <2> QED
    BY <2>2, <2>3
<1>14. Held'
  BY <1>1 DEF OrderInv, Held
<1> QED
  BY <1>0, <1>9, <1>10, <1>11, <1>12, <1>13, <1>14 DEF OrderInv

\* A new connection carries nothing, and its last place in the backlog holds it.
LEMMA OrderConnect ==
  ASSUME OrderInv, HandshakeInv', NEW c \in Conn, TransitConnect(Active, c)
  PROVE  OrderInv'
<1>0. /\ TypeOK /\ SessionInv /\ Active \in Node /\ Standby \in Node
      /\ Active # Standby /\ Peer(Active) = Standby /\ Peer(Standby) = Active
  BY NodeAssumption DEF OrderInv, HandshakeInv, SessionInv, Node, Peer
<1>1. /\ sock[Active] = None /\ open[c] = {} /\ state[Active] = "NONEXISTENT"
      /\ UNCHANGED <<msg_list, wire, app, mlacp, mlacp_list>>
      /\ c # None /\ backlog' = Append(backlog, c)
  BY ConnAssumption DEF TransitConnect, FreeConn
<1>2. /\ sock'[Active] = c /\ sock'[Standby] = sock[Standby]
      /\ state'[Active] = "INITIALIZED" /\ state'[Standby] = state[Standby]
      /\ polled'[Active] = FALSE /\ polled'[Standby] = polled[Standby]
      /\ info'[Standby] = info[Standby]
      /\ info'[Active] = [info[Active] EXCEPT !.sender_capability = TRUE]
      /\ \A d \in Conn : open'[d] = IF d = c THEN Node ELSE open[d]
  BY <1>0 DEF TransitConnect, TypeOK, EnterState
<1>3. /\ msg_list[Active] = << >> /\ app[Active] = "NONEXISTENT"
      /\ info[Active] = InfoReset
  BY <1>0, <1>1 DEF SessionInv, Idle
<1>4. /\ info'[Active].sender_capability /\ ~info'[Active].peer_capability
      /\ ~info'[Active].peer_rg_connect
  BY <1>2, <1>3, SMT DEF InfoReset
<1>5. \A n \in Node : /\ Layers(n) /\ Pace(n) /\ Flags(n) /\ InOrder(n) /\ Sent(n)
                      /\ sock[n] \in Conn \cup {None}
  BY <1>0 DEF OrderInv, TypeOK
<1>6. Layers(Standby)' /\ Pace(Standby)' /\ Flags(Standby)' /\ InOrder(Standby)'
  BY <1>0, <1>1, <1>2, <1>5, OrderFrame
<1>7. Layers(Active)' /\ Pace(Active)' /\ Flags(Active)'
  <2>1. Layers(Active) /\ mlacp_list[Active] = << >>
    BY <1>0, <1>1, <1>5 DEF Layers
  <2> QED
    BY <1>1, <1>2, <1>3, <1>4, <2>1, SMT DEF Layers, Pace, Flags
<1>8. InOrder(Active)'
  <2>1. wire[c][Active] = << >>
    BY <1>0, <1>1 DEF SessionInv, Ends
  <2>2. ConnectFirst(<< >>)
    BY SMT DEF ConnectFirst
  <2>3. InOrder(Active)
    BY <1>0, <1>5
  <2> QED
    BY <1>1, <1>2, <1>3, <2>1, <2>2, <2>3, ConnAssumption DEF InOrder
<1>9. Sent(Active)'
  BY <1>2 DEF Sent, Up
<1>10. Sent(Standby)'
  <2>1. sock[Standby] # None => sock[Standby] # c /\ sock[Standby] \in Conn
    BY <1>0, <1>1, <1>5 DEF SessionInv, Ends
  <2>2. sock[Standby] # None => open'[sock[Standby]] = open[sock[Standby]]
    BY <1>2, <2>1
  <2>3. Sent(Standby)
    BY <1>0, <1>5
  <2> QED
    BY <1>0, <1>1, <1>2, <2>1, <2>2, <2>3 DEF Sent
<1>11. Held'
  <2>1. backlog \in Seq(Conn)
    BY <1>0 DEF TypeOK
  <2>2. /\ Len(backlog') = Len(backlog) + 1 /\ backlog'[Len(backlog) + 1] = c
        /\ \A i \in 1..Len(backlog) : backlog'[i] = backlog[i]
        /\ Len(backlog) \in Nat
    BY <1>1, <2>1, SMT
  <2>3. /\ Len(backlog) + 1 \in 1..Len(backlog')
        /\ \A i \in 1..Len(backlog) : i \in 1..Len(backlog')
    BY <2>2, SMT
  <2>4. Held
    BY DEF OrderInv
  <2> QED
    BY <1>2, <2>2, <2>3, <2>4, SMT DEF Held
<1> QED
  BY <1>6, <1>7, <1>8, <1>9, <1>10, <1>11 DEF OrderInv, Node

\* The first pass of an accepted connection.
LEMMA OrderAccepted ==
  ASSUME OrderInv, HandshakeInv', NEW n \in Node, TransitAccepted(n)
  PROVE  OrderInv'
<1> DEFINE p == Peer(n)
<1>0. /\ TypeOK /\ SessionInv /\ p \in Node /\ p # n /\ Node = {n, p}
      /\ Peer(p) = n
  BY PeerFacts DEF OrderInv, HandshakeInv, SessionInv
<1>1. /\ state[n] = "NONEXISTENT" /\ config[n] /\ msg_list[n] = << >>
      /\ UNCHANGED <<sock, wire, open, backlog, app, mlacp, mlacp_list>>
      /\ sock[n] # None /\ info[n] = InfoReset
  BY <1>0 DEF TransitAccepted, SessionInv, Idle, netVars
<1>2. /\ state'[n] = "INITIALIZED" /\ state'[p] = state[p]
      /\ info'[p] = info[p] /\ msg_list'[p] = msg_list[p]
      /\ msg_list'[n] = msg_list[n] /\ polled'[p] = polled[p]
      /\ info'[n] = [info[n] EXCEPT !.sender_capability = TRUE]
  BY <1>0, <1>1 DEF TransitAccepted, TypeOK, EnterState
<1>3. /\ info'[n].sender_capability /\ ~info'[n].peer_capability
      /\ ~info'[n].peer_rg_connect
      /\ ~info[n].peer_capability /\ ~info[n].peer_rg_connect
  BY <1>1, <1>2, SMT DEF InfoReset
<1> HIDE DEF p
<1>4. \A k \in Node : /\ Layers(k) /\ Pace(k) /\ Flags(k) /\ InOrder(k) /\ Sent(k)
                      /\ sock[k] \in Conn \cup {None}
  BY <1>0 DEF OrderInv, TypeOK
<1>5. Layers(p)' /\ Pace(p)' /\ Flags(p)' /\ InOrder(p)'
  BY <1>0, <1>1, <1>2, <1>4, OrderFrame
<1>6. \A k \in Node : /\ SeenCap(k)' <=> SeenCap(k)
                      /\ SeenConnect(k)' <=> SeenConnect(k)
  <2>1. \A k \in Node : /\ msg_list'[k] = msg_list[k]
                        /\ info'[k].peer_capability <=> info[k].peer_capability
                        /\ info'[k].peer_rg_connect <=> info[k].peer_rg_connect
    BY <1>0, <1>2, <1>3
  <2> QED
    BY <2>1 DEF SeenCap, SeenConnect
<1>7. Layers(n)' /\ Pace(n)' /\ Flags(n)'
  BY <1>1, <1>2, <1>3, <1>4 DEF Layers, Pace, Flags
<1>8. InOrder(n)'
  BY <1>1, <1>2, <1>3, <1>4, <1>6 DEF InOrder
<1>9. Sent(n)'
  BY <1>2 DEF Sent, Up
<1>10. Sent(p)'
  BY <1>0, <1>1, <1>2, <1>4, <1>6 DEF Sent
<1>11. Held'
  BY <1>1 DEF OrderInv, Held
<1> QED
  BY <1>0, <1>5, <1>7, <1>8, <1>9, <1>10, <1>11 DEF OrderInv

\* A message in order sets peer_capability, and a connect message
\* peer_rg_connect; no other flag changes.
LEMMA OrderMessage ==
  ASSUME RgId[Active] = RgId[Standby], NEW n \in Node, NEW i \in Info,
         i.status = "OK", NEW m \in Good, m \in Bits,
         ~i.peer_capability => m \in Caps
  PROVE  LET j == CorrespondFromMsg(n, i, m) IN
         /\ j \in Info /\ j.status = "OK" /\ j.peer_capability
         /\ j.sender_capability <=> i.sender_capability
         /\ j.sender_rg_connect <=> i.sender_rg_connect
         /\ j.peer_rg_connect <=> i.peer_rg_connect \/ m.type = "RG_CONNECT"
<1>1. m \in Msg /\ m.code = "OK" /\ m.rg = RgId[n]
  BY DEF Good, Msg, Node
<1>2. CheckIdFromMsg(n, i, m) = i
  BY <1>1 DEF CheckIdFromMsg
<1>3. CASE m.type = "CAPABILITY"
  <2>1. CorrespondFromMsg(n, i, m) = [i EXCEPT !.peer_capability = TRUE]
    BY <1>2, <1>3 DEF CorrespondFromMsg, Bits
  <2> QED
    BY <1>3, <2>1 DEF Info
<1>4. CASE m.type = "RG_CONNECT"
  <2>1. CorrespondFromMsg(n, i, m) = [i EXCEPT !.peer_rg_connect = TRUE]
    BY <1>2, <1>4 DEF CorrespondFromMsg
  <2>2. i.peer_capability
    BY <1>4 DEF Caps
  <2> QED
    BY <1>4, <2>1, <2>2 DEF Info
<1>5. CASE m.type \notin {"CAPABILITY", "RG_CONNECT"}
  <2>1. CorrespondFromMsg(n, i, m) = i
    BY <1>1, <1>2, <1>5 DEF CorrespondFromMsg
  <2>2. i.peer_capability
    BY <1>5 DEF Caps
  <2> QED
    BY <1>5, <2>1, <2>2
<1> QED
  BY <1>3, <1>4, <1>5

\* The state that a pass enters says which flags are set.
LEMMA OrderState ==
  ASSUME NEW s \in State \ {"NONEXISTENT"}, NEW j \in Info, j.status = "OK",
         j.sender_capability,
         s \in {"INITIALIZED", "CAPSENT"} => ~j.peer_rg_connect,
         s \notin {"INITIALIZED", "CAPSENT"} => j.peer_capability,
         s = "OPERATIONAL" => j.sender_rg_connect /\ j.peer_rg_connect
  PROVE  LET t == NextState(s, j)
             e == EnterState(t, j)
         IN /\ t \in State \ {"NONEXISTENT"}
            /\ t \in {"INITIALIZED", "CAPSENT"} <=> ~j.peer_capability
            /\ t = "OPERATIONAL" <=> j.peer_rg_connect
            /\ s \in {"INITIALIZED", "CAPSENT"} => t \notin Up
            /\ s = "OPERATIONAL" => t = "OPERATIONAL"
            /\ e.sender_capability
            /\ e.peer_capability <=> j.peer_capability
            /\ e.peer_rg_connect <=> j.peer_rg_connect
<1> DEFINE t == NextState(s, j)
<1>1. /\ t \in State \ {"NONEXISTENT"}
      /\ t \in {"INITIALIZED", "CAPSENT"} <=> ~j.peer_capability
      /\ t = "OPERATIONAL" <=> j.peer_rg_connect
      /\ s \in {"INITIALIZED", "CAPSENT"} => t \notin Up
      /\ s = "OPERATIONAL" => t = "OPERATIONAL"
  BY DEF NextState, State, Up, Info
<1> HIDE DEF t
<1>2. LET e == EnterState(t, j)
      IN /\ e.sender_capability
         /\ e.peer_capability <=> j.peer_capability
         /\ e.peer_rg_connect <=> j.peer_rg_connect
  <2>1. CASE t = "INITIALIZED"
    BY <1>1, <2>1 DEF EnterState, Info
  <2>2. CASE t = "CAPREC"
    BY <1>1, <2>2 DEF EnterState, Info
  <2>3. CASE t = "CONNECTING"
    BY <1>1, <2>3 DEF EnterState, Info
  <2>4. CASE t = "OPERATIONAL"
    BY <1>1, <2>4 DEF EnterState, Info
  <2>5. CASE t = "CAPSENT"
    BY <1>1, <2>5 DEF EnterState, Info
  <2> QED
    BY <1>1, <2>1, <2>2, <2>3, <2>4, <2>5 DEF State
<1> QED
  BY <1>1, <1>2 DEF t

\* The order of what follows q.
LEMMA ConnectAppend ==
  ASSUME NEW q \in Seq(Msg), NEW r \in Seq(Msg)
  PROVE  /\ HasConnect(q) \/ HasConnect(r) => HasConnect(q \o r)
         /\ ConnectFirst(q) /\ (HasConnect(q) \/ ConnectFirst(r)) =>
              ConnectFirst(q \o r)
<1> DEFINE u == q \o r
           k == Len(q)
<1>1. /\ k \in Nat /\ Len(r) \in Nat /\ DOMAIN q = 1..k /\ DOMAIN r = 1..Len(r)
      /\ DOMAIN u = 1..(k + Len(r))
      /\ \A i \in DOMAIN q : i \in DOMAIN u /\ u[i] = q[i]
      /\ \A i \in DOMAIN r : k + i \in DOMAIN u /\ u[k + i] = r[i]
  BY SMT
<1> HIDE DEF u, k
<1>2. \A j \in DOMAIN u : j \in DOMAIN q \/ (j - k \in DOMAIN r /\ j = k + (j - k))
  BY <1>1, SMT
<1>3. HasConnect(q) \/ HasConnect(r) => HasConnect(u)
  BY <1>1 DEF HasConnect
<1>4. ASSUME ConnectFirst(q), HasConnect(q) \/ ConnectFirst(r),
             NEW j \in DOMAIN u, u[j].type = "RG_APP_DATA"
      PROVE  \E i \in DOMAIN u : i < j /\ u[i].type = "RG_CONNECT"
  <2>1. CASE j \in DOMAIN q
    BY <1>1, <1>4, <2>1, SMT DEF ConnectFirst
  <2>2. CASE j \notin DOMAIN q /\ HasConnect(q)
    <3>1. PICK i \in DOMAIN q : q[i].type = "RG_CONNECT"
      BY <2>2 DEF HasConnect
    <3>2. i < j
      BY <1>1, <2>2, <3>1, SMT
    <3> QED
      BY <1>1, <3>1, <3>2
  <2>3. CASE j \notin DOMAIN q /\ ConnectFirst(r)
    <3>1. j - k \in DOMAIN r /\ r[j - k].type = "RG_APP_DATA"
      BY <1>1, <1>2, <1>4, <2>3
    <3>2. PICK i \in DOMAIN r : i < j - k /\ r[i].type = "RG_CONNECT"
      BY <2>3, <3>1 DEF ConnectFirst
    <3>3. k + i < j
      BY <1>1, <3>2, SMT
    <3> QED
      BY <1>1, <3>2, <3>3
  <2> QED
    BY <1>4, <2>1, <2>2, <2>3
<1> QED
  BY <1>3, <1>4 DEF ConnectFirst, u

\* A message with at most one more behind it.
LEMMA OneOrTwo ==
  ASSUME NEW S, NEW x \in S, NEW r \in Seq(S), Len(r) <= 1
  PROVE  LET out == <<x>> \o r IN
         /\ out \in Seq(S) /\ out # << >> /\ Head(out) = x /\ out[1] = x
         /\ 1 \in DOMAIN out /\ DOMAIN out \subseteq {1, 2}
         /\ r = << >> => out = <<x>>
<1> DEFINE out == <<x>> \o r
<1>1. <<x>> \in Seq(S) /\ Len(<<x>>) = 1 /\ <<x>>[1] = x
  BY SMT
<1>r. Len(r) \in {0, 1}
  <2>1. Len(r) \in Nat
    BY SMT
  <2> QED
    BY <2>1, SMT
<1>2. out \in Seq(S) /\ Len(out) = 1 + Len(r) /\ out[1] = x
  BY <1>1, SMT
<1>3. r = << >> => out = <<x>>
  BY SMT
<1> HIDE DEF out
<1>4. DOMAIN out = 1..Len(out) /\ Len(out) \in {1, 2}
  BY <1>r, <1>2, SMT
<1>5. out # << >> /\ Head(out) = x
  BY <1>2, <1>4, SMT
<1> QED
  BY <1>2, <1>3, <1>4, <1>5, SMT DEF out

\* What a pass sends: a capability message in INITIALIZED, a connect message in
\* CAPREC, and application data after it.
LEMMA OrderSent ==
  ASSUME NEW n \in Node, NEW s \in State, NEW i \in Info, i.status = "OK",
         i.sender_capability, s = "OPERATIONAL" => i.peer_rg_connect,
         NEW j \in Info, NEW op, NEW ms \in AppMessages(n, j, op)
  PROVE  LET out == PrepareIccpMsg(n, s, i) \o ms IN
         /\ out \in Seq(Bits)
         /\ s \in {"INITIALIZED", "CAPSENT"} /\ ~op => out \in Seq(Caps)
         /\ s = "INITIALIZED" => out # << >> /\ Head(out) \in Caps
         /\ s = "CAPREC" => HasConnect(out) /\ ConnectFirst(out)
         /\ ~op => ConnectFirst(out)
<1> DEFINE cap == PrepareMsg(n, i, "CAPABILITY")
           con == PrepareMsg(n, i, "RG_CONNECT")
           dat == PrepareMsg(n, j, "RG_APP_DATA")
<1>1. /\ cap \in Msg /\ con \in Msg /\ dat \in Msg
      /\ cap.type = "CAPABILITY" /\ cap.s_bit /\ con.type = "RG_CONNECT"
      /\ dat.type = "RG_APP_DATA"
  <2>1. cap \in Msg /\ con \in Msg /\ dat \in Msg
    BY PrepareMsgType DEF MsgType
  <2>2. /\ cap.type = "CAPABILITY" /\ cap.s_bit /\ con.type = "RG_CONNECT"
        /\ dat.type = "RG_APP_DATA"
    BY DEF PrepareMsg
  <2> QED
    BY <2>1, <2>2
<1>2. PrepareIccpMsg(n, s, i) = CASE s = "INITIALIZED" -> <<cap>>
                                  [] s = "CAPREC" -> <<con>>
                                  [] OTHER -> << >>
  BY DEF PrepareIccpMsg, State
<1>3. ms = << >> \/ (op /\ ms = <<dat>>)
  BY DEF AppMessages
<1> HIDE DEF cap, con, dat
<1>4. cap \in Caps /\ cap \in Bits /\ con \in Bits /\ dat \in Bits
  BY <1>1 DEF Caps, Bits
<1>5. ms \in Seq(Bits) /\ Len(ms) <= 1 /\ << >> \o ms = ms /\ << >> \in Seq(Caps)
  <2>1. <<dat>> \in Seq(Bits) /\ Len(<<dat>>) = 1 /\ << >> \in Seq(Caps)
    BY <1>4, SMT
  <2>2. << >> \in Seq(Bits) /\ Len(<< >>) = 0
    BY SMT
  <2>3. ms \in Seq(Bits) /\ Len(ms) <= 1
    <3>1. ms \in {<< >>, <<dat>>}
      BY <1>3
    <3>2. Len(<<dat>>) <= 1 /\ Len(<< >>) <= 1
      BY SMT
    <3> QED
      BY <2>1, <2>2, <3>1, <3>2
  <2>4. << >> \o << >> = << >> /\ << >> \o <<dat>> = <<dat>>
    BY SMT
  <2> QED
    BY <1>3, <2>1, <2>3, <2>4
<1>6. CASE s = "INITIALIZED"
  <2> DEFINE out == <<cap>> \o ms
  <2>1. out \in Seq(Bits) /\ out # << >> /\ Head(out) = cap
    BY <1>4, <1>5, OneOrTwo, SMT
  <2>2. ~op => out = <<cap>>
    BY <1>3, <1>4, <1>5, OneOrTwo, SMT
  <2> HIDE DEF out
  <2>3. ~op => out \in Seq(Caps) /\ DOMAIN out = {1} /\ out[1] = cap
    BY <1>4, <2>2, SMT
  <2>4. ~op => ConnectFirst(out)
    BY <1>1, <2>3 DEF ConnectFirst
  <2> QED
    BY <1>2, <1>4, <1>6, <2>1, <2>3, <2>4 DEF out
<1>7. CASE s = "CAPREC"
  <2> DEFINE out == <<con>> \o ms
  <2>1. /\ out \in Seq(Bits) /\ out[1] = con
        /\ 1 \in DOMAIN out /\ DOMAIN out \subseteq {1, 2}
    BY <1>4, <1>5, OneOrTwo, SMT
  <2> HIDE DEF out
  <2>2. HasConnect(out) /\ ConnectFirst(out)
    BY <1>1, <2>1, SMT DEF HasConnect, ConnectFirst
  <2> QED
    BY <1>2, <1>7, <2>1, <2>2 DEF out
<1>8. CASE s \notin {"INITIALIZED", "CAPREC"}
  <2>1. PrepareIccpMsg(n, s, i) \o ms = ms
    BY <1>2, <1>5, <1>8
  <2>2. ConnectFirst(<< >>)
    BY SMT DEF ConnectFirst
  <2> QED
    BY <1>3, <1>5, <1>8, <2>1, <2>2
<1> QED
  BY <1>6, <1>7, <1>8

\* Whoever has got past the capability exchange is on the connection with the
\* other end, unless that end is closed.
LEMMA Answered ==
  ASSUME SessionInv, Held, NEW n \in Node, sock[n] # None,
         Peer(n) \in open[sock[n]], sock[Peer(n)] # sock[n]
  PROVE  n = Active /\ Unanswered
<1>0. /\ Active \in Node /\ Standby \in Node /\ sock[n] \in Conn
      /\ Peer(Active) = Standby /\ Peer(Standby) = Active
      /\ n \in {Active, Standby}
  BY NodeAssumption DEF SessionInv, TypeOK, Node, Peer
<1>1. n = Active
  BY <1>0 DEF SessionInv, Queue
<1>2. \E i \in 1..Len(backlog) : backlog[i] = sock[Active]
  BY <1>0, <1>1 DEF Held
<1>3. backlog # << >>
  BY <1>2, SMT
<1> QED
  BY <1>1, <1>3 DEF SessionInv, OneConnection

\* A pass processes the one queued message and writes what its state stands for.
LEMMA OrderTransit ==
  ASSUME RgId[Active] = RgId[Standby], OrderInv, HandshakeInv', NEW n \in Node,
         TransitSession(n)
  PROVE  OrderInv'
<1> DEFINE p == Peer(n)
           c == sock[n]
           got == msg_list[n] # << >>
           m == Head(msg_list[n])
           i1 == IF got THEN CorrespondFromMsg(n, info[n], m) ELSE info[n]
           s == NextState(state[n], i1)
           i2 == IF got \/ s # state[n] THEN EnterState(s, i1) ELSE i1
           operational == app[n] = "OPERATIONAL" \/ s = "OPERATIONAL"
           iccp == PrepareIccpMsg(n, state[n], i1)
<1>0. /\ TypeOK /\ SessionInv /\ p \in Node /\ p # n /\ Node = {n, p}
      /\ Peer(p) = n /\ Healthy(n)
  BY PeerFacts DEF OrderInv, HandshakeInv, SessionInv
<1>1. \A k \in Node : /\ Layers(k) /\ Pace(k) /\ Flags(k) /\ InOrder(k) /\ Sent(k)
                      /\ sock[k] \in Conn \cup {None}
  BY <1>0 DEF OrderInv, TypeOK
<1>2. /\ c \in Conn /\ c # None /\ state[n] \in State \ {"NONEXISTENT"}
      /\ info[n] \in Info /\ info[n].status = "OK" /\ info[n].sender_capability
      /\ state[n] \in {"INITIALIZED", "CAPSENT"} <=> ~info[n].peer_capability
      /\ state[n] = "OPERATIONAL" <=> info[n].peer_rg_connect
      /\ state[n] = "OPERATIONAL" => info[n].sender_rg_connect
  BY <1>0, <1>1 DEF TransitSession, TypeOK, Flags, Healthy
<1>3. /\ state' = [state EXCEPT ![n] = s]
      /\ info' = [info EXCEPT ![n] = i2]
      /\ msg_list' = [msg_list EXCEPT ![n] = IF got THEN Tail(@) ELSE @]
      /\ app' = [app EXCEPT ![n] = IF operational THEN "OPERATIONAL" ELSE @]
      /\ mlacp' = [mlacp EXCEPT ![n] = @ \/ operational]
      /\ mlacp_list' = [mlacp_list EXCEPT ![n] = IF operational THEN << >> ELSE @]
      /\ polled' = [polled EXCEPT ![n] = FALSE]
      /\ UNCHANGED <<sock, open, backlog>>
  BY DEF TransitSession
<1>4. PICK ms \in AppMessages(n, i2, operational) :
        WireSend(n, IF i1.status # "OK" /\ ~Room(n) THEN ms ELSE iccp \o ms)
  BY DEF TransitSession
<1>5. got => /\ m \in Good /\ m \in Bits /\ Tail(msg_list[n]) = << >>
             /\ ~info[n].peer_capability => m \in Caps
  <2> DEFINE q == msg_list[n]
  <2>1. /\ q \in Seq(Good) /\ q \in Seq(Bits) /\ Len(q) <= 1
        /\ q # << >> /\ ~info[n].peer_capability => Head(q) \in Caps
    BY <1>0, <1>1 DEF Healthy, InOrder, Pace
  <2> HIDE DEF q
  <2>2. q # << >> => Head(q) \in Good /\ Head(q) \in Bits
    BY <2>1, SeqParts
  <2>3. q # << >> => Tail(q) = << >>
    BY <2>1, SeqParts
  <2> QED
    BY <2>1, <2>2, <2>3 DEF q
<1> HIDE DEF p, c, m, got, operational
<1>6. /\ i1 \in Info /\ i1.status = "OK" /\ i1.sender_capability
      /\ i1.peer_capability <=> info[n].peer_capability \/ got
      /\ i1.sender_rg_connect <=> info[n].sender_rg_connect
      /\ i1.peer_rg_connect <=>
           info[n].peer_rg_connect \/ (got /\ m.type = "RG_CONNECT")
  <2>1. CASE got
    BY <1>2, <1>5, <2>1, OrderMessage
  <2>2. CASE ~got
    BY <1>2, <2>2
  <2> QED
    BY <2>1, <2>2
<1>7. got /\ m.type = "RG_CONNECT" => info[n].peer_capability
  BY <1>5 DEF Caps
<1> HIDE DEF i1
<1>8. /\ s \in State \ {"NONEXISTENT"}
      /\ s \in {"INITIALIZED", "CAPSENT"} <=> ~i1.peer_capability
      /\ s = "OPERATIONAL" <=> i1.peer_rg_connect
      /\ state[n] \in {"INITIALIZED", "CAPSENT"} => s \notin Up
      /\ state[n] = "OPERATIONAL" => s = "OPERATIONAL"
      /\ LET e == EnterState(s, i1)
         IN /\ e.sender_capability
            /\ e.peer_capability <=> i1.peer_capability
            /\ e.peer_rg_connect <=> i1.peer_rg_connect
  <2>1. state[n] \in {"INITIALIZED", "CAPSENT"} => ~i1.peer_rg_connect
    BY <1>2, <1>6, <1>7
  <2>2. state[n] \notin {"INITIALIZED", "CAPSENT"} => i1.peer_capability
    BY <1>2, <1>6
  <2>3. state[n] = "OPERATIONAL" => i1.sender_rg_connect /\ i1.peer_rg_connect
    BY <1>2, <1>6
  <2> QED
    BY <1>2, <1>6, <2>1, <2>2, <2>3, OrderState
<1> HIDE DEF s
<1>9. /\ i2 \in Info /\ i2.sender_capability
      /\ i2.peer_capability <=> i1.peer_capability
      /\ i2.peer_rg_connect <=> i1.peer_rg_connect
  <2>1. EnterState(s, i1) \in Info
    BY <1>6, <1>8, EnterStateType
  <2> QED
    BY <1>6, <1>8, <2>1
<1> HIDE DEF i2
<1>10. operational <=> s = "OPERATIONAL"
  <2>1. app[n] = "OPERATIONAL" => state[n] = "OPERATIONAL"
    BY <1>1 DEF Layers
  <2> QED
    BY <1>8, <2>1 DEF operational
<1> DEFINE out == iccp \o ms
<1>11. /\ out \in Seq(Bits)
       /\ state[n] \in {"INITIALIZED", "CAPSENT"} => out \in Seq(Caps)
       /\ state[n] = "INITIALIZED" => out # << >> /\ Head(out) \in Caps
       /\ state[n] = "CAPREC" => HasConnect(out) /\ ConnectFirst(out)
       /\ state[n] \notin Up => ConnectFirst(out)
  <2>1. state[n] = "OPERATIONAL" => i1.peer_rg_connect
    BY <1>2, <1>6
  <2>2. /\ out \in Seq(Bits)
        /\ state[n] \in {"INITIALIZED", "CAPSENT"} /\ ~operational
             => out \in Seq(Caps)
        /\ state[n] = "INITIALIZED" => out # << >> /\ Head(out) \in Caps
        /\ state[n] = "CAPREC" => HasConnect(out) /\ ConnectFirst(out)
        /\ ~operational => ConnectFirst(out)
    <3>1. state[n] \in State /\ i1 \in Info /\ i1.status = "OK" /\ i1.sender_capability
      BY <1>2, <1>6
    <3>2. i2 \in Info /\ ms \in AppMessages(n, i2, operational)
      BY <1>4, <1>9
    <3> QED
      BY <2>1, <3>1, <3>2, OrderSent, SMT
  <2>3. state[n] \in {"INITIALIZED", "CAPSENT"} => ~operational
    BY <1>8, <1>10 DEF Up
  <2>4. state[n] \in {"INITIALIZED", "CAPSENT", "CAPREC"} \cup Up
    BY <1>2 DEF State, Up
  <2> HIDE DEF out
  <2> QED
    BY <2>2, <2>3, <2>4
<1>12. \A d \in Conn :
         /\ wire'[d][n] = wire[d][n]
         /\ wire'[d][p] = IF d = c /\ p \in open[d] THEN wire[d][p] \o out
                          ELSE wire[d][p]
  <2>1. \A d \in Conn : wire[d] \in [Node -> Seq(Msg)]
    BY <1>0 DEF TypeOK
  <2>2. WireSend(n, out)
    BY <1>4, <1>6
  <2> HIDE DEF out
  <2> QED
    BY <1>0, <2>1, <2>2 DEF WireSend, p, c
<1> HIDE DEF out, iccp
<1>13. /\ state'[n] = s /\ state'[p] = state[p]
       /\ info'[n] = i2 /\ info'[p] = info[p]
       /\ msg_list'[n] = << >> /\ msg_list'[p] = msg_list[p]
       /\ polled'[p] = polled[p]
       /\ app'[n] = IF operational THEN "OPERATIONAL" ELSE app[n]
       /\ app'[p] = app[p] /\ mlacp'[p] = mlacp[p]
       /\ mlacp'[n] = (mlacp[n] \/ operational)
       /\ mlacp_list'[p] = mlacp_list[p]
       /\ mlacp_list'[n] = IF operational THEN << >> ELSE mlacp_list[n]
       /\ sock' = sock /\ open' = open /\ backlog' = backlog
  <2>1. msg_list'[n] = IF got THEN Tail(msg_list[n]) ELSE msg_list[n]
    BY <1>3, <1>0 DEF TypeOK
  <2>2. msg_list'[n] = << >>
    BY <1>5, <2>1 DEF got
  <2> QED
    BY <1>0, <1>3, <2>2 DEF TypeOK
<1>14. \A k \in Node : /\ SeenCap(k)' <=> SeenCap(k)
                       /\ SeenConnect(k)' <=> SeenConnect(k)
  <2>1. SeenCap(p)' <=> SeenCap(p)
    BY <1>13 DEF SeenCap
  <2>2. SeenConnect(p)' <=> SeenConnect(p)
    BY <1>13 DEF SeenConnect
  <2>3. SeenCap(n)' <=> SeenCap(n)
    BY <1>6, <1>9, <1>13 DEF SeenCap, got
  <2>4. SeenConnect(n)' <=> SeenConnect(n)
    BY <1>6, <1>9, <1>13 DEF SeenConnect, got, m
  <2> QED
    BY <1>0, <2>1, <2>2, <2>3, <2>4
<1>15. Layers(n)' /\ Pace(n)' /\ Flags(n)'
  <2>1. Layers(n)'
    BY <1>1, <1>8, <1>10, <1>13 DEF Layers
  <2>2. Pace(n)'
    <3>1. msg_list'[n] = << >> /\ Len(<< >>) <= 1
      BY <1>13, SMT
    <3> QED
      BY <3>1 DEF Pace
  <2>3. Flags(n)'
    BY <1>8, <1>9, <1>13 DEF Flags
  <2> QED
    BY <2>1, <2>2, <2>3
<1>16. InOrder(n)'
  <2>1. InOrder(n) /\ << >> \in Seq(Bits)
    BY <1>1, SMT
  <2> QED
    BY <1>0, <1>2, <1>12, <1>13, <1>14, <2>1 DEF InOrder, c
<1>17. Layers(p)' /\ Pace(p)' /\ Flags(p)'
  BY <1>0, <1>1, <1>13 DEF Layers, Pace, Flags
<1>18. Sent(p)'
  <2>1. Sent(p) /\ (sock[p] # None => wire'[sock[p]][n] = wire[sock[p]][n])
    BY <1>0, <1>1, <1>12
  <2> QED
    BY <1>0, <1>13, <1>14, <2>1 DEF Sent
<1>19. Held'
  BY <1>13 DEF OrderInv, Held
<1> DEFINE w == wire[c][p]
           v == wire'[c][p]
<1>20. CASE p \notin open[c]
  <2>1. \A d \in Conn : wire'[d][p] = wire[d][p]
    BY <1>12, <1>20
  <2>2. InOrder(p)'
    BY <1>0, <1>1, <1>13, <2>1, OrderFrame
  <2>3. sock[p] # c
    BY <1>0, <1>2, <1>20 DEF SessionInv, Ends
  <2>4. Sent(n)'
    BY <1>13, <1>20, <2>3 DEF Sent, p, c
  <2> QED
    BY <1>0, <1>15, <1>16, <1>17, <1>18, <1>19, <2>2, <2>4 DEF OrderInv
<1>21. CASE p \in open[c]
  <2>1. /\ v = w \o out /\ w \in Seq(Bits)
        /\ \A d \in Conn : d # c => wire'[d][p] = wire[d][p]
    BY <1>0, <1>1, <1>2, <1>12, <1>21 DEF InOrder
  <2>2. w \in Seq(Msg)
    BY <2>1, BitsAreMessages, SeqWider
  <2>3. w \in Seq(Msg) /\ out \in Seq(Msg)
    BY <1>11, <2>2, BitsAreMessages, SeqWider
  <2>4. sock[p] # c => state[n] \in {"INITIALIZED", "CAPSENT"}
    BY <1>0, <1>2, <1>21, Answered DEF OrderInv, Unanswered, p, c
  <2>5. Sent(n) /\ InOrder(p)
    BY <1>0, <1>1
  <2>6. state[n] # "INITIALIZED" => w # << >> \/ (sock[p] = c /\ SeenCap(p))
    BY <1>2, <1>21, <2>5 DEF Sent, p, c
  <2>7. state[n] \in Up /\ sock[p] = c => HasConnect(w) \/ SeenConnect(p)
    BY <1>2, <2>5 DEF Sent, p, c
  <2>8. v \in Seq(Bits)
    BY <1>11, <2>1, Concatenation
  <2>9. sock[p] # c => v \in Seq(Caps)
    <3>1. sock[p] # c => w \in Seq(Caps) /\ out \in Seq(Caps)
      BY <1>2, <1>11, <2>4, <2>5 DEF InOrder
    <3> QED
      BY <2>1, <3>1, Concatenation
  <2> HIDE DEF v, w
  <2>10. v # << >> => IF w = << >> THEN v = out ELSE Head(v) = Head(w)
    BY <2>1, <2>3, SMT
  <2>11. w # << >> \/ out # << >> => v # << >>
    BY <2>1, <2>3, SMT
  <2>12. sock[p] = c /\ ~SeenCap(p) /\ v # << >> => Head(v) \in Caps
    <3>1. sock[p] = c /\ ~SeenCap(p) /\ w # << >> => Head(w) \in Caps
      BY <1>2, <2>5 DEF InOrder, w, c
    <3> QED
      BY <1>11, <2>6, <2>10, <3>1
  <2>13. sock[p] = c /\ ~SeenConnect(p) => ConnectFirst(v)
    <3>1. sock[p] = c /\ ~SeenConnect(p) => ConnectFirst(w)
      BY <1>2, <2>5 DEF InOrder, w, c
    <3>2. sock[p] = c /\ ~SeenConnect(p) => HasConnect(w) \/ ConnectFirst(out)
      BY <1>11, <2>7
    <3> QED
      BY <2>1, <2>3, <3>1, <3>2, ConnectAppend
  <2>14. InOrder(p)'
    <3>1. /\ msg_list'[p] \in Seq(Bits)
          /\ \A d \in Conn : wire'[d][p] \in Seq(Bits)
          /\ \A d \in Conn : d # sock[p] => wire'[d][p] \in Seq(Caps)
      BY <1>13, <2>1, <2>5, <2>8, <2>9 DEF InOrder, v
    <3>2. msg_list'[p] # << >> /\ ~info'[p].peer_capability =>
            Head(msg_list'[p]) \in Caps
      BY <1>13, <2>5 DEF InOrder
    <3>3. CASE sock[p] = c
      <4>1. wire'[sock'[p]][p] = v
        BY <1>13, <3>3 DEF v
      <4> QED
        BY <1>0, <1>13, <1>14, <2>12, <2>13, <3>1, <3>2, <3>3, <4>1 DEF InOrder
    <3>4. CASE sock[p] # c
      <4>1. sock[p] # None => wire'[sock'[p]][p] = wire[sock[p]][p]
        BY <1>0, <1>1, <1>13, <2>1, <3>4
      <4> QED
        BY <1>0, <1>13, <1>14, <2>5, <3>1, <3>2, <4>1 DEF InOrder
    <3> QED
      BY <3>3, <3>4
  <2>15. Sent(n)'
    <3>1. v # << >> \/ (sock[p] = c /\ SeenCap(p)')
      BY <1>0, <1>11, <1>14, <2>6, <2>11
    <3>2. s \in Up /\ sock[p] = c => HasConnect(v) \/ SeenConnect(p)'
      <4>1. s \in Up => state[n] \in Up \cup {"CAPREC"}
        BY <1>2, <1>8 DEF State, Up
      <4> QED
        BY <1>0, <1>11, <1>14, <2>1, <2>3, <2>7, <4>1, ConnectAppend
    <3> QED
      BY <1>13, <3>1, <3>2 DEF Sent, p, c, v
  <2> QED
    BY <1>0, <1>15, <1>16, <1>17, <1>18, <1>19, <2>14, <2>15 DEF OrderInv
<1> QED
  BY <1>20, <1>21

\* Every step keeps the order.
LEMMA OrderStep ==
  ASSUME RgId[Active] = RgId[Standby], OrderInv, [Next]_vars
  PROVE  OrderInv'
<1>0. HandshakeInv' /\ TypeOK
  BY HandshakeStep DEF OrderInv, HandshakeInv, SessionInv
<1> DEFINE Same == UNCHANGED <<state, app, info, msg_list, mlacp, mlacp_list,
                               sock, wire, open, backlog>>
<1>1. ASSUME Same, \A n \in Node : polled'[n] = polled[n] \/ msg_list[n] = << >>
      PROVE  OrderInv'
  <2>1. \A n \in Node : /\ Layers(n)' = Layers(n) /\ Flags(n)' = Flags(n)
                        /\ InOrder(n)' = InOrder(n) /\ Sent(n)' = Sent(n)
    BY <1>1, SMT DEF Layers, Flags, InOrder, Sent, SeenCap, SeenConnect
  <2>2. \A n \in Node : Pace(n) => Pace(n)'
    BY <1>1 DEF Pace
  <2>3. Held' = Held
    BY <1>1 DEF Held
  <2> QED
    BY <1>0, <2>1, <2>2, <2>3 DEF OrderInv
<1>2. CASE UNCHANGED vars
  BY <1>1, <1>2 DEF vars
<1>3. ASSUME NEW n \in Node, ReadError(n) \/ ConfigChange(n)
                               \/ HeartbeatTimeout(n) \/ Restart(n)
      PROVE  OrderInv'
  <2>1. /\ StatusReset(n) /\ sock' = [sock EXCEPT ![n] = None]
        /\ \/ polled' = polled \/ polled' = [polled EXCEPT ![n] = TRUE]
           \/ polled' = [polled EXCEPT ![n] = FALSE]
    BY <1>3
       DEF ReadError, ConfigChange, HeartbeatTimeout, Restart,
           SessionDisconnect
  <2>2. polled'[Peer(n)] = polled[Peer(n)]
    BY <1>0, <2>1, PeerFacts DEF TypeOK
  <2>3. CASE Restart(n)
    <3> DEFINE C == {sock[n]} \cup
                    IF n = Standby THEN {backlog[i] : i \in 1..Len(backlog)} ELSE {}
    <3>1. /\ CloseEnds(n, C) /\ sock[n] \in C
          /\ backlog' = IF n = Standby THEN << >> ELSE backlog
      BY <2>3 DEF Restart
    <3>2. n = Standby => \A i \in 1..Len(backlog) : backlog[i] \in C
      OBVIOUS
    <3> HIDE DEF C
    <3> QED
      BY <1>0, <2>1, <2>2, <3>1, <3>2, OrderDrop
  <2>4. CASE ~Restart(n)
    <3>1. CloseEnds(n, {sock[n]}) /\ backlog' = backlog
      BY <1>3, <2>4
         DEF ReadError, ConfigChange, HeartbeatTimeout, SessionDisconnect
    <3> QED
      BY <1>0, <2>1, <2>2, <3>1, OrderDrop
  <2> QED
    BY <2>3, <2>4
<1>4. ASSUME NEW n \in Node, ConfigComplete(n)
      PROVE  OrderInv'
  BY <1>1, <1>4 DEF ConfigComplete, csmVars, netVars
<1>5. ASSUME NEW n \in Node, TransitIdle(n)
      PROVE  OrderInv'
  <2>1. Same /\ sock[n] = None /\ polled' = [polled EXCEPT ![n] = FALSE]
    BY <1>5 DEF TransitIdle, csmVars, netVars
  <2>2. msg_list[n] = << >>
    BY <2>1 DEF OrderInv, HandshakeInv, SessionInv, Backed, Idle
  <2>3. \A k \in Node : polled'[k] = polled[k] \/ msg_list[k] = << >>
    BY <1>0, <2>1, <2>2 DEF TypeOK
  <2> QED
    BY <1>1, <2>1, <2>3
<1>6. ASSUME NEW n \in Node, NEW c \in Conn, TransitConnect(n, c)
      PROVE  OrderInv'
  <2>1. TransitConnect(Active, c)
    BY <1>6 DEF TransitConnect
  <2> QED
    BY <1>0, <2>1, OrderConnect
<1> QED
  BY <1>0, <1>2, <1>3, <1>4, <1>5, <1>6, OrderAccept, OrderRead,
     OrderAccepted, OrderTransit
     DEF Next, Read, Transit

\* Peers of different domains never get as far as application data.
NoData == {m \in Msg : m.type # "RG_APP_DATA"}
Silent(n) ==
  /\ app[n] # "OPERATIONAL" /\ ~mlacp[n] /\ mlacp_list[n] = << >>
  /\ \A c \in Conn : wire[c][n] \in Seq(NoData)

SilentInv == MismatchInv /\ \A n \in Node : Silent(n)

\* Without application data in flight, and with no peer OPERATIONAL, a step
\* sends none.
LEMMA SilentStep ==
  ASSUME RgId[Active] # RgId[Standby], SilentInv, [Next]_vars
  PROVE  SilentInv'
<1>0. MismatchInv' /\ TypeOK /\ TypeOK'
  BY MismatchStep, TypeOKStep DEF SilentInv, MismatchInv
<1> SUFFICES ASSUME NEW k \in Node PROVE Silent(k)'
  BY <1>0 DEF SilentInv
<1>1. Silent(k) /\ << >> \in Seq(NoData)
  BY SMT DEF SilentInv
<1> DEFINE Upper == /\ app'[k] \in {app[k], "NONEXISTENT"}
                    /\ mlacp'[k] \in {mlacp[k], FALSE}
                    /\ mlacp_list'[k] \in {mlacp_list[k], << >>}
<1>2. ASSUME Upper, \A c \in Conn : wire'[c][k] \in {wire[c][k], << >>}
      PROVE  Silent(k)'
  BY <1>1, <1>2 DEF Silent
<1>3. ASSUME NEW n \in Node, NEW C, CloseEnds(n, C)
      PROVE  \A c \in Conn : wire'[c][k] \in {wire[c][k], << >>}
  BY <1>0, <1>3 DEF CloseEnds, TypeOK
<1>4. CASE UNCHANGED vars
  BY <1>2, <1>4 DEF vars
<1>5. ASSUME NEW n \in Node, ReadError(n) \/ ConfigChange(n)
                               \/ HeartbeatTimeout(n) \/ Restart(n)
      PROVE  Silent(k)'
  <2>1. StatusReset(n)
    BY <1>5
       DEF ReadError, ConfigChange, HeartbeatTimeout, Restart,
           SessionDisconnect
  <2>2. PICK C : CloseEnds(n, C)
    BY <1>5
       DEF ReadError, ConfigChange, HeartbeatTimeout, Restart,
           SessionDisconnect
  <2>3. Upper
    <3>1. /\ app'[k] = IF k = n THEN "NONEXISTENT" ELSE app[k]
          /\ mlacp'[k] = IF k = n THEN FALSE ELSE mlacp[k]
          /\ mlacp_list'[k] = IF k = n THEN << >> ELSE mlacp_list[k]
      BY <1>0, <2>1, SMT DEF StatusReset, TypeOK
    <3> QED
      BY <3>1
  <2> QED
    BY <1>2, <1>3, <2>2, <2>3
<1>6. CASE Accept
  <2>1. Upper /\ (UNCHANGED wire \/ CloseEnds(Standby, {Head(backlog)}))
    BY <1>6 DEF Accept, RejectClient
  <2>2. Standby \in Node
    BY DEF Node
  <2> QED
    BY <1>2, <1>3, <2>1, <2>2
<1>7. ASSUME NEW n \in Node,
             \/ ConfigComplete(n) \/ TransitIdle(n) \/ TransitAccepted(n)
             \/ \E c \in Conn : TransitConnect(n, c)
      PROVE  Silent(k)'
  <2>1. Upper /\ UNCHANGED wire
    BY <1>7
       DEF ConfigComplete, TransitIdle, TransitAccepted, TransitConnect,
           csmVars, netVars
  <2> QED
    BY <1>2, <2>1
<1>8. ASSUME NEW n \in Node, ReadMsg(n)
      PROVE  Silent(k)'
  <2> DEFINE c == sock[n]
             q == wire[c][n]
  <2>1. /\ c \in Conn /\ q # << >> /\ Silent(n) /\ UNCHANGED <<app, mlacp>>
    BY <1>0, <1>8 DEF ReadMsg, TypeOK, SilentInv
  <2>2. q \in Seq(NoData)
    BY <2>1 DEF Silent
  <2>3. Head(q) \in NoData /\ Tail(q) \in Seq(NoData)
    <3> HIDE DEF q
    <3> QED
      BY <2>1, <2>2, SMT
  <2>4. UNCHANGED mlacp_list
    BY <1>8, <2>3 DEF ReadMsg, NoData
  <2>5. \A d \in Conn : wire'[d][k] \in {wire[d][k], Tail(q)}
    BY <1>0, <1>8, <2>1 DEF ReadMsg, TypeOK
  <2> HIDE DEF q, c
  <2> QED
    BY <1>1, <2>1, <2>3, <2>4, <2>5 DEF Silent
<1>9. ASSUME NEW n \in Node, TransitSession(n)
      PROVE  Silent(k)'
  <2> DEFINE i1 == IF msg_list[n] # << >>
                   THEN CorrespondFromMsg(n, info[n], Head(msg_list[n]))
                   ELSE info[n]
             s == NextState(state[n], i1)
             i2 == IF msg_list[n] # << >> \/ s # state[n]
                   THEN EnterState(s, i1) ELSE i1
             operational == app[n] = "OPERATIONAL" \/ s = "OPERATIONAL"
             iccp == PrepareIccpMsg(n, state[n], i1)
  <2>1. /\ state' = [state EXCEPT ![n] = s]
        /\ app' = [app EXCEPT ![n] = IF operational THEN "OPERATIONAL" ELSE @]
        /\ mlacp' = [mlacp EXCEPT ![n] = @ \/ operational]
        /\ mlacp_list' = [mlacp_list EXCEPT ![n] =
                            IF operational THEN << >> ELSE @]
        /\ \E ms \in AppMessages(n, i2, operational) :
             WireSend(n, IF i1.status # "OK" /\ ~Room(n) THEN ms ELSE iccp \o ms)
    BY <1>9 DEF TransitSession
  <2>2. Silent(n) /\ state'[n] # "OPERATIONAL"
    BY <1>0 DEF SilentInv, MismatchInv
  <2>3. ~operational
    <3> HIDE DEF s
    <3> QED
      BY <1>0, <2>1, <2>2 DEF Silent, TypeOK
  <2>4. i1 \in Info
    <3>1. msg_list[n] \in Seq(Msg) /\ info[n] \in Info
      BY <1>0 DEF TypeOK
    <3>2. msg_list[n] # << >> => Head(msg_list[n]) \in Msg
      BY <3>1, SMT
    <3> QED
      BY <3>1, <3>2, CorrespondFromMsgType
  <2>5. AppMessages(n, i2, operational) = {<< >>}
    BY <2>3 DEF AppMessages
  <2> HIDE DEF i1, s, i2, operational
  <2>6. iccp \in Seq(NoData)
    <3>1. \A t \in MsgType : t # "RG_APP_DATA" => PrepareMsg(n, i1, t) \in NoData
      <4>1. \A t \in MsgType : PrepareMsg(n, i1, t) \in Msg
        BY <2>4, PrepareMsgType
      <4>2. \A t \in MsgType : PrepareMsg(n, i1, t).type = t
        BY DEF PrepareMsg
      <4> QED
        BY <4>1, <4>2 DEF NoData
    <3>2. \A t \in MsgType :
            t # "RG_APP_DATA" => <<PrepareMsg(n, i1, t)>> \in Seq(NoData)
      BY <3>1, SMT
    <3>3. state[n] \in State
      BY <1>0 DEF TypeOK
    <3> QED
      BY <1>1, <3>2, <3>3 DEF PrepareIccpMsg, MsgType, State
  <2>7. PICK out \in Seq(NoData) : WireSend(n, out)
    <3>1. iccp \o << >> \in Seq(NoData)
      BY <1>1, <2>6, Concatenation
    <3> HIDE DEF iccp
    <3> QED
      BY <1>1, <2>1, <2>5, <3>1
  <2>8. \A d \in Conn : wire'[d][k] \in {wire[d][k], wire[d][k] \o out}
    <3>1. \A d \in Conn : wire[d] \in [Node -> Seq(Msg)]
      BY <1>0 DEF TypeOK
    <3> QED
      BY <2>7, <3>1 DEF WireSend
  <2>9. \A d \in Conn : wire'[d][k] \in Seq(NoData)
    <3>1. \A d \in Conn : wire[d][k] \in Seq(NoData)
      BY <1>1 DEF Silent
    <3>2. \A d \in Conn : wire[d][k] \o out \in Seq(NoData)
      BY <3>1, Concatenation
    <3> QED
      BY <2>8, <3>1, <3>2
  <2>10. app'[k] = app[k] /\ mlacp'[k] = mlacp[k] /\ mlacp_list'[k] = mlacp_list[k]
    <3> HIDE DEF operational, s, iccp, i2
    <3> QED
      BY <1>0, <2>1, <2>3, SMT DEF TypeOK
  <2> QED
    BY <1>1, <2>9, <2>10 DEF Silent
<1> QED
  BY <1>4, <1>5, <1>6, <1>7, <1>8, <1>9 DEF Next, Read, Transit

\* The state machines never outlive the socket or one another, and no
\* application message is queued before the peers are OPERATIONAL: the branches
\* of iccp_csm_transit, app_csm_transit and mlacp_fsm_transit for that case are
\* never taken, whatever is lost, restarted or reconfigured.
THEOREM SocketBacksStateAlways == Spec => []SocketBacksState
<1> DEFINE Socket == \A n \in Node : state[n] # "NONEXISTENT" => sock[n] # None
           Upper == \A n \in Node : Layers(n)
<1>1. Spec => []Socket
  <2>1. SessionInv => Socket
    BY DEF SessionInv, Backed
  <2> QED
    BY <2>1, SessionAlways, PTL
<1>2. Spec => []Upper
  <2>1. CASE RgId[Active] = RgId[Standby]
    <3>1. Init => OrderInv
      <4> SUFFICES ASSUME Init PROVE OrderInv
        OBVIOUS
      <4>1. TypeOK
        BY BoundAssumption, InfoResetType, SMT DEF Init, TypeOK, State
      <4>2. SessionInv
        BY <4>1, SMT
           DEF Init, SessionInv, Idle, Backed, Ends, Queue, OneConnection,
               Node
      <4>3. << >> \in Seq(Good) /\ << >> \in Seq(Bits) /\ << >> \in Seq(Caps)
        BY SMT
      <4>4. HandshakeInv
        BY <4>2, <4>3 DEF Init, HandshakeInv, Healthy, Unconnected, InfoReset
      <4>5. Held
        BY DEF Init, Held
      <4>6. \A n \in Node : Layers(n) /\ Pace(n) /\ Flags(n) /\ Sent(n)
        BY SMT DEF Init, Layers, Pace, Flags, Sent
      <4>7. \A n \in Node : InOrder(n)
        BY <4>3 DEF Init, InOrder
      <4> QED
        BY <4>4, <4>5, <4>6, <4>7 DEF OrderInv
    <3>2. OrderInv /\ [Next]_vars => OrderInv'
      BY <2>1, OrderStep
    <3>3. OrderInv => Upper
      BY DEF OrderInv
    <3> QED
      BY <3>1, <3>2, <3>3, PTL DEF Spec
  <2>2. CASE RgId[Active] # RgId[Standby]
    <3>1. Init => SilentInv
      <4> SUFFICES ASSUME Init PROVE SilentInv
        OBVIOUS
      <4>1. TypeOK
        BY BoundAssumption, InfoResetType, SMT DEF Init, TypeOK, State
      <4>2. << >> \in Seq(NoData) /\ \A p \in Node : << >> \in Seq(FromPeer(p))
        BY SMT
      <4>3. MismatchInv
        BY <4>1, <4>2 DEF Init, MismatchInv, InfoReset
      <4> QED
        BY <4>2, <4>3 DEF Init, SilentInv, Silent
    <3>2. SilentInv /\ [Next]_vars => SilentInv'
      BY <2>2, SilentStep
    <3>3. SilentInv => Upper
      BY DEF SilentInv, Silent, Layers
    <3> QED
      BY <3>1, <3>2, <3>3, PTL DEF Spec
  <2> QED
    BY <2>1, <2>2
<1>3. Socket /\ Upper => SocketBacksState
  BY DEF Layers, SocketBacksState
<1> QED
  BY <1>1, <1>2, <1>3, PTL
=============================================================================

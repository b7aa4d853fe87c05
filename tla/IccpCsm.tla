------------------------------ MODULE IccpCsm ------------------------------
(***************************************************************************)
(* The connection layer of iccpd: the TCP session between the two MLAG     *)
(* peers (scheduler.c), the ICCP connection state machine (iccp_csm.c) and *)
(* the application state machine (app_csm.c) that opens the session to     *)
(* mLACP.                                                                  *)
(*                                                                         *)
(* Each daemon runs one loop: one epoll batch (iccp_handle_events), then   *)
(* one pass over the state machines (scheduler_transit_fsm).  In a batch   *)
(* the peer socket is serviced at most once, and a socket accepted in the  *)
(* batch is not serviced before the pass: polled[n] records both.          *)
(***************************************************************************)
EXTENDS Naturals, Sequences, FiniteSets

CONSTANTS
  Active,     \* the peer with the lower address: TCP client, role active
  Standby,    \* the other peer: TCP server, role standby
  Conn,       \* identities of TCP connections
  None,       \* sock_fd <= 0
  RgId,       \* the redundancy group (MLAG domain id) each peer is configured with
  MaxFaults,  \* bound: time-outs, restarts and configuration changes
  MaxWire     \* bound: application messages and NAKs are sent only while fewer
              \* messages than this are in flight to the peer

Node == {Active, Standby}

ASSUME NodeAssumption == Active # Standby
ASSUME ConnAssumption == None \notin Conn
ASSUME RgAssumption == DOMAIN RgId = Node
ASSUME BoundAssumption == MaxFaults \in Nat /\ MaxWire \in Nat

VARIABLES
  state,       \* csm->current_state
  app,         \* csm->app_csm.current_state
  info,        \* csm->iccp_info: the four handshake flags and the status code
  sock,        \* csm->sock_fd
  polled,      \* the peer socket has been serviced in the current epoll batch
  msg_list,    \* csm->msg_list: messages for the connection state machine
  mlacp_list,  \* MLACP(csm).mlacp_msg_list: messages for mLACP
  mlacp,       \* MLACP(csm).current_state is not MLACP_STATE_INIT
  config,      \* scheduler_check_csm_config succeeds: domain, addresses and
               \* peer-link interface are there
  wire,        \* wire[c][n]: the bytes of connection c on their way to n
  open,        \* open[c]: the ends of connection c that are not closed
  backlog,     \* connections the standby's kernel holds for accept()
  faults       \* faults left

csmVars == <<state, app, info, msg_list, mlacp_list, mlacp>>
netVars == <<wire, open, backlog>>
vars == <<state, app, info, sock, polled, msg_list, mlacp_list, mlacp, config,
          wire, open, backlog, faults>>

State == {"NONEXISTENT", "INITIALIZED", "CAPSENT", "CAPREC", "CONNECTING",
          "OPERATIONAL"}
Status == {"OK", "U_ICCP_RG", "RG_REMOVED"}
Info == [sender_capability : BOOLEAN, peer_capability : BOOLEAN,
         sender_rg_connect : BOOLEAN, peer_rg_connect : BOOLEAN,
         status : Status]
MsgType == {"CAPABILITY", "RG_CONNECT", "RG_DISCONNECT", "NOTIFICATION",
            "RG_APP_DATA"}
Msg == [type : MsgType, rg : {RgId[n] : n \in Node}, s_bit : BOOLEAN,
        code : Status]

Peer(n) == IF n = Active THEN Standby ELSE Active

InfoReset == [sender_capability |-> FALSE, peer_capability |-> FALSE,
              sender_rg_connect |-> FALSE, peer_rg_connect |-> FALSE,
              status |-> "OK"]

Init ==
  /\ state = [n \in Node |-> "NONEXISTENT"]
  /\ app = [n \in Node |-> "NONEXISTENT"]
  /\ info = [n \in Node |-> InfoReset]
  /\ sock = [n \in Node |-> None]
  /\ polled = [n \in Node |-> FALSE]
  /\ msg_list = [n \in Node |-> << >>]
  /\ mlacp_list = [n \in Node |-> << >>]
  /\ mlacp = [n \in Node |-> FALSE]
  /\ config \in [Node -> BOOLEAN]
  /\ wire = [c \in Conn |-> [n \in Node |-> << >>]]
  /\ open = [c \in Conn |-> {}]
  /\ backlog = << >>
  /\ faults = MaxFaults

-----------------------------------------------------------------------------
(* Messages of the connection state machine.                               *)

\* Every header carries the sender's redundancy group; a capability message
\* carries s_bit, a disconnect message the status code.
PrepareMsg(n, i, t) ==
  [type |-> t, rg |-> RgId[n], s_bit |-> i.sender_capability,
   code |-> i.status]

\* iccp_csm_prepare_iccp_msg: what is written in state s, if anything.
PrepareIccpMsg(n, s, i) ==
  CASE s = "INITIALIZED" -> <<PrepareMsg(n, i, "CAPABILITY")>>
    [] s = "CAPREC" /\ i.status # "OK" -> <<PrepareMsg(n, i, "NOTIFICATION")>>
    [] s = "CAPREC" /\ i.status = "OK" -> <<PrepareMsg(n, i, "RG_CONNECT")>>
    [] s = "CONNECTING" /\ i.status # "OK" ->
         <<PrepareMsg(n, i, "NOTIFICATION")>>
    [] s = "OPERATIONAL" /\ ~i.peer_rg_connect ->
         <<PrepareMsg(n, i, "RG_DISCONNECT")>>
    [] OTHER -> << >>

\* Mutant: the group of a connect message is not looked at.
CheckIdFromMsg_NotConnect(n, i, m) ==
  IF m.type \notin {"CAPABILITY", "RG_CONNECT"} /\ m.rg # RgId[n]
  THEN [i EXCEPT !.status = "U_ICCP_RG"] ELSE i

\* iccp_csm_check_id_from_msg: a message of another redundancy group sets the
\* status code, one of the own group clears it.
CheckIdFromMsg(n, i, m) ==
  IF m.type = "CAPABILITY" THEN i
  ELSE IF m.rg # RgId[n] THEN [i EXCEPT !.status = "U_ICCP_RG"]
  ELSE IF i.status = "U_ICCP_RG" THEN [i EXCEPT !.status = "OK"]
  ELSE i

\* Mutant: a capability message counts as a connect message too.
CorrespondFromMsg_CapIsConnect(n, i0, m) ==
  LET i == CheckIdFromMsg(n, i0, m) IN
  CASE m.type = "CAPABILITY" -> [i EXCEPT !.peer_capability = TRUE,
                                          !.peer_rg_connect = TRUE]
    [] m.type = "RG_CONNECT" -> [i EXCEPT !.peer_rg_connect = TRUE]
    [] OTHER -> i

\* iccp_csm_correspond_from_msg: a message of another group still sets the
\* flag it stands for.
CorrespondFromMsg(n, i0, m) ==
  LET i == CheckIdFromMsg(n, i0, m) IN
  CASE m.type = "CAPABILITY" /\ m.s_bit -> [i EXCEPT !.peer_capability = TRUE]
    [] m.type = "RG_CONNECT" -> [i EXCEPT !.peer_rg_connect = TRUE]
    [] m.type = "RG_DISCONNECT" /\ m.code = "RG_REMOVED" ->
         [i EXCEPT !.sender_rg_connect = FALSE, !.peer_rg_connect = FALSE]
    [] OTHER -> i

\* The switch of iccp_csm_transit: the state that follows s.
NextState(s, i) ==
  CASE s = "INITIALIZED" ->
         IF ~i.sender_capability THEN s
         ELSE IF i.peer_capability THEN "CAPREC" ELSE "CAPSENT"
    [] s = "CAPSENT" ->
         IF i.sender_capability /\ i.peer_capability THEN "CAPREC" ELSE s
    [] s = "CAPREC" ->
         IF i.status # "OK" THEN s
         ELSE IF i.peer_rg_connect THEN "OPERATIONAL" ELSE "CONNECTING"
    [] s = "CONNECTING" ->
         IF i.status # "OK" THEN "CAPREC"
         ELSE IF i.peer_rg_connect THEN "OPERATIONAL" ELSE s
    [] s = "OPERATIONAL" ->
         IF i.sender_rg_connect /\ i.peer_rg_connect THEN s ELSE "CAPREC"
    [] OTHER -> s

\* The iccp_csm_enter_state_* handlers.
EnterState(s, i) ==
  CASE s = "INITIALIZED" -> [i EXCEPT !.sender_capability = TRUE]
    [] s = "CAPREC" -> [i EXCEPT !.sender_capability = TRUE,
                                 !.peer_capability = TRUE]
    [] s = "CONNECTING" -> [i EXCEPT !.sender_rg_connect = TRUE]
    [] s = "OPERATIONAL" -> [i EXCEPT !.sender_rg_connect = TRUE,
                                      !.peer_rg_connect = TRUE]
    [] OTHER -> i

-----------------------------------------------------------------------------
(* TCP: external, as the calls in scheduler.c use it.                      *)

\* close(): what is in flight to the closing end is lost.
CloseEnds(n, C) ==
  /\ open' = [c \in Conn |-> IF c \in C THEN open[c] \ {n} ELSE open[c]]
  /\ wire' = [c \in Conn |-> IF c \in C THEN [wire[c] EXCEPT ![n] = << >>]
                             ELSE wire[c]]

\* The two kinds of message that are sent again and again (a NAK in every pass,
\* application data at will) stop at the bound.
Room(n) == Len(wire[sock[n]][Peer(n)]) < MaxWire

\* write(): lost when the other end is closed.
WireSend(n, ms) ==
  wire' = [c \in Conn |->
             IF c = sock[n] /\ Peer(n) \in open[c]
             THEN [wire[c] EXCEPT ![Peer(n)] = @ \o ms] ELSE wire[c]]

FreeConn(c) == open[c] = {} /\ \A i \in 1..Len(backlog) : backlog[i] # c

-----------------------------------------------------------------------------
(* scheduler_session_disconnect_handler: close the socket, reset the       *)
(* connection and application state machines and drop every queue.         *)

\* Mutant: app_csm_init is not called.
StatusReset_KeepsApp(n) ==
  /\ state' = [state EXCEPT ![n] = "NONEXISTENT"]
  /\ info' = [info EXCEPT ![n] = InfoReset]
  /\ msg_list' = [msg_list EXCEPT ![n] = << >>]
  /\ UNCHANGED <<app, mlacp_list, mlacp>>

\* Mutant: msg_list is not reinitialised.
StatusReset_KeepsMsgs(n) ==
  /\ state' = [state EXCEPT ![n] = "NONEXISTENT"]
  /\ app' = [app EXCEPT ![n] = "NONEXISTENT"]
  /\ info' = [info EXCEPT ![n] = InfoReset]
  /\ mlacp_list' = [mlacp_list EXCEPT ![n] = << >>]
  /\ mlacp' = [mlacp EXCEPT ![n] = FALSE]
  /\ UNCHANGED msg_list

\* Mutant: the handshake flags survive the session.
StatusReset_KeepsInfo(n) ==
  /\ state' = [state EXCEPT ![n] = "NONEXISTENT"]
  /\ app' = [app EXCEPT ![n] = "NONEXISTENT"]
  /\ msg_list' = [msg_list EXCEPT ![n] = << >>]
  /\ mlacp_list' = [mlacp_list EXCEPT ![n] = << >>]
  /\ mlacp' = [mlacp EXCEPT ![n] = FALSE]
  /\ UNCHANGED info

\* iccp_csm_status_reset, app_csm_init and mlacp_init.
StatusReset(n) ==
  /\ state' = [state EXCEPT ![n] = "NONEXISTENT"]
  /\ app' = [app EXCEPT ![n] = "NONEXISTENT"]
  /\ info' = [info EXCEPT ![n] = InfoReset]
  /\ msg_list' = [msg_list EXCEPT ![n] = << >>]
  /\ mlacp_list' = [mlacp_list EXCEPT ![n] = << >>]
  /\ mlacp' = [mlacp EXCEPT ![n] = FALSE]

SessionDisconnect(n) ==
  /\ CloseEnds(n, {sock[n]})
  /\ sock' = [sock EXCEPT ![n] = None]
  /\ StatusReset(n)

-----------------------------------------------------------------------------
(* The epoll batch.                                                        *)

\* Mutant: the rejected connection is not closed.
RejectClient_Leak(c) == UNCHANGED <<wire, open>>

\* The reject_client exit of scheduler_server_accept.
RejectClient(c) == CloseEnds(Standby, {c})

\* scheduler_server_accept: a second connection from the peer is rejected, and
\* so is one that arrives while the configuration is incomplete.
Accept ==
  /\ backlog # << >>
  /\ LET c == Head(backlog) IN
       IF sock[Standby] # None \/ ~config[Standby]
       THEN /\ RejectClient(c)
            /\ UNCHANGED <<sock, polled, state>>
       ELSE /\ sock' = [sock EXCEPT ![Standby] = c]
            /\ state' = [state EXCEPT ![Standby] = "NONEXISTENT"]
            /\ polled' = [polled EXCEPT ![Standby] = TRUE]
            /\ UNCHANGED <<wire, open>>
  /\ backlog' = Tail(backlog)
  /\ UNCHANGED <<app, info, msg_list, mlacp_list, mlacp, config, faults>>

\* scheduler_csm_read_callback: one whole message, queued for the layer it
\* belongs to.
ReadMsg(n) ==
  /\ sock[n] # None
  /\ ~polled[n]
  /\ wire[sock[n]][n] # << >>
  /\ LET m == Head(wire[sock[n]][n]) IN
       IF m.type = "RG_APP_DATA"
       THEN /\ mlacp_list' = [mlacp_list EXCEPT ![n] = Append(@, m)]
            /\ UNCHANGED msg_list
       ELSE /\ msg_list' = [msg_list EXCEPT ![n] = Append(@, m)]
            /\ UNCHANGED mlacp_list
  /\ wire' = [wire EXCEPT ![sock[n]][n] = Tail(@)]
  /\ polled' = [polled EXCEPT ![n] = TRUE]
  /\ UNCHANGED <<state, app, info, sock, mlacp, config, open, backlog, faults>>

\* The same callback when the peer has closed: end of file, or a reset that
\* overtakes what was still in flight.
ReadError(n) ==
  /\ sock[n] # None
  /\ ~polled[n]
  /\ Peer(n) \notin open[sock[n]]
  /\ SessionDisconnect(n)
  /\ polled' = [polled EXCEPT ![n] = TRUE]
  /\ UNCHANGED <<config, backlog, faults>>

\* The peer-link interface is deleted (local_if_destroy), or the operator sets
\* or removes the peer link, the local or the peer address: the session is
\* dropped whether the configuration is complete afterwards or not.
ConfigChange(n) ==
  /\ config[n]
  /\ faults > 0
  /\ \E complete \in BOOLEAN : config' = [config EXCEPT ![n] = complete]
  /\ SessionDisconnect(n)
  /\ faults' = faults - 1
  /\ UNCHANGED <<polled, backlog>>

\* What was missing is there again: local_if_create of the peer-link
\* interface, or an address set where there was none.
ConfigComplete(n) ==
  /\ ~config[n]
  /\ config' = [config EXCEPT ![n] = TRUE]
  /\ UNCHANGED <<csmVars, sock, polled, netVars, faults>>

-----------------------------------------------------------------------------
(* The pass over the state machines: scheduler_transit_fsm.                *)

\* heartbeat_check: the peer has been silent for session_timeout.
HeartbeatTimeout(n) ==
  /\ sock[n] # None
  /\ faults > 0
  /\ SessionDisconnect(n)
  /\ polled' = [polled EXCEPT ![n] = FALSE]
  /\ faults' = faults - 1
  /\ UNCHANGED <<config, backlog>>

\* iccp_csm_transit in NONEXISTENT without a socket: scheduler_prepare_session
\* does not connect (server side, incomplete configuration, connect interval
\* not over, or connect() failed).
TransitIdle(n) ==
  /\ sock[n] = None
  /\ polled[n]
  /\ polled' = [polled EXCEPT ![n] = FALSE]
  /\ UNCHANGED <<csmVars, sock, config, netVars, faults>>

\* The same state on the client side: session_client_conn_handler connects,
\* and the state machine enters INITIALIZED in the same pass.
TransitConnect(n, c) ==
  /\ n = Active
  /\ sock[n] = None
  /\ state[n] = "NONEXISTENT"
  /\ config[n]
  /\ FreeConn(c)
  /\ sock' = [sock EXCEPT ![n] = c]
  /\ open' = [open EXCEPT ![c] = Node]
  /\ backlog' = Append(backlog, c)
  /\ state' = [state EXCEPT ![n] = "INITIALIZED"]
  /\ info' = [info EXCEPT ![n] = EnterState("INITIALIZED", @)]
  /\ polled' = [polled EXCEPT ![n] = FALSE]
  /\ UNCHANGED <<app, msg_list, mlacp_list, mlacp, config, wire, faults>>

\* NONEXISTENT with the socket accept() left: a message dequeued in this
\* state is dropped.
TransitAccepted(n) ==
  /\ sock[n] # None
  /\ state[n] = "NONEXISTENT"
  /\ msg_list' = [msg_list EXCEPT ![n] = IF @ = << >> THEN @ ELSE Tail(@)]
  /\ IF config[n]
     THEN /\ state' = [state EXCEPT ![n] = "INITIALIZED"]
          /\ info' = [info EXCEPT ![n] = EnterState("INITIALIZED", @)]
     ELSE UNCHANGED <<state, info>>
  /\ polled' = [polled EXCEPT ![n] = FALSE]
  /\ UNCHANGED <<app, sock, mlacp_list, mlacp, config, netVars, faults>>

\* mlacp_fsm_transit as far as the session is concerned: once the application
\* is operational mLACP leaves MLACP_STATE_INIT, empties its queue and sends
\* (heartbeats, synchronisation data).
AppMessages(n, i, operational) ==
  IF operational /\ Room(n)
  THEN {<< >>, <<PrepareMsg(n, i, "RG_APP_DATA")>>} ELSE {<< >>}

\* iccp_csm_transit, app_csm_transit and mlacp_fsm_transit with a session.
TransitSession(n) ==
  /\ sock[n] # None
  /\ state[n] # "NONEXISTENT"
  /\ LET got == msg_list[n] # << >>
         i1 == IF got THEN CorrespondFromMsg(n, info[n], Head(msg_list[n]))
               ELSE info[n]
         s == NextState(state[n], i1)
         i2 == IF got \/ s # state[n] THEN EnterState(s, i1) ELSE i1
         operational == app[n] = "OPERATIONAL" \/ s = "OPERATIONAL"
     IN /\ state' = [state EXCEPT ![n] = s]
        /\ info' = [info EXCEPT ![n] = i2]
        /\ msg_list' = [msg_list EXCEPT ![n] = IF got THEN Tail(@) ELSE @]
        /\ app' = [app EXCEPT ![n] = IF operational THEN "OPERATIONAL" ELSE @]
        /\ mlacp' = [mlacp EXCEPT ![n] = @ \/ operational]
        /\ mlacp_list' = [mlacp_list EXCEPT ![n] =
                            IF operational THEN << >> ELSE @]
        /\ \E ms \in AppMessages(n, i2, operational) :
             LET iccp == PrepareIccpMsg(n, state[n], i1) IN
             WireSend(n, IF i1.status # "OK" /\ ~Room(n) THEN ms
                         ELSE iccp \o ms)
  /\ polled' = [polled EXCEPT ![n] = FALSE]
  /\ UNCHANGED <<sock, config, open, backlog, faults>>

-----------------------------------------------------------------------------
(* The daemon dies and is started again: the kernel closes its sockets.    *)
Restart(n) ==
  /\ faults > 0
  /\ CloseEnds(n, {sock[n]} \cup
                  IF n = Standby THEN {backlog[i] : i \in 1..Len(backlog)}
                  ELSE {})
  /\ backlog' = IF n = Standby THEN << >> ELSE backlog
  /\ sock' = [sock EXCEPT ![n] = None]
  /\ StatusReset(n)
  /\ polled' = [polled EXCEPT ![n] = FALSE]
  /\ faults' = faults - 1
  /\ UNCHANGED config

Read(n) == ReadMsg(n) \/ ReadError(n)

Transit(n) ==
  \/ TransitIdle(n)
  \/ \E c \in Conn : TransitConnect(n, c)
  \/ TransitAccepted(n)
  \/ TransitSession(n)

Next ==
  \/ Accept
  \/ \E n \in Node : \/ Read(n)
                     \/ Transit(n)
                     \/ ConfigChange(n)
                     \/ ConfigComplete(n)
                     \/ HeartbeatTimeout(n)
                     \/ Restart(n)

Spec == Init /\ [][Next]_vars

\* The loop of each daemon runs for ever: its socket is polled, its pass is
\* made, the listening socket is serviced.  An operator completes an
\* incomplete configuration.
Fairness ==
  /\ WF_vars(Accept)
  /\ \A n \in Node : /\ WF_vars(Read(n))
                     /\ WF_vars(Transit(n))
                     /\ WF_vars(ConfigComplete(n))

FairSpec == Spec /\ Fairness
=============================================================================

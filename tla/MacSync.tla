------------------------------ MODULE MacSync ------------------------------
(***************************************************************************)
(* How the two daemons of an MLAG pair keep one dynamic MAC address of one *)
(* VLAN in step: each learns it and forgets it from its own switch         *)
(* (mclagsyncd), tells the peer, and programs the switch with what the     *)
(* peer learned, on the MLAG port-channel if it is up and else on the peer *)
(* link.  The age flags of an entry say who does not have the address any  *)
(* more; an entry both have aged is removed.                               *)
(*                                                                         *)
(* A switch has a port-channel of the MLAG domain ("po"), an orphan port   *)
(* that has the same name on both ("eth") and may have a peer link.        *)
(* The session below is reduced to what the MAC table sees of it: the      *)
(* synchronisation, in which each peer learns the port-channel state of    *)
(* the other, and an ordered channel.  A message is handled, and what the  *)
(* handler queued is sent, in one step: a pass of mlacp_fsm_transit.       *)
(***************************************************************************)
EXTENDS Naturals, Sequences

CONSTANTS
  Active,   \* the peer of role STP_ROLE_ACTIVE
  Standby,  \* the peer of role STP_ROLE_STANDBY
  PeerItfs, \* the names the peer link may have, "" if none is configured
  Budgets   \* bounds: how often each kind of event may happen

ASSUME NodeAssumption == Active # Standby
ASSUME PeerItfAssumption == {"po", "eth"} \cap PeerItfs = {}

Node == {Active, Standby}
Peer(n) == IF n = Active THEN Standby ELSE Active

VARIABLES
  node,  \* node[n]: the MAC table and the ports of n, and a history (silent)
  chan,  \* chan[n]: messages sent to n and not handled, oldest first
  left   \* what is left of the budget

vars == <<node, chan, left>>

Po == "po"
Orphan == "eth"
Both == {"local", "peer"}

\* struct MACMsg.  age holds the MAC_AGE_ flags.
NoEntry == [ifname |-> "", origin |-> "", age |-> {}, pending |-> FALSE,
            op |-> "none", add_to_syncd |-> FALSE]
Entry(i, age, op) ==
  [NoEntry EXCEPT !.ifname = i, !.origin = i, !.age = age, !.op = op]

\* The address is in mac_rb.
Known(s) == s.mac.origin # ""
PortUp(s, i) == IF i = Po THEN s.po ELSE s.eth
PeerLinkUp(s) == s.itf # "" /\ s.pl
Exchange(s) == s.st = "exchange"

MacInfo(op, i) == [kind |-> op, ifname |-> i, up |-> FALSE]
PoState(kind, up) == [kind |-> kind, ifname |-> Po, up |-> up]

-----------------------------------------------------------------------------
(* The table, mac_msg_list and MCLAG_FDB_TABLE.                            *)

\* iccp_send_fdb_entry_to_syncd: row is the port the table of mclagsyncd has.
AddToChip(s) == [s EXCEPT !.row = s.mac.ifname, !.mac.add_to_syncd = TRUE]
DelFromChip(s) == [s EXCEPT !.row = "none", !.mac.add_to_syncd = FALSE]

\* mac_msg_list holds the entry itself, once, until a pass sends what it says
\* by then; an entry that left mac_rb does not change any more.
InTree == MacInfo("entry", "")
Enqueue(s, op) ==
  [s EXCEPT !.mac.op = op, !.silent = FALSE,
            !.list = IF \E k \in DOMAIN @ : @[k] = InTree THEN @
                     ELSE Append(@, InTree)]
Content(s) ==
  [k \in DOMAIN s.list |-> IF s.list[k] = InTree
                           THEN MacInfo(s.mac.op, s.mac.origin) ELSE s.list[k]]

\* MAC_RB_REMOVE.
Remove(s) == [s EXCEPT !.mac = NoEntry, !.list = Content(s)]

\* set_mac_local_age_flag, with update_peer.
SetLocalAge(s) ==
  LET t == [s EXCEPT !.mac.age = @ \cup {"local"}]
  IN  IF "local" \notin s.mac.age /\ Exchange(s) THEN Enqueue(t, "DEL") ELSE t
ClearLocalAge(s) ==
  LET t == [s EXCEPT !.mac.age = @ \ {"local"}]
  IN  IF "local" \in s.mac.age /\ Exchange(s) THEN Enqueue(t, "ADD") ELSE t

MoveTo(s, i) == [s EXCEPT !.mac.ifname = i]

-----------------------------------------------------------------------------
(* The peer's messages.                                                    *)

\* The address is behind an orphan port of the peer, or behind the
\* port-channel which is down here.
Redirected(s, i) == i # Po \/ ~s.po

\* mlacp_fsm_update_mac_entry_from_peer, ADD of a known address.
PeerAddKnown(s, i) ==
  LET a == [s EXCEPT !.mac.age = @ \ {"peer"}]
      b == IF i = Po /\ a.mac.pending
           THEN Enqueue([a EXCEPT !.mac.pending = FALSE,
                                  !.mac.age = {"local"}], "DEL") ELSE a
      c == [b EXCEPT !.mac.origin = i]
      d == SetLocalAge(c)
      e == MoveTo(DelFromChip(d), i)
  IN  CASE b.mac.ifname = i /\ b.mac.origin = i ->
             IF i # Po /\ s.itf # "" THEN AddToChip(MoveTo(b, s.itf)) ELSE b
        [] b.mac.ifname # i \/ b.mac.origin # i ->
             IF ~Redirected(s, i) THEN AddToChip(MoveTo(c, i))
             ELSE IF s.itf = "" THEN (IF i = Po THEN e ELSE Remove(e))
             ELSE IF d.mac.ifname = s.itf THEN d
             ELSE AddToChip(MoveTo(d, s.itf))

\* ... ADD of a new address; add_to_syncd is set in a copy of the entry.
PeerAddNew(s, i) ==
  LET port == IF Redirected(s, i) /\ s.itf # "" THEN s.itf ELSE i
      t == MoveTo([s EXCEPT !.mac = Entry(i, {"local"}, "none")], port)
      usable == IF port = s.itf THEN PeerLinkUp(s) ELSE s.po
  IN  IF i # Po /\ s.itf = "" THEN s
      ELSE IF usable THEN [t EXCEPT !.row = port] ELSE t

\* Mutant: an address aged here is not marked as aged by the peer.
PeerDel_Crossing(s) ==
  IF Known(s) /\ "local" \notin s.mac.age
  THEN [s EXCEPT !.mac.age = @ \cup {"peer"}] ELSE s

\* ... DEL.
PeerDel(s) ==
  LET t == [s EXCEPT !.mac.age = @ \cup {"peer"}]
  IN  CASE ~Known(s) -> s
        [] Known(s) /\ t.mac.age = Both -> Remove(DelFromChip(t))
        [] Known(s) /\ t.mac.age # Both -> t

\* mlacp_convert_remote_mac_to_local.
ConvertRemote(s) ==
  IF Known(s) /\ s.po /\ s.mac.origin = Po /\ s.mac.age = {"local"}
  THEN Enqueue(AddToChip([s EXCEPT !.mac.age = {"peer"}]), "ADD") ELSE s

\* mlacp_fsm_update_Aggport_state.
AggportState(s, up) ==
  LET t == [s EXCEPT !.pif = IF up THEN "up" ELSE "down"]
  IN  IF Exchange(s) /\ ~up THEN ConvertRemote(t) ELSE t

-----------------------------------------------------------------------------
(* Port events.                                                            *)

\* update_l2_mac_state, port-channel down.
PoDownMac(s) ==
  LET d == SetLocalAge(s)
      redirect(t) == IF PeerLinkUp(s) THEN AddToChip(MoveTo(t, s.itf))
                     ELSE MoveTo(DelFromChip(t), s.itf)
  IN  CASE s.mac.age = {"peer"} /\ s.pif = "up" ->
             [redirect(s) EXCEPT !.mac.pending = TRUE]
        [] ~(s.mac.age = {"peer"} /\ s.pif = "up") ->
             IF d.mac.age = Both THEN Remove(DelFromChip(d))
             ELSE IF s.itf # "" THEN redirect(d) ELSE DelFromChip(d)

\* A pending entry is dropped; what is still to be sent of it is a DEL.  If
\* nothing is, the peer is not told that the daemon has lost the address; silent
\* records that, until the peer is told of the address again.
DropPending(s) ==
  LET untold == /\ "local" \notin s.mac.age
                /\ \A k \in DOMAIN s.list : s.list[k] # InTree
  IN  Remove([DelFromChip(s) EXCEPT !.mac.op = "DEL", !.silent = @ \/ untold])

\* Mutant: only a pending entry is taken back from the peer link.
PoUpMac_PendingOnly(s) ==
  IF s.mac.pending THEN DropPending(s) ELSE s

\* update_l2_mac_state, port-channel up.
PoUpMac(s) ==
  CASE s.mac.ifname = s.itf ->
         AddToChip(MoveTo([s EXCEPT !.mac.pending = FALSE], s.mac.origin))
    [] s.mac.ifname # s.itf -> IF s.mac.pending THEN DropPending(s) ELSE s

UpdateL2MacState(s) ==
  LET t == [s EXCEPT !.po_down_time = ~s.po]
  IN  IF s.mac.origin # Po THEN t
      ELSE IF s.po THEN PoUpMac(t) ELSE PoDownMac(t)

\* mlacp_portchannel_state_handler of a change.
PoChange(s) == UpdateL2MacState([s EXCEPT !.po = ~@, !.changed = TRUE])

\* update_orphan_port_mac.
EthChange(s) ==
  LET t == [s EXCEPT !.eth = ~@]
  IN  IF t.eth /\ s.mac.origin = Orphan /\ s.mac.age = {"peer"} /\ Exchange(s)
      THEN Enqueue(t, "ADD") ELSE t

\* mlacp_peerlink_up_handler and mlacp_peerlink_down_handler.
PeerLinkChange(s) ==
  LET t == [s EXCEPT !.pl = ~@]
      d == DelFromChip(IF s.mac.pending THEN t ELSE SetLocalAge(t))
  IN  IF ~(Known(s) /\ s.mac.ifname = s.itf) THEN t
      ELSE IF t.pl THEN AddToChip(t)
      ELSE IF d.mac.age = Both THEN Remove(d) ELSE d

-----------------------------------------------------------------------------
(* mclagsyncd: do_mac_update_from_syncd.                                   *)

\* MAC_SYNC_ADD on port i, address known.  del_mac_from_chip is called with a
\* copy, so that add_to_syncd stays.
LearnKnown(s, i) ==
  LET moved == s.mac.ifname # i \/ s.mac.origin # i
      t == ClearLocalAge([s EXCEPT !.mac.ifname = i, !.mac.origin = i])
  IN  IF i = Po /\ ~s.po /\ s.pif = "up"
      THEN AddToChip([s EXCEPT !.mac.pending = TRUE, !.mac.origin = i,
                               !.mac.ifname = s.itf])
      ELSE [t EXCEPT !.row = "none", !.mac.age = IF moved THEN {"peer"} ELSE @]

\* ... address new.  An address on a port that is down is kept and not sent;
\* for the port-channel a copy is redirected to the peer link.
LearnNew(s, i) ==
  LET t == [s EXCEPT !.mac = Entry(i, {"peer"}, "ADD")]
  IN  CASE PortUp(s, i) -> IF Exchange(s) THEN Enqueue(t, "ADD") ELSE t
        [] ~PortUp(s, i) /\ (i # Po \/ s.pif = "none") -> t
        [] ~PortUp(s, i) /\ i = Po /\ s.pif = "up" -> [t EXCEPT !.row = s.itf]
        [] ~PortUp(s, i) /\ i = Po /\ s.pif = "down" -> [s EXCEPT !.row = "none"]

\* MAC_SYNC_DEL reported for port i.
Forget(s, i) ==
  LET d == SetLocalAge(s)
      onLink == s.mac.ifname = s.itf
  IN  CASE onLink /\ s.mac.pending -> s
        [] ~(onLink /\ s.mac.pending) /\ d.mac.age = Both ->
             Remove(IF d.mac.add_to_syncd THEN DelFromChip(d) ELSE d)
        [] onLink /\ ~s.mac.pending /\ d.mac.age # Both ->
             IF PeerLinkUp(s) THEN AddToChip(d) ELSE d
        [] ~onLink /\ d.mac.age # Both ->
             IF i = Po /\ ~s.po
             THEN IF s.itf = "" THEN d
                  ELSE IF PeerLinkUp(s) THEN AddToChip(MoveTo(d, s.itf))
                  ELSE MoveTo(d, s.itf)
             ELSE IF PortUp(s, s.mac.ifname) THEN AddToChip(d) ELSE d

-----------------------------------------------------------------------------
(* The session.                                                            *)

\* mlacp_sync_mac.
SyncMac(s) ==
  IF Known(s) /\ "local" \notin s.mac.age THEN Enqueue(s, "ADD") ELSE s

\* mlacp_peer_conn_handler.
PeerConn(s) == UpdateL2MacState(SyncMac(s))

\* mlacp_peer_disconn_fdb_handler.
PeerDisconnFdb(s) ==
  LET t == [s EXCEPT !.mac.age = @ \cup {"peer"}]
  IN  CASE ~Known(s) -> s
        [] Known(s) /\ s.mac.ifname = s.itf ->
             IF t.mac.age = Both \/ s.mac.pending THEN Remove(DelFromChip(t))
             ELSE t
        [] Known(s) /\ s.mac.ifname # s.itf ->
             CASE s.mac.age = {} -> t
               [] s.mac.age = {"local"} ->
                    AddToChip([s EXCEPT !.mac.age = {"peer"}])
               [] OTHER -> s

\* scheduler_session_disconnect_handler, with mlacp_init.
SessionDisconnect(s) ==
  [PeerDisconnFdb(s) EXCEPT !.st = "off", !.pif = "none", !.list = << >>]

-----------------------------------------------------------------------------
(* Steps.                                                                  *)

\* The end of mlacp_exchange_handler: the state of the port-channel if it
\* changed, then mac_msg_list.
Written(s) ==
  IF Exchange(s)
  THEN (IF s.changed THEN <<PoState("STATE", s.po)>> ELSE << >>) \o Content(s)
  ELSE << >>
Flushed(s) == IF Exchange(s) THEN [s EXCEPT !.changed = FALSE, !.list = << >>] ELSE s

\* A peer whose session is off has closed the connection.
Deliver(ch, n, ms) ==
  IF node[n].st = "off" THEN ch ELSE [ch EXCEPT ![n] = @ \o ms]

Pass(n, s, reply, ch) ==
  /\ node' = [node EXCEPT ![n] = Flushed(s)]
  /\ chan' = Deliver(ch, Peer(n), reply \o Written(s))
  /\ left' = left

\* The peers connect; the active one sends what it has and waits.
Connect ==
  /\ \A n \in Node : node[n].st = "off"
  /\ node' = [n \in Node |->
                [node[n] EXCEPT !.st = "sync", !.silent = FALSE,
                                !.changed = IF n = Active THEN FALSE ELSE @]]
  /\ chan' = [n \in Node |-> IF n = Standby
                             THEN <<PoState("SYNC", node[Active].po)>> ELSE << >>]
  /\ left' = left

\* The synchronisation data: the standby peer answers with its own, and both
\* go on to MLACP_STATE_EXCHANGE.
EnterExchange(n, up) ==
  LET s == [AggportState(node[n], up) EXCEPT !.st = "exchange"]
      mine == IF n = Standby THEN <<PoState("SYNC", s.po)>> ELSE << >>
  IN  Pass(n, PeerConn([s EXCEPT !.changed = IF n = Standby THEN FALSE ELSE @]),
           mine, [chan EXCEPT ![n] = Tail(@)])

Handled(s, m) ==
  CASE m.kind = "ADD" -> IF Known(s) THEN PeerAddKnown(s, m.ifname)
                         ELSE PeerAddNew(s, m.ifname)
    [] m.kind = "DEL" -> PeerDel(s)
    [] m.kind = "STATE" -> AggportState(s, m.up)
    [] OTHER -> s

\* A pass with a message.
Receive(n) ==
  /\ node[n].st # "off" /\ chan[n] # << >>
  /\ LET m == Head(chan[n])
     IN  IF m.kind = "SYNC" THEN EnterExchange(n, m.up)
         ELSE Pass(n, Handled(node[n], m), << >>, [chan EXCEPT ![n] = Tail(@)])

\* A pass without one.
Send(n) ==
  /\ Written(node[n]) # << >>
  /\ Pass(n, node[n], << >>, chan)

\* Everything queued or sent has arrived.
Quiet == \A n \in Node : chan[n] = << >> /\ Written(node[n]) = << >>

\* mlacp_local_lif_state_mac_handler, ten minutes after the port-channel went
\* down.  That is longer than any message is under way.
PendingTimer(n) ==
  LET s == [node[n] EXCEPT !.po_down_time = FALSE]
  IN  /\ s.st # "off" /\ ~s.po /\ node[n].po_down_time /\ Quiet
      /\ node' = [node EXCEPT ![n] = IF s.mac.origin = Po /\ s.mac.pending
                                     THEN DropPending(s) ELSE s]
      /\ UNCHANGED <<chan, left>>

\* The session is lost at n; what was on its way to n with it.
Disconnect(n) ==
  /\ node[n].st # "off"
  /\ IF node[Peer(n)].st = "off" THEN left' = left
     ELSE left.drops > 0 /\ left' = [left EXCEPT !.drops = @ - 1]
  /\ node' = [node EXCEPT ![n] = SessionDisconnect(@)]
  /\ chan' = [chan EXCEPT ![n] = << >>]

Local(n, s, kind) ==
  /\ left[kind] > 0
  /\ left' = [left EXCEPT ![kind] = @ - 1]
  /\ node' = [node EXCEPT ![n] = s]
  /\ chan' = chan

Learn(n, i) ==
  Local(n, IF Known(node[n]) THEN LearnKnown(node[n], i)
           ELSE LearnNew(node[n], i), "learns")
Age(n, i) == Known(node[n]) /\ Local(n, Forget(node[n], i), "ages")
PoEvent(n) == Local(n, PoChange(node[n]), "po")
EthEvent(n) == Local(n, EthChange(node[n]), "eth")
PeerLinkEvent(n) ==
  node[n].itf # "" /\ Local(n, PeerLinkChange(node[n]), "link")

Init ==
  /\ \E itf \in PeerItfs : node = [n \in Node |->
       [itf |-> itf, st |-> "off", pif |-> "none", po |-> TRUE, eth |-> TRUE,
        pl |-> TRUE, changed |-> FALSE, po_down_time |-> FALSE,
        mac |-> NoEntry, list |-> << >>, row |-> "none", silent |-> FALSE]]
  /\ chan = [n \in Node |-> << >>]
  /\ left \in Budgets

Next ==
  \/ Connect
  \/ \E n \in Node :
       \/ Receive(n)
       \/ Send(n)
       \/ PendingTimer(n)
       \/ Disconnect(n)
       \/ \E i \in {Po, Orphan} : Learn(n, i) \/ Age(n, i)
       \/ PoEvent(n)
       \/ EthEvent(n)
       \/ PeerLinkEvent(n)

Spec == Init /\ [][Next]_vars
=============================================================================

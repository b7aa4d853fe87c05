--------------------------- MODULE MacSyncProofs ---------------------------
(***************************************************************************)
(* Forwarding, AgeFlags and RemoteIsHeld hold for every budget and every   *)
(* set of names the peer link may have.                                    *)
(*                                                                         *)
(* The first two speak of one node, and every handler preserves them: a    *)
(* lemma for each helper says what it changes, and a lemma for each        *)
(* handler that the node it leaves is in order (Inv).                      *)
(*                                                                         *)
(* RemoteIsHeld speaks of both and of the end of an exchange.  FlightInv   *)
(* says what holds on the way: a daemon without the address whose peer     *)
(* keeps it, or will because an ADD is under way, has a DEL under way with *)
(* no ADD behind it.  For that a handler must queue a DEL last (Answered), *)
(* a DEL must make the peer forget, and nothing may be said before the     *)
(* synchronisation is over (Opening).                                      *)
(***************************************************************************)
EXTENDS MacSyncProps, TLAPS

\* A leaf is left to Zenon unless it names a prover: SMT where arithmetic or the
\* theory of sequences is needed, PTL for temporal logic.
USE Zenon

Ports == {"", Po, Orphan}
Ops == {"none", "ADD", "DEL"}
Kinds == Ops \cup {"entry", "STATE", "SYNC"}
Message == [kind : Kinds, ifname : Ports, up : BOOLEAN]
MacRec ==
  [ifname : Ports \cup PeerItfs, origin : Ports, age : SUBSET Both,
   pending : BOOLEAN, op : Ops, add_to_syncd : BOOLEAN]
NodeRec ==
  [itf : PeerItfs, st : {"off", "sync", "exchange"},
   pif : {"none", "up", "down"}, po : BOOLEAN, eth : BOOLEAN, pl : BOOLEAN,
   changed : BOOLEAN, po_down_time : BOOLEAN, mac : MacRec,
   list : Seq(Message), row : Ports \cup PeerItfs \cup {"none"},
   silent : BOOLEAN]

\* What a step leaves alone in a node, and in the address.
SamePorts(s, t) ==
  /\ t.itf = s.itf /\ t.st = s.st /\ t.pif = s.pif
  /\ t.po = s.po /\ t.eth = s.eth /\ t.pl = s.pl
SameMac(s, t) ==
  /\ t.mac.ifname = s.mac.ifname /\ t.mac.origin = s.mac.origin
  /\ t.mac.age = s.mac.age /\ t.mac.pending = s.mac.pending

\* Content replaces the entry in mac_msg_list by a message.
LEMMA ContentType ==
  ASSUME NEW s \in NodeRec
  PROVE  Content(s) \in Seq(Message)
<1>1. MacInfo(s.mac.op, s.mac.origin) \in Message
  BY DEF MacInfo, Message, Kinds, NodeRec, MacRec
<1>2. s.list \in Seq(Message)
  BY DEF NodeRec
<1>3. \A k \in 1..Len(s.list) : s.list[k] \in Message
  BY <1>2, SMT
<1>4. DOMAIN s.list = 1..Len(s.list) /\ Len(s.list) \in Nat
  BY <1>2, SMT
<1>5. Content(s) \in [1..Len(s.list) -> Message]
  BY <1>1, <1>3, <1>4 DEF Content
<1> QED
  BY <1>4, <1>5, SMT

\* Queueing the entry changes what is to be sent of it and nothing else.
LEMMA EnqueueFacts ==
  ASSUME NEW s \in NodeRec, NEW op \in Ops
  PROVE  LET t == Enqueue(s, op) IN
         t \in NodeRec /\ SamePorts(s, t) /\ SameMac(s, t) /\ t.row = s.row
<1>1. InTree \in Message
  BY DEF InTree, MacInfo, Message, Kinds, Ports
<1>2. s.list \in Seq(Message) /\ Append(s.list, InTree) \in Seq(Message)
  BY <1>1, SMT DEF NodeRec
<1> DEFINE L == IF \E k \in DOMAIN s.list : s.list[k] = InTree THEN s.list
                ELSE Append(s.list, InTree)
           t == [s EXCEPT !.mac.op = op, !.silent = FALSE, !.list = L]
<1>3. Enqueue(s, op) = t
  BY DEF Enqueue
<1>4. L \in Seq(Message)
  BY <1>2
<1> HIDE DEF L
<1>5. t \in NodeRec /\ SamePorts(s, t) /\ SameMac(s, t) /\ t.row = s.row
  BY <1>4 DEF NodeRec, MacRec, SamePorts, SameMac
<1> QED
  BY <1>3, <1>5

\* MAC_RB_REMOVE leaves the ports and the row of mclagsyncd alone.
LEMMA RemoveFacts ==
  ASSUME NEW s \in NodeRec
  PROVE  LET t == Remove(s) IN
         t \in NodeRec /\ SamePorts(s, t) /\ t.row = s.row /\ t.mac = NoEntry
<1>1. NoEntry \in MacRec
  BY DEF NoEntry, MacRec, Ops, Ports
<1> DEFINE L == Content(s)
           t == [s EXCEPT !.mac = NoEntry, !.list = L]
<1>2. L \in Seq(Message)
  BY ContentType
<1> HIDE DEF L
<1>3. t \in NodeRec /\ SamePorts(s, t) /\ t.row = s.row /\ t.mac = NoEntry
  BY <1>1, <1>2 DEF NodeRec, SamePorts
<1> QED
  BY <1>3 DEF Remove, L

\* add_mac_to_chip writes the row for the port of the entry.
LEMMA AddFacts ==
  ASSUME NEW s \in NodeRec
  PROVE  LET t == AddToChip(s) IN
         /\ t \in NodeRec /\ SamePorts(s, t) /\ SameMac(s, t)
         /\ t.row = s.mac.ifname
  BY DEF AddToChip, NodeRec, MacRec, SamePorts, SameMac

\* del_mac_from_chip removes the row.
LEMMA DelFacts ==
  ASSUME NEW s \in NodeRec
  PROVE  LET t == DelFromChip(s) IN
         t \in NodeRec /\ SamePorts(s, t) /\ SameMac(s, t) /\ t.row = "none"
  BY DEF DelFromChip, NodeRec, MacRec, SamePorts, SameMac

\* Only the port of the entry changes.
LEMMA MoveFacts ==
  ASSUME NEW s \in NodeRec, NEW i \in Ports \cup PeerItfs
  PROVE  LET t == MoveTo(s, i) IN
         /\ t \in NodeRec /\ SamePorts(s, t) /\ t.row = s.row
         /\ t.mac.ifname = i /\ t.mac.origin = s.mac.origin
         /\ t.mac.age = s.mac.age /\ t.mac.pending = s.mac.pending
  BY DEF MoveTo, NodeRec, MacRec, SamePorts

\* set_mac_local_age_flag adds the flag, and may queue the entry.
LEMMA SetLocalFacts ==
  ASSUME NEW s \in NodeRec
  PROVE  LET t == SetLocalAge(s) IN
         /\ t \in NodeRec /\ SamePorts(s, t) /\ t.row = s.row
         /\ t.mac.ifname = s.mac.ifname /\ t.mac.origin = s.mac.origin
         /\ t.mac.pending = s.mac.pending
         /\ t.mac.age = s.mac.age \cup {"local"}
<1> DEFINE u == [s EXCEPT !.mac.age = @ \cup {"local"}]
<1>1. /\ u \in NodeRec /\ SamePorts(s, u) /\ u.row = s.row
      /\ u.mac.ifname = s.mac.ifname /\ u.mac.origin = s.mac.origin
      /\ u.mac.pending = s.mac.pending
      /\ u.mac.age = s.mac.age \cup {"local"}
  BY DEF NodeRec, MacRec, SamePorts, Both
<1>2. SetLocalAge(s) = u \/ SetLocalAge(s) = Enqueue(u, "DEL")
  BY DEF SetLocalAge
<1> HIDE DEF u
<1>3. LET t == Enqueue(u, "DEL") IN
      t \in NodeRec /\ SamePorts(u, t) /\ SameMac(u, t) /\ t.row = u.row
  BY <1>1, EnqueueFacts DEF Ops
<1> QED
  BY <1>1, <1>2, <1>3 DEF SamePorts, SameMac

\* ... and removes it, likewise.
LEMMA ClearLocalFacts ==
  ASSUME NEW s \in NodeRec
  PROVE  LET t == ClearLocalAge(s) IN
         /\ t \in NodeRec /\ SamePorts(s, t) /\ t.row = s.row
         /\ t.mac.ifname = s.mac.ifname /\ t.mac.origin = s.mac.origin
         /\ t.mac.pending = s.mac.pending
         /\ t.mac.age = s.mac.age \ {"local"}
<1> DEFINE u == [s EXCEPT !.mac.age = @ \ {"local"}]
<1>1. /\ u \in NodeRec /\ SamePorts(s, u) /\ u.row = s.row
      /\ u.mac.ifname = s.mac.ifname /\ u.mac.origin = s.mac.origin
      /\ u.mac.pending = s.mac.pending
      /\ u.mac.age = s.mac.age \ {"local"}
  BY DEF NodeRec, MacRec, SamePorts, Both
<1>2. ClearLocalAge(s) = u \/ ClearLocalAge(s) = Enqueue(u, "ADD")
  BY DEF ClearLocalAge
<1> HIDE DEF u
<1>3. LET t == Enqueue(u, "ADD") IN
      t \in NodeRec /\ SamePorts(u, t) /\ SameMac(u, t) /\ t.row = u.row
  BY <1>1, EnqueueFacts DEF Ops
<1> QED
  BY <1>1, <1>2, <1>3 DEF SamePorts, SameMac

-----------------------------------------------------------------------------
(* The handlers.                                                           *)

\* A node in order: Forwarding and AgeFlags, with its type.
Linked(s) == Known(s) /\ s.mac.ifname = s.itf /\ PeerLinkUp(s) => s.row = s.itf
OnPo(s) == Known(s) /\ s.mac.origin = Po =>
             s.mac.ifname = Po \/ (s.mac.ifname = s.itf /\ ~s.po)
Aged(s) == s.mac.age # Both /\ (Known(s) /\ s.st = "off" => s.mac.age = {"peer"})
InOrder(s) == s \in NodeRec /\ Linked(s) /\ OnPo(s) /\ Aged(s)

\* The names of the two ports are not the name of the peer link.
LEMMA ItfFacts ==
  ASSUME NEW s \in NodeRec
  PROVE  s.itf \in PeerItfs /\ s.itf # Po /\ s.itf # Orphan
  BY PeerItfAssumption DEF NodeRec, Po, Orphan

\* A table without the address is in order.
LEMMA RemovedInOrder ==
  ASSUME NEW s \in NodeRec
  PROVE  InOrder(Remove(s)) /\ SamePorts(s, Remove(s))
<1>1. NoEntry.age = {} /\ NoEntry.origin = "" /\ {} # Both
  BY DEF NoEntry, Both
<1> QED
  BY <1>1, RemoveFacts DEF InOrder, Linked, OnPo, Aged, Known

\* The address is redirected to the peer link, or its row removed and the
\* address kept there.
LEMMA OnLinkFacts ==
  ASSUME NEW s \in NodeRec
  PROVE  LET t == AddToChip(MoveTo(s, s.itf)) IN
         /\ t \in NodeRec /\ SamePorts(s, t)
         /\ t.mac.ifname = s.itf /\ t.mac.origin = s.mac.origin
         /\ t.mac.age = s.mac.age /\ t.mac.pending = s.mac.pending
         /\ t.row = s.itf
<1>1. s.itf \in PeerItfs
  BY ItfFacts
<1>2. LET m == MoveTo(s, s.itf) IN
      /\ m \in NodeRec /\ SamePorts(s, m)
      /\ m.mac.ifname = s.itf /\ m.mac.origin = s.mac.origin
      /\ m.mac.age = s.mac.age /\ m.mac.pending = s.mac.pending
  BY <1>1, MoveFacts
<1> QED
  BY <1>2, AddFacts DEF SamePorts, SameMac

\* ADD of the peer for a known address: an address that is redirected is in
\* the switch already or is added.
LEMMA PeerAddKnownInOrder ==
  ASSUME NEW s, InOrder(s), Known(s), s.st # "off", NEW i \in Ports
  PROVE  InOrder(PeerAddKnown(s, i)) /\ SamePorts(s, PeerAddKnown(s, i))
<1> DEFINE a == [s EXCEPT !.mac.age = @ \ {"peer"}]
           p == [a EXCEPT !.mac.pending = FALSE, !.mac.age = {"local"}]
           b == IF i = Po /\ a.mac.pending THEN Enqueue(p, "DEL") ELSE a
           c == [b EXCEPT !.mac.origin = i]
           d == SetLocalAge(c)
           f == DelFromChip(d)
           e == MoveTo(f, i)
<1>0. s \in NodeRec /\ Po # Orphan /\ Po # ""
  BY DEF InOrder, Linked, OnPo, Aged, Po, Orphan
<1>i. s.itf \in PeerItfs /\ (i = "" \/ s.itf # i) /\ s.itf # Po
  BY <1>0, ItfFacts DEF Ports
<1>a. /\ a \in NodeRec /\ SamePorts(s, a) /\ a.row = s.row
      /\ a.mac.ifname = s.mac.ifname /\ a.mac.origin = s.mac.origin
      /\ a.mac.age = s.mac.age \ {"peer"}
  BY <1>0 DEF NodeRec, MacRec, SamePorts, Both
<1> HIDE DEF a
<1>p. /\ p \in NodeRec /\ SamePorts(s, p) /\ p.row = s.row
      /\ p.mac.ifname = s.mac.ifname /\ p.mac.origin = s.mac.origin
      /\ p.mac.age = {"local"}
  BY <1>a DEF NodeRec, MacRec, SamePorts, Both
<1> HIDE DEF p
<1>q. LET t == Enqueue(p, "DEL") IN
      t \in NodeRec /\ SamePorts(p, t) /\ SameMac(p, t) /\ t.row = p.row
  BY <1>p, EnqueueFacts DEF Ops
<1>b. /\ b \in NodeRec /\ SamePorts(s, b) /\ b.row = s.row
      /\ b.mac.ifname = s.mac.ifname /\ b.mac.origin = s.mac.origin
      /\ "peer" \notin b.mac.age
  BY <1>a, <1>p, <1>q, SMT DEF SamePorts, SameMac
<1> HIDE DEF b
<1>c. /\ c \in NodeRec /\ SamePorts(s, c) /\ c.row = s.row
      /\ c.mac.ifname = s.mac.ifname /\ c.mac.origin = i
      /\ "peer" \notin c.mac.age
  BY <1>b, <1>0 DEF NodeRec, MacRec, SamePorts
<1> HIDE DEF c
<1>d. /\ d \in NodeRec /\ SamePorts(s, d) /\ d.row = s.row
      /\ d.mac.ifname = s.mac.ifname /\ d.mac.origin = i
      /\ "peer" \notin d.mac.age
  BY <1>c, SetLocalFacts, SMT DEF SamePorts
<1> HIDE DEF d
<1>f. f \in NodeRec /\ SamePorts(s, f) /\ SameMac(d, f)
  BY <1>d, DelFacts DEF SamePorts
<1> HIDE DEF f
<1>e. /\ e \in NodeRec /\ SamePorts(s, e)
      /\ e.mac.ifname = i /\ e.mac.origin = i /\ "peer" \notin e.mac.age
  <2>1. i \in Ports \cup PeerItfs
    OBVIOUS
  <2>2. /\ e \in NodeRec /\ SamePorts(f, e) /\ e.mac.ifname = i
        /\ e.mac.origin = f.mac.origin /\ e.mac.age = f.mac.age
    BY <1>f, <2>1, MoveFacts
  <2> HIDE DEF e
  <2>3. f.mac.origin = i /\ "peer" \notin f.mac.age
    BY <1>f, <1>d DEF SameMac
  <2>4. SamePorts(s, e)
    BY <1>f, <2>2 DEF SamePorts
  <2> QED
    BY <2>2, <2>3, <2>4
<1> HIDE DEF e
<1>1. CASE b.mac.ifname = i /\ b.mac.origin = i /\ i # Po /\ s.itf # ""
  <2>1. PeerAddKnown(s, i) = AddToChip(MoveTo(b, s.itf))
    BY <1>1 DEF PeerAddKnown, a, b, p
  <2> DEFINE t == AddToChip(MoveTo(b, b.itf))
  <2>2. PeerAddKnown(s, i) = t
    BY <2>1, <1>b DEF SamePorts
  <2>3. /\ t \in NodeRec /\ SamePorts(b, t) /\ t.mac.ifname = b.itf
        /\ t.mac.origin = i /\ t.mac.age = b.mac.age /\ t.row = b.itf
    BY <1>1, <1>b, OnLinkFacts
  <2> HIDE DEF t
  <2>4. SamePorts(s, t) /\ t.mac.origin # Po /\ t.row = t.itf
    BY <2>3, <1>1, <1>b DEF SamePorts
  <2> QED
    BY <2>2, <2>3, <2>4, <1>b DEF InOrder, Linked, OnPo, Aged, SamePorts, Both
<1>2. CASE b.mac.ifname = i /\ b.mac.origin = i /\ ~(i # Po /\ s.itf # "")
  <2>1. PeerAddKnown(s, i) = b
    BY <1>2 DEF PeerAddKnown, a, b, p
  <2> QED
    BY <2>1, <1>2, <1>b, <1>i
       DEF InOrder, Linked, OnPo, Aged, SamePorts, Both, Known
<1>3. CASE ~(b.mac.ifname = i /\ b.mac.origin = i)
  <2>0. PeerAddKnown(s, i) =
          IF ~Redirected(s, i) THEN AddToChip(MoveTo(c, i))
          ELSE IF s.itf = "" THEN (IF i = Po THEN e ELSE Remove(e))
          ELSE IF d.mac.ifname = s.itf THEN d
          ELSE AddToChip(MoveTo(d, s.itf))
    BY <1>3 DEF PeerAddKnown, a, b, c, d, e, f, p
  <2>1. CASE ~Redirected(s, i)
    <3>1. LET m == MoveTo(c, i) IN
          /\ m \in NodeRec /\ SamePorts(s, m)
          /\ m.mac.ifname = i /\ m.mac.origin = i /\ "peer" \notin m.mac.age
      <4>1. i \in Ports \cup PeerItfs
        OBVIOUS
      <4> QED
        BY <1>c, <4>1, MoveFacts DEF SamePorts
    <3>2. LET m == AddToChip(MoveTo(c, i)) IN
          /\ m \in NodeRec /\ SamePorts(s, m)
          /\ m.mac.ifname = i /\ m.mac.origin = i /\ "peer" \notin m.mac.age
      BY <3>1, AddFacts DEF SamePorts, SameMac
    <3> DEFINE t == AddToChip(MoveTo(c, i))
    <3>3. PeerAddKnown(s, i) = t
      BY <2>0, <2>1
    <3> HIDE DEF t
    <3>4. i = Po
      BY <2>1 DEF Redirected
    <3>5. /\ t \in NodeRec /\ SamePorts(s, t)
          /\ t.mac.ifname = Po /\ "peer" \notin t.mac.age
      BY <3>2, <3>4 DEF t
    <3> QED
      BY <3>3, <3>5, <1>i DEF InOrder, Linked, OnPo, Aged, SamePorts, Both
  <2>2. CASE Redirected(s, i) /\ s.itf = "" /\ i = Po
    BY <2>0, <2>2, <1>e, <1>i
       DEF InOrder, Linked, OnPo, Aged, SamePorts, Both, PeerLinkUp, Known
  <2>3. CASE Redirected(s, i) /\ s.itf = "" /\ i # Po
    <3>1. PeerAddKnown(s, i) = Remove(e)
      BY <2>0, <2>3
    <3> QED
      BY <3>1, <1>e, RemovedInOrder DEF SamePorts
  <2>4. CASE Redirected(s, i) /\ s.itf # "" /\ d.mac.ifname = s.itf
    <3>1. PeerAddKnown(s, i) = d
      BY <2>0, <2>4
    <3>2. PeerLinkUp(d) => d.row = d.itf
      BY <2>4, <1>d DEF InOrder, Linked, OnPo, Aged, SamePorts, PeerLinkUp
    <3>3. d.mac.origin = Po => ~d.po
      BY <2>4, <1>d DEF Redirected, SamePorts
    <3> QED
      BY <2>4, <3>1, <3>2, <3>3, <1>d
         DEF InOrder, Linked, OnPo, Aged, SamePorts, Both
  <2>5. CASE Redirected(s, i) /\ s.itf # "" /\ d.mac.ifname # s.itf
    <3>1. PeerAddKnown(s, i) = AddToChip(MoveTo(d, d.itf))
      BY <2>0, <2>5, <1>d DEF SamePorts
    <3>2. i = Po => ~s.po
      BY <2>5 DEF Redirected
    <3> QED
      BY <3>1, <3>2, <1>d, OnLinkFacts, SMT
         DEF InOrder, Linked, OnPo, Aged, SamePorts, Both
  <2> QED
    BY <2>1, <2>2, <2>3, <2>4, <2>5
<1> QED
  BY <1>1, <1>2, <1>3

\* ADD of the peer for a new address: an address on the peer link is added
\* if the peer link is up.
LEMMA PeerAddNewInOrder ==
  ASSUME NEW s, InOrder(s), s.st # "off", NEW i \in Ports
  PROVE  InOrder(PeerAddNew(s, i)) /\ SamePorts(s, PeerAddNew(s, i))
<1> DEFINE port == IF Redirected(s, i) /\ s.itf # "" THEN s.itf ELSE i
           e == [s EXCEPT !.mac = Entry(i, {"local"}, "none")]
           t == MoveTo(e, port)
           u == [t EXCEPT !.row = port]
           usable == IF port = s.itf THEN PeerLinkUp(s) ELSE s.po
<1>0. s \in NodeRec /\ s.itf \in PeerItfs /\ s.itf # Po /\ s.itf # Orphan
  BY ItfFacts DEF InOrder, Linked, OnPo, Aged
<1>1. Entry(i, {"local"}, "none") \in MacRec
  BY DEF Entry, NoEntry, MacRec, Both, Ops, Ports
<1>2. e \in NodeRec /\ SamePorts(s, e) /\ e.mac.origin = i /\ e.mac.age = {"local"}
  <2> DEFINE m == Entry(i, {"local"}, "none")
  <2>1. m.origin = i /\ m.age = {"local"}
    BY DEF Entry, NoEntry
  <2> HIDE DEF m
  <2> QED
    BY <1>0, <1>1, <2>1 DEF NodeRec, SamePorts, m
<1> HIDE DEF e
<1>3. port \in Ports \cup PeerItfs
  BY <1>0
<1>4. /\ t \in NodeRec /\ SamePorts(s, t) /\ t.mac.origin = i
      /\ t.mac.ifname = port /\ t.mac.age = {"local"}
  <2> HIDE DEF port
  <2>1. /\ t \in NodeRec /\ SamePorts(e, t) /\ t.mac.origin = e.mac.origin
        /\ t.mac.ifname = port /\ t.mac.age = e.mac.age
    BY <1>2, <1>3, MoveFacts
  <2> HIDE DEF t
  <2>2. SamePorts(s, t)
    BY <1>2, <2>1 DEF SamePorts
  <2> QED
    BY <1>2, <2>1, <2>2
<1>5. i = Po => port = Po \/ (port = s.itf /\ ~s.po)
  BY DEF Redirected
<1>7. ~usable => port # s.itf \/ ~PeerLinkUp(s)
  OBVIOUS
<1> HIDE DEF t, port, usable
<1>8. /\ u \in NodeRec /\ SamePorts(s, u) /\ u.mac = t.mac /\ u.row = port
  BY <1>4, <1>3 DEF NodeRec, SamePorts
<1> HIDE DEF u
<1>9. usable => InOrder(u) /\ SamePorts(s, u)
  BY <1>4, <1>5, <1>8, SMT DEF InOrder, Linked, OnPo, Aged, SamePorts, Both
<1>10. ~usable => InOrder(t) /\ SamePorts(s, t)
  <2>1. ~usable => ~(t.mac.ifname = t.itf /\ PeerLinkUp(t))
    BY <1>4, <1>7 DEF SamePorts, PeerLinkUp
  <2>2. t.mac.origin = Po =>
          t.mac.ifname = Po \/ (t.mac.ifname = t.itf /\ ~t.po)
    BY <1>4, <1>5 DEF SamePorts
  <2>3. t.mac.age # Both /\ t.st # "off"
    BY <1>4, SMT DEF SamePorts, Both
  <2> QED
    BY <2>1, <2>2, <2>3, <1>4 DEF InOrder, Linked, OnPo, Aged
<1>11. PeerAddNew(s, i) \in {s, t, u}
       /\ (PeerAddNew(s, i) = u => usable \/ u = t \/ u = s)
       /\ (PeerAddNew(s, i) = t => ~usable \/ u = t \/ t = s)
  BY DEF PeerAddNew, t, u, port, e, usable
<1> QED
  BY <1>9, <1>10, <1>11 DEF SamePorts

\* DEL of the peer: the entry is removed when both have aged it.
LEMMA PeerDelInOrder ==
  ASSUME NEW s, InOrder(s), s.st # "off"
  PROVE  InOrder(PeerDel(s)) /\ SamePorts(s, PeerDel(s))
<1> DEFINE t == [s EXCEPT !.mac.age = @ \cup {"peer"}]
<1>1. /\ t \in NodeRec /\ SamePorts(s, t) /\ t.row = s.row
      /\ t.mac.ifname = s.mac.ifname /\ t.mac.origin = s.mac.origin
  BY DEF InOrder, Linked, OnPo, Aged, NodeRec, MacRec, SamePorts, Both
<1>2. PeerDel(s) = IF ~Known(s) THEN s
                   ELSE IF t.mac.age = Both THEN Remove(DelFromChip(t)) ELSE t
  BY DEF PeerDel
<1> HIDE DEF t
<1>3. t.mac.age # Both => InOrder(t)
  BY <1>1 DEF InOrder, Linked, OnPo, Aged, SamePorts, Known, PeerLinkUp
<1>4. InOrder(Remove(DelFromChip(t))) /\ SamePorts(s, Remove(DelFromChip(t)))
  BY <1>1, DelFacts, RemovedInOrder, SMT DEF SamePorts
<1> QED
  BY <1>1, <1>2, <1>3, <1>4 DEF SamePorts

\* The port-channel of the peer went down: the address is local from now on.
LEMMA AggportStateInOrder ==
  ASSUME NEW s, InOrder(s), s.st # "off", NEW up \in BOOLEAN
  PROVE  LET r == AggportState(s, up) IN InOrder(r) /\ r.st = s.st
<1> DEFINE t == [s EXCEPT !.pif = IF up THEN "up" ELSE "down"]
           u == [t EXCEPT !.mac.age = {"peer"}]
           v == AddToChip(u)
           w == Enqueue(v, "ADD")
<1>1. /\ t \in NodeRec /\ t.itf = s.itf /\ t.st = s.st /\ t.po = s.po /\ t.pl = s.pl
      /\ t.mac = s.mac /\ t.row = s.row
  BY DEF InOrder, NodeRec
<1> HIDE DEF t
<1>2. InOrder(t) /\ t.st = s.st
  BY <1>1 DEF InOrder, Linked, OnPo, Aged, Known, PeerLinkUp
<1>3. ASSUME Known(t), t.po, t.mac.origin = Po
      PROVE  InOrder(w) /\ w.st = s.st
  <2>1. t.mac.ifname = Po /\ t.itf # Po
    BY <1>2, <1>3, ItfFacts DEF InOrder, OnPo
  <2>2. /\ u \in NodeRec /\ SamePorts(t, u) /\ u.mac.ifname = Po
        /\ u.mac.origin = Po /\ u.mac.age = {"peer"}
    BY <1>1, <1>3, <2>1 DEF NodeRec, MacRec, SamePorts, Both
  <2> HIDE DEF u
  <2>3. v \in NodeRec /\ SamePorts(u, v) /\ SameMac(u, v)
    BY <2>2, AddFacts
  <2> HIDE DEF v
  <2>4. w \in NodeRec /\ SamePorts(v, w) /\ SameMac(v, w)
    BY <2>3, EnqueueFacts DEF Ops
  <2> HIDE DEF w
  <2> QED
    BY <1>2, <2>1, <2>2, <2>3, <2>4, SMT
       DEF InOrder, Linked, OnPo, Aged, SamePorts, SameMac, Both
<1>4. ConvertRemote(t) =
        IF Known(t) /\ t.po /\ t.mac.origin = Po /\ t.mac.age = {"local"}
        THEN w ELSE t
  BY DEF ConvertRemote
<1>5. AggportState(s, up) = IF Exchange(s) /\ ~up THEN ConvertRemote(t) ELSE t
  BY DEF AggportState, t
<1> HIDE DEF w
<1> QED
  BY <1>2, <1>3, <1>4, <1>5

\* A pending entry is dropped.
LEMMA DropPendingInOrder ==
  ASSUME NEW s \in NodeRec
  PROVE  InOrder(DropPending(s)) /\ SamePorts(s, DropPending(s))
<1> DEFINE d == DelFromChip(s)
           w == /\ "local" \notin s.mac.age
                /\ \A k \in DOMAIN s.list : s.list[k] # InTree
           q == d.silent \/ w
           u == [d EXCEPT !.mac.op = "DEL", !.silent = q]
<1>1. d \in NodeRec /\ SamePorts(s, d) /\ q \in BOOLEAN
  BY DelFacts
<1> HIDE DEF d, w, q
<1>2. u \in NodeRec /\ SamePorts(s, u)
  BY <1>1, ZenonT(30) DEF NodeRec, MacRec, SamePorts, Ops
<1>3. DropPending(s) = Remove(u)
  BY DEF DropPending, d, w, q
<1> HIDE DEF u
<1> QED
  BY <1>2, <1>3, RemovedInOrder DEF SamePorts

\* An address behind the port-channel is there or on the peer link; Rest is
\* what holds while the state of the port-channel is being changed.
Rest(s) ==
  /\ s \in NodeRec /\ Linked(s) /\ Aged(s)
  /\ Known(s) /\ s.mac.origin = Po => s.mac.ifname \in {Po, s.itf}

\* The port-channel came up: a redirected address is taken back.
LEMMA PoUpMacInOrder ==
  ASSUME NEW s, Rest(s), s.mac.origin = Po, s.po
  PROVE  InOrder(PoUpMac(s)) /\ SamePorts(s, PoUpMac(s))
<1>0. s \in NodeRec /\ Known(s) /\ s.itf # Po
  BY ItfFacts DEF Rest, Known, Po
<1>1. CASE s.mac.ifname = s.itf
  <2> DEFINE u == [s EXCEPT !.mac.pending = FALSE]
             m == MoveTo(u, Po)
             v == AddToChip(m)
  <2>1. /\ u \in NodeRec /\ SamePorts(s, u) /\ u.mac.origin = Po
        /\ u.mac.age = s.mac.age
    BY <1>0 DEF NodeRec, MacRec, SamePorts
  <2>2. PoUpMac(s) = v
    BY <1>1 DEF PoUpMac
  <2> HIDE DEF u
  <2>3. /\ m \in NodeRec /\ SamePorts(s, m) /\ m.mac.origin = Po
        /\ m.mac.ifname = Po /\ m.mac.age = s.mac.age
    <3>1. Po \in Ports \cup PeerItfs
      BY DEF Ports
    <3> QED
      BY <2>1, <3>1, MoveFacts DEF SamePorts
  <2> HIDE DEF m
  <2>4. v \in NodeRec /\ SamePorts(m, v) /\ SameMac(m, v)
    BY <2>3, AddFacts
  <2> HIDE DEF v
  <2> QED
    BY <1>0, <2>2, <2>3, <2>4, ZenonT(30)
       DEF Rest, InOrder, Linked, OnPo, Aged, Known, SamePorts, SameMac
<1>2. CASE s.mac.ifname # s.itf
  <2>1. PoUpMac(s) = IF s.mac.pending THEN DropPending(s) ELSE s
    BY <1>2 DEF PoUpMac
  <2>2. InOrder(s) /\ SamePorts(s, s)
    BY <1>0, <1>2 DEF Rest, InOrder, OnPo, SamePorts
  <2> QED
    BY <1>0, <2>1, <2>2, DropPendingInOrder
<1> QED
  BY <1>1, <1>2

\* The port-channel went down: the address goes to the peer link, or is
\* removed if the peer does not have it either.
LEMMA PoDownMacInOrder ==
  ASSUME NEW s, Rest(s), s.mac.origin = Po, ~s.po
  PROVE  InOrder(PoDownMac(s)) /\ SamePorts(s, PoDownMac(s))
<1> DEFINE d == SetLocalAge(s)
           R(t) == IF PeerLinkUp(s) THEN AddToChip(MoveTo(t, s.itf))
                   ELSE MoveTo(DelFromChip(t), s.itf)
<1>0. /\ s \in NodeRec /\ Known(s) /\ s.itf # Po /\ s.itf \in PeerItfs
      /\ s.itf \in Ports \cup PeerItfs
  BY ItfFacts DEF Rest, Known, Po
<1>1. ASSUME NEW t \in NodeRec, SamePorts(s, t), t.mac.origin = Po
      PROVE  /\ R(t) \in NodeRec /\ SamePorts(s, R(t)) /\ R(t).mac.origin = Po
             /\ R(t).mac.ifname = s.itf /\ R(t).mac.age = t.mac.age
             /\ PeerLinkUp(s) => R(t).row = s.itf
  <2>1. CASE PeerLinkUp(s)
    <3>1. t.itf = s.itf
      BY <1>1 DEF SamePorts
    <3> QED
      BY <1>1, <2>1, <3>1, OnLinkFacts, SMT DEF SamePorts
  <2>2. CASE ~PeerLinkUp(s)
    <3> DEFINE f == DelFromChip(t)
    <3>1. f \in NodeRec /\ SamePorts(t, f) /\ SameMac(t, f)
      BY <1>1, DelFacts
    <3> HIDE DEF f
    <3>2. LET m == MoveTo(f, s.itf) IN
          /\ m \in NodeRec /\ SamePorts(f, m) /\ m.mac.ifname = s.itf
          /\ m.mac.origin = f.mac.origin /\ m.mac.age = f.mac.age
      BY <1>0, <3>1, MoveFacts
    <3>3. R(t) = MoveTo(f, s.itf)
      BY <2>2 DEF f
    <3> QED
      BY <1>1, <2>2, <3>1, <3>2, <3>3 DEF SamePorts, SameMac
  <2> QED
    BY <2>1, <2>2
<1>2. CASE s.mac.age = {"peer"} /\ s.pif = "up"
  <2> DEFINE r == R(s)
             q == [r EXCEPT !.mac.pending = TRUE]
  <2>1. /\ r \in NodeRec /\ SamePorts(s, r) /\ r.mac.origin = Po
        /\ r.mac.ifname = s.itf /\ r.mac.age = s.mac.age
        /\ PeerLinkUp(s) => r.row = s.itf
    BY <1>0, <1>1 DEF SamePorts
  <2>2. PoDownMac(s) = q
    BY <1>2 DEF PoDownMac
  <2> HIDE DEF r
  <2>3. /\ q \in NodeRec /\ SamePorts(s, q) /\ q.mac.origin = Po
        /\ q.mac.ifname = s.itf /\ q.mac.age = s.mac.age /\ q.row = r.row
    BY <2>1 DEF NodeRec, MacRec, SamePorts
  <2> HIDE DEF q
  <2> QED
    BY <1>0, <1>2, <2>1, <2>2, <2>3
       DEF Rest, InOrder, Linked, OnPo, Aged, Known, SamePorts, PeerLinkUp
<1>3. CASE ~(s.mac.age = {"peer"} /\ s.pif = "up")
  <2>1. PoDownMac(s) = IF d.mac.age = Both THEN Remove(DelFromChip(d))
                       ELSE IF s.itf # "" THEN R(d) ELSE DelFromChip(d)
    BY <1>3 DEF PoDownMac
  <2>2. /\ d \in NodeRec /\ SamePorts(s, d) /\ d.mac.origin = Po
        /\ d.mac.age = s.mac.age \cup {"local"}
        /\ d.mac.ifname = s.mac.ifname
    BY <1>0, SetLocalFacts
  <2>3. s.st = "off" => d.mac.age = Both
    BY <1>0, <2>2 DEF Rest, Aged, Both
  <2> HIDE DEF d
  <2>4. InOrder(Remove(DelFromChip(d))) /\ SamePorts(s, Remove(DelFromChip(d)))
    BY <2>2, DelFacts, RemovedInOrder, SMT DEF SamePorts
  <2>5. CASE d.mac.age # Both /\ s.itf # ""
    <3> DEFINE r == R(d)
    <3>1. /\ r \in NodeRec /\ SamePorts(s, r) /\ r.mac.origin = Po
          /\ r.mac.ifname = s.itf /\ r.mac.age = d.mac.age
          /\ PeerLinkUp(s) => r.row = s.itf
      BY <2>2, <1>1
    <3>2. PoDownMac(s) = r
      BY <2>1, <2>5
    <3> HIDE DEF r
    <3> QED
      BY <2>3, <2>5, <3>1, <3>2
         DEF InOrder, Linked, OnPo, Aged, Known, SamePorts, PeerLinkUp
  <2>6. CASE d.mac.age # Both /\ s.itf = ""
    <3> DEFINE f == DelFromChip(d)
    <3>1. f \in NodeRec /\ SamePorts(d, f) /\ SameMac(d, f)
      BY <2>2, DelFacts
    <3>2. PoDownMac(s) = f
      BY <2>1, <2>6
    <3> HIDE DEF f
    <3>3. SamePorts(s, f)
      BY <2>2, <3>1 DEF SamePorts
    <3>4. /\ f.mac.origin = Po /\ f.mac.age = d.mac.age
          /\ f.mac.ifname = s.mac.ifname
      BY <2>2, <3>1 DEF SameMac
    <3>5. InOrder(f)
      BY <1>0, <2>3, <2>6, <3>1, <3>3, <3>4
         DEF Rest, InOrder, Linked, OnPo, Aged, Known, SamePorts, PeerLinkUp
    <3> QED
      BY <3>2, <3>3, <3>5
  <2> QED
    BY <2>1, <2>4, <2>5, <2>6
<1> QED
  BY <1>2, <1>3

\* update_l2_mac_state.
LEMMA UpdateL2MacStateInOrder ==
  ASSUME NEW s, Rest(s)
  PROVE  InOrder(UpdateL2MacState(s))
<1> DEFINE t == [s EXCEPT !.po_down_time = ~s.po]
<1>1. /\ t \in NodeRec /\ SamePorts(s, t) /\ t.mac = s.mac /\ t.row = s.row
  BY DEF Rest, NodeRec, SamePorts
<1>2. UpdateL2MacState(s) = IF s.mac.origin # Po THEN t
                            ELSE IF s.po THEN PoUpMac(t) ELSE PoDownMac(t)
  BY DEF UpdateL2MacState
<1> HIDE DEF t
<1>3. Rest(t)
  BY <1>1 DEF Rest, Linked, Aged, Known, PeerLinkUp, SamePorts
<1>4. CASE s.mac.origin # Po
  BY <1>1, <1>2, <1>3, <1>4 DEF Rest, InOrder, OnPo
<1>5. CASE s.mac.origin = Po /\ s.po
  BY <1>1, <1>2, <1>3, <1>5, PoUpMacInOrder DEF SamePorts
<1>6. CASE s.mac.origin = Po /\ ~s.po
  BY <1>1, <1>2, <1>3, <1>6, PoDownMacInOrder DEF SamePorts
<1> QED
  BY <1>4, <1>5, <1>6

\* The port-channel changes.
LEMMA PoChangeInOrder ==
  ASSUME NEW s, InOrder(s)
  PROVE  InOrder(PoChange(s))
<1> DEFINE t == [s EXCEPT !.po = ~@, !.changed = TRUE]
<1>1. /\ t \in NodeRec /\ t.itf = s.itf /\ t.st = s.st /\ t.pl = s.pl
      /\ t.mac = s.mac /\ t.row = s.row
  BY ZenonT(30) DEF InOrder, NodeRec
<1>2. PoChange(s) = UpdateL2MacState(t)
  BY DEF PoChange
<1> HIDE DEF t
<1>3. Rest(t)
  BY <1>1 DEF InOrder, Rest, Linked, OnPo, Aged, Known, PeerLinkUp
<1> QED
  BY <1>2, <1>3, UpdateL2MacStateInOrder

\* The orphan port changes.
LEMMA EthChangeInOrder ==
  ASSUME NEW s, InOrder(s)
  PROVE  InOrder(EthChange(s))
<1> DEFINE t == [s EXCEPT !.eth = ~@]
<1>1. /\ t \in NodeRec /\ t.itf = s.itf /\ t.st = s.st /\ t.pl = s.pl
      /\ t.po = s.po /\ t.mac = s.mac /\ t.row = s.row
  BY DEF InOrder, NodeRec
<1>2. EthChange(s) = t \/ EthChange(s) = Enqueue(t, "ADD")
  BY DEF EthChange
<1> HIDE DEF t
<1>3. InOrder(t)
  BY <1>1 DEF InOrder, Linked, OnPo, Aged, Known, PeerLinkUp
<1>4. InOrder(Enqueue(t, "ADD"))
  <2> DEFINE u == Enqueue(t, "ADD")
  <2>1. u \in NodeRec /\ SamePorts(t, u) /\ SameMac(t, u) /\ u.row = t.row
    BY <1>1, EnqueueFacts DEF Ops
  <2> HIDE DEF u
  <2>2. InOrder(u)
    BY <1>3, <2>1
       DEF InOrder, Linked, OnPo, Aged, Known, PeerLinkUp, SamePorts, SameMac
  <2> QED
    BY <2>2 DEF u
<1> QED
  BY <1>2, <1>3, <1>4

\* The peer link changes: what is on it is added when it comes up.
LEMMA PeerLinkChangeInOrder ==
  ASSUME NEW s, InOrder(s)
  PROVE  InOrder(PeerLinkChange(s))
<1> DEFINE t == [s EXCEPT !.pl = ~@]
           a == IF s.mac.pending THEN t ELSE SetLocalAge(t)
           d == DelFromChip(a)
           u == AddToChip(t)
<1>1. /\ t \in NodeRec /\ t.itf = s.itf /\ t.st = s.st /\ t.pl = ~s.pl
      /\ t.po = s.po /\ t.mac = s.mac /\ t.row = s.row
  BY DEF InOrder, NodeRec
<1>2. PeerLinkChange(s) =
        IF ~(Known(s) /\ s.mac.ifname = s.itf) THEN t
        ELSE IF t.pl THEN u ELSE IF d.mac.age = Both THEN Remove(d) ELSE d
  BY DEF PeerLinkChange
<1> HIDE DEF t
<1>3. /\ SetLocalAge(t) \in NodeRec /\ SamePorts(t, SetLocalAge(t))
      /\ SetLocalAge(t).mac.ifname = s.mac.ifname
      /\ SetLocalAge(t).mac.origin = s.mac.origin
      /\ SetLocalAge(t).mac.age = s.mac.age \cup {"local"}
  BY <1>1, SetLocalFacts
<1>4. /\ a \in NodeRec /\ SamePorts(t, a) /\ a.mac.ifname = s.mac.ifname
      /\ a.mac.origin = s.mac.origin
      /\ a.mac.age \in {s.mac.age, s.mac.age \cup {"local"}}
  BY <1>1, <1>3 DEF SamePorts
<1> HIDE DEF a
<1>5. d \in NodeRec /\ SamePorts(t, d) /\ SameMac(a, d)
  BY <1>4, DelFacts DEF SamePorts
<1> HIDE DEF d
<1>6. u \in NodeRec /\ SamePorts(t, u) /\ SameMac(t, u) /\ u.row = s.mac.ifname
  BY <1>1, AddFacts
<1> HIDE DEF u
<1>7. ~(Known(s) /\ s.mac.ifname = s.itf) => InOrder(t)
  BY <1>1 DEF InOrder, Linked, OnPo, Aged, Known
<1>8. Known(s) /\ s.mac.ifname = s.itf => InOrder(u)
  BY <1>1, <1>6, ZenonT(30) DEF InOrder, Linked, OnPo, Aged, Known, SamePorts, SameMac
<1>9. InOrder(Remove(d))
  BY <1>5, RemovedInOrder
<1>10. ~t.pl /\ d.mac.age # Both => InOrder(d)
  <2>1. Known(d) /\ d.st = "off" /\ d.mac.age # Both => d.mac.age = {"peer"}
    BY <1>1, <1>4, <1>5 DEF InOrder, Aged, Known, SamePorts, SameMac, Both
  <2>2. OnPo(d)
    BY <1>1, <1>4, <1>5 DEF InOrder, OnPo, Known, SamePorts, SameMac
  <2>3. ~t.pl => Linked(d)
    BY <1>5 DEF Linked, PeerLinkUp, SamePorts
  <2> QED
    BY <1>5, <2>1, <2>2, <2>3 DEF InOrder, Aged
<1> QED
  BY <1>2, <1>7, <1>8, <1>9, <1>10

\* The switch learned a known address on port i.
LEMMA LearnKnownInOrder ==
  ASSUME NEW s, InOrder(s), Known(s), NEW i \in {Po, Orphan}
  PROVE  InOrder(LearnKnown(s, i))
<1>0. /\ s \in NodeRec /\ i \in Ports /\ s.itf # i /\ s.itf \in PeerItfs
      /\ i # "" /\ i \in Ports \cup PeerItfs
  BY ItfFacts DEF InOrder, Ports, Po, Orphan
<1>1. CASE i = Po /\ ~s.po /\ s.pif = "up"
  <2> DEFINE p == [s EXCEPT !.mac.pending = TRUE, !.mac.origin = i,
                            !.mac.ifname = s.itf]
             u == AddToChip(p)
  <2>1. /\ p \in NodeRec /\ SamePorts(s, p) /\ p.mac.ifname = s.itf
        /\ p.mac.origin = i /\ p.mac.age = s.mac.age
    BY <1>0 DEF NodeRec, MacRec, SamePorts
  <2>2. LearnKnown(s, i) = u
    BY <1>1 DEF LearnKnown
  <2> HIDE DEF p
  <2>3. u \in NodeRec /\ SamePorts(p, u) /\ SameMac(p, u) /\ u.row = s.itf
    BY <2>1, AddFacts
  <2> HIDE DEF u
  <2> QED
    BY <1>1, <2>1, <2>2, <2>3
       DEF InOrder, Linked, OnPo, Aged, Known, SamePorts, SameMac
<1>2. CASE ~(i = Po /\ ~s.po /\ s.pif = "up")
  <2> DEFINE moved == s.mac.ifname # i \/ s.mac.origin # i
             p == [s EXCEPT !.mac.ifname = i, !.mac.origin = i]
             t == ClearLocalAge(p)
             g == IF moved THEN {"peer"} ELSE t.mac.age
             u == [t EXCEPT !.row = "none", !.mac.age = g]
  <2>1. /\ p \in NodeRec /\ SamePorts(s, p) /\ p.mac.ifname = i
        /\ p.mac.origin = i /\ p.mac.age = s.mac.age
    BY <1>0 DEF NodeRec, MacRec, SamePorts
  <2>2. LearnKnown(s, i) = u
    BY <1>2 DEF LearnKnown
  <2> HIDE DEF p
  <2>3. /\ t \in NodeRec /\ SamePorts(p, t) /\ t.mac.ifname = i
        /\ t.mac.origin = i /\ t.mac.age = s.mac.age \ {"local"}
    BY <2>1, ClearLocalFacts
  <2> HIDE DEF t
  <2>4. g \in SUBSET Both /\ g # Both /\ (s.st = "off" => g = {"peer"})
    <3>1. s.mac.age \in SUBSET Both
      BY <1>0 DEF NodeRec, MacRec
    <3>2. s.st = "off" => s.mac.age = {"peer"}
      BY DEF InOrder, Aged
    <3>3. {"peer"} \in SUBSET Both /\ {"peer"} # Both /\ {"peer"} \ {"local"} = {"peer"}
      BY SMT DEF Both
    <3>4. s.mac.age \ {"local"} \in SUBSET Both /\ s.mac.age \ {"local"} # Both
      BY <3>1 DEF Both
    <3>5. g = {"peer"} \/ g = s.mac.age \ {"local"}
      BY <2>3
    <3>6. s.st = "off" => g = {"peer"}
      BY <3>2, <3>3, <3>5
    <3> HIDE DEF g
    <3> QED
      BY <3>3, <3>4, <3>5, <3>6
  <2> HIDE DEF g
  <2>5. /\ u \in NodeRec /\ SamePorts(t, u) /\ u.mac.ifname = i
        /\ u.mac.origin = i /\ u.mac.age = g
    BY <2>3, <2>4 DEF NodeRec, MacRec, SamePorts
  <2> HIDE DEF u
  <2> QED
    BY <1>0, <2>1, <2>2, <2>3, <2>4, <2>5, ZenonT(30)
       DEF InOrder, Linked, OnPo, Aged, SamePorts
<1> QED
  BY <1>1, <1>2

\* The switch learned a new address on port i.
LEMMA LearnNewInOrder ==
  ASSUME NEW s, InOrder(s), ~Known(s), NEW i \in {Po, Orphan}
  PROVE  InOrder(LearnNew(s, i))
<1> DEFINE m == Entry(i, {"peer"}, "ADD")
           t == [s EXCEPT !.mac = m]
           q == Enqueue(t, "ADD")
           u == [t EXCEPT !.row = s.itf]
           v == [s EXCEPT !.row = "none"]
<1>0. /\ s \in NodeRec /\ s.itf # i /\ s.itf \in PeerItfs /\ i \in Ports
  BY ItfFacts DEF InOrder, Ports, Po, Orphan
<1>1. m \in MacRec /\ m.origin = i /\ m.ifname = i /\ m.age = {"peer"}
  BY <1>0 DEF Entry, NoEntry, MacRec, Both, Ops
<1>2. LearnNew(s, i) \in {q, t, u, v}
  BY <1>0 DEF LearnNew, NodeRec
<1> HIDE DEF m
<1>3. t \in NodeRec /\ SamePorts(s, t) /\ t.mac = m
  BY <1>0, <1>1 DEF NodeRec, SamePorts
<1> HIDE DEF t
<1>4. InOrder(t)
  BY <1>0, <1>1, <1>3, SMT DEF InOrder, Linked, OnPo, Aged, SamePorts, Both
<1>5. InOrder(q)
  <2>1. q \in NodeRec /\ SamePorts(t, q) /\ SameMac(t, q)
    BY <1>3, EnqueueFacts DEF Ops
  <2> HIDE DEF q
  <2> QED
    BY <1>0, <1>1, <1>3, <2>1, SMT
       DEF InOrder, Linked, OnPo, Aged, SamePorts, SameMac, Both
<1>6. InOrder(u)
  <2>1. u \in NodeRec /\ SamePorts(t, u) /\ u.mac = m
    BY <1>0, <1>3 DEF NodeRec, SamePorts
  <2> HIDE DEF u
  <2> QED
    BY <1>0, <1>1, <1>3, <2>1, SMT
       DEF InOrder, Linked, OnPo, Aged, SamePorts, Both
<1>7. InOrder(v)
  <2>1. v \in NodeRec /\ SamePorts(s, v) /\ v.mac = s.mac
    BY <1>0 DEF NodeRec, SamePorts
  <2> HIDE DEF v
  <2> QED
    BY <2>1 DEF InOrder, Linked, OnPo, Aged, Known
<1> QED
  BY <1>2, <1>4, <1>5, <1>6, <1>7

\* The switch forgot the address: it stays while the peer has it.
LEMMA ForgetInOrder ==
  ASSUME NEW s, InOrder(s), Known(s), NEW i \in {Po, Orphan}
  PROVE  InOrder(Forget(s, i))
<1> DEFINE d == SetLocalAge(s)
           x == IF d.mac.add_to_syncd THEN DelFromChip(d) ELSE d
           a == AddToChip(d)
           m == MoveTo(d, s.itf)
           l == AddToChip(m)
           onLink == s.mac.ifname = s.itf
<1>0. /\ s \in NodeRec /\ s.itf \in Ports \cup PeerItfs
  BY ItfFacts DEF InOrder
<1>1. /\ d \in NodeRec /\ SamePorts(s, d) /\ d.row = s.row
      /\ d.mac.ifname = s.mac.ifname /\ d.mac.origin = s.mac.origin
      /\ d.mac.age = s.mac.age \cup {"local"}
  BY <1>0, SetLocalFacts
<1>2. Forget(s, i) =
        IF onLink /\ s.mac.pending THEN s
        ELSE IF d.mac.age = Both THEN Remove(x)
        ELSE IF onLink THEN (IF PeerLinkUp(s) THEN a ELSE d)
        ELSE IF i = Po /\ ~s.po
             THEN IF s.itf = "" THEN d ELSE IF PeerLinkUp(s) THEN l ELSE m
             ELSE IF PortUp(s, s.mac.ifname) THEN a ELSE d
  BY DEF Forget
<1> HIDE DEF d
<1>3. d.mac.age # Both => Aged(d)
  BY <1>1 DEF InOrder, Aged, Known, SamePorts, Both
<1>4. /\ a \in NodeRec /\ SamePorts(s, a) /\ SameMac(d, a)
      /\ a.row = s.mac.ifname
  BY <1>1, AddFacts DEF SamePorts
<1>5. /\ m \in NodeRec /\ SamePorts(s, m) /\ m.mac.ifname = s.itf
      /\ m.mac.origin = s.mac.origin /\ m.mac.age = d.mac.age
  BY <1>0, <1>1, MoveFacts DEF SamePorts
<1> HIDE DEF m
<1>6. l \in NodeRec /\ SamePorts(s, l) /\ SameMac(m, l) /\ l.row = s.itf
  BY <1>5, AddFacts DEF SamePorts
<1>7. InOrder(Remove(x))
  <2>1. x \in NodeRec
    BY <1>1, DelFacts
  <2> QED
    BY <2>1, RemovedInOrder
<1> HIDE DEF a, l, x
<1>8. d.mac.age # Both => InOrder(d)
  BY <1>1, <1>3 DEF InOrder, Linked, OnPo, Known, SamePorts, PeerLinkUp
<1>9. d.mac.age # Both => InOrder(a)
  BY <1>1, <1>3, <1>4, ZenonT(30)
     DEF InOrder, Linked, OnPo, Aged, Known, SamePorts, SameMac, PeerLinkUp
<1>10. d.mac.age # Both /\ ~s.po /\ ~PeerLinkUp(s) => InOrder(m)
  BY <1>1, <1>3, <1>5
     DEF InOrder, Linked, OnPo, Aged, Known, SamePorts, PeerLinkUp
<1>11. d.mac.age # Both /\ ~s.po => InOrder(l)
  BY <1>1, <1>3, <1>5, <1>6
     DEF InOrder, Linked, OnPo, Aged, Known, SamePorts, SameMac
<1> HIDE DEF onLink
<1> QED
  BY <1>2, <1>7, <1>8, <1>9, <1>10, <1>11

\* The entry is queued for the peer; then the port-channel is looked at.
LEMMA PeerConnInOrder ==
  ASSUME NEW s, InOrder(s)
  PROVE  InOrder(PeerConn(s))
<1> DEFINE t == SyncMac(s)
<1>1. t = s \/ t = Enqueue(s, "ADD")
  BY DEF SyncMac
<1>2. PeerConn(s) = UpdateL2MacState(t)
  BY DEF PeerConn
<1> HIDE DEF t
<1>3. t \in NodeRec /\ SamePorts(s, t) /\ SameMac(s, t) /\ t.row = s.row
  BY <1>1, EnqueueFacts, SMT DEF InOrder, SamePorts, SameMac, Ops
<1>4. Rest(t)
  BY <1>3
     DEF InOrder, Rest, Linked, OnPo, Aged, Known, PeerLinkUp, SamePorts,
         SameMac
<1> QED
  BY <1>2, <1>4, UpdateL2MacStateInOrder

\* The session is lost: what is left was learned here or is taken over.
LEMMA SessionDisconnectInOrder ==
  ASSUME NEW s, InOrder(s)
  PROVE  InOrder(SessionDisconnect(s))
<1> DEFINE t == [s EXCEPT !.mac.age = @ \cup {"peer"}]
           o == [s EXCEPT !.mac.age = {"peer"}]
           v == AddToChip(o)
           f == DelFromChip(t)
           p == PeerDisconnFdb(s)
           r == [p EXCEPT !.st = "off", !.pif = "none", !.list = << >>]
<1>0. s \in NodeRec /\ s.mac.age \in SUBSET Both
  BY DEF InOrder, NodeRec, MacRec
<1>1. /\ t \in NodeRec /\ SamePorts(s, t) /\ t.row = s.row
      /\ t.mac.ifname = s.mac.ifname /\ t.mac.origin = s.mac.origin
      /\ t.mac.age = s.mac.age \cup {"peer"}
  BY <1>0 DEF NodeRec, MacRec, SamePorts, Both
<1>2. /\ o \in NodeRec /\ SamePorts(s, o) /\ o.row = s.row
      /\ o.mac.ifname = s.mac.ifname /\ o.mac.origin = s.mac.origin
      /\ o.mac.age = {"peer"}
  BY <1>0 DEF NodeRec, MacRec, SamePorts, Both
<1>3. p = IF ~Known(s) THEN s
          ELSE IF s.mac.ifname = s.itf
          THEN (IF t.mac.age = Both \/ s.mac.pending THEN Remove(f) ELSE t)
          ELSE IF s.mac.age = {} THEN t
          ELSE IF s.mac.age = {"local"} THEN v ELSE s
  BY DEF PeerDisconnFdb
<1>4. SessionDisconnect(s) = r
  BY DEF SessionDisconnect
<1> HIDE DEF t, o
<1>5. v \in NodeRec /\ SamePorts(o, v) /\ SameMac(o, v) /\ v.row = o.mac.ifname
  BY <1>2, AddFacts
<1>6. f \in NodeRec /\ SamePorts(t, f)
  BY <1>1, DelFacts
<1> HIDE DEF v, f
<1>7. InOrder(Remove(f)) /\ ~Known(Remove(f))
  <2>1. NoEntry.origin = ""
    BY DEF NoEntry
  <2> QED
    BY <1>6, <2>1, RemovedInOrder, RemoveFacts DEF Known
<1> DEFINE Ready(q) == /\ q \in NodeRec /\ Linked(q) /\ OnPo(q) /\ q.mac.age # Both
                       /\ Known(q) => q.mac.age = {"peer"}
<1>8. Ready(Remove(f))
  BY <1>7 DEF InOrder, Aged
<1>9. t.mac.age # Both => Ready(t)
  <2>1. t.mac.age # Both => t.mac.age = {"peer"}
    BY <1>0, <1>1 DEF Both
  <2> QED
    BY <1>1, <2>1 DEF InOrder, Linked, OnPo, Known, SamePorts, PeerLinkUp
<1>10. Ready(v)
  <2>1. v.mac.age # Both
    BY <1>2, <1>5, SMT DEF SameMac, Both
  <2> QED
    BY <1>2, <1>5, <2>1
       DEF InOrder, Linked, OnPo, Known, SamePorts, SameMac, PeerLinkUp
<1>11. ~Known(s) \/ (s.mac.age # {} /\ s.mac.age # {"local"}) => Ready(s)
  <2>1. s.mac.age # {} /\ s.mac.age # {"local"} /\ s.mac.age # Both
          => s.mac.age = {"peer"}
    BY <1>0 DEF Both
  <2> QED
    BY <1>0, <2>1 DEF InOrder, Aged
<1>12. s.mac.age = {} => t.mac.age # Both
  BY <1>1, SMT DEF Both
<1> HIDE DEF Ready
<1>13. Ready(p)
  BY <1>3, <1>8, <1>9, <1>10, <1>11, <1>12
<1> HIDE DEF p
<1>14. /\ r \in NodeRec /\ r.itf = p.itf /\ r.po = p.po /\ r.pl = p.pl
       /\ r.mac = p.mac /\ r.row = p.row
  <2>1. << >> \in Seq(Message) /\ p \in NodeRec
    BY <1>13, SMT DEF Ready
  <2> QED
    BY <2>1 DEF NodeRec
<1> HIDE DEF r
<1> QED
  BY <1>4, <1>13, <1>14
     DEF Ready, InOrder, Linked, OnPo, Aged, Known, PeerLinkUp

-----------------------------------------------------------------------------
(* The steps.                                                              *)

\* The inductive invariant: both nodes are in order, the channels hold
\* messages.
Inv ==
  /\ node \in [Node -> NodeRec] /\ \A n \in Node : InOrder(node[n])
  /\ chan \in [Node -> Seq(Message)]

\* What a pass sends are messages, and sending changes nothing else.
LEMMA FlushedInOrder ==
  ASSUME NEW s, InOrder(s)
  PROVE  InOrder(Flushed(s)) /\ Written(s) \in Seq(Message)
<1>0. s \in NodeRec /\ << >> \in Seq(Message)
  BY SMT DEF InOrder
<1>1. PoState("STATE", s.po) \in Message
  BY <1>0 DEF PoState, Message, Kinds, Ports, NodeRec
<1>2. Written(s) \in Seq(Message)
  BY <1>0, <1>1, ContentType, SMT DEF Written
<1> DEFINE r == [s EXCEPT !.changed = FALSE, !.list = << >>]
<1>3. /\ r \in NodeRec /\ r.itf = s.itf /\ r.po = s.po /\ r.pl = s.pl
      /\ r.st = s.st /\ r.mac = s.mac /\ r.row = s.row
  BY <1>0 DEF NodeRec
<1>4. Flushed(s) = r \/ Flushed(s) = s
  BY DEF Flushed
<1> HIDE DEF r
<1>5. InOrder(r)
  BY <1>3 DEF InOrder, Linked, OnPo, Aged, Known, PeerLinkUp
<1> QED
  BY <1>2, <1>4, <1>5

\* A pass that leaves node n in order preserves the invariant.
LEMMA PassInv ==
  ASSUME Inv, NEW n \in Node, NEW s, InOrder(s), NEW reply \in Seq(Message),
         NEW ch \in [Node -> Seq(Message)], Pass(n, s, reply, ch)
  PROVE  Inv'
<1>1. InOrder(Flushed(s)) /\ Written(s) \in Seq(Message)
  BY FlushedInOrder
<1> DEFINE ms == reply \o Written(s)
<1>2. ms \in Seq(Message)
  BY <1>1, SMT
<1>3. node' = [node EXCEPT ![n] = Flushed(s)] /\ chan' = Deliver(ch, Peer(n), ms)
  BY DEF Pass
<1> HIDE DEF ms
<1>4. \A k \in Node : ch[k] \o ms \in Seq(Message)
  BY <1>2, SMT
<1>5. chan' \in [Node -> Seq(Message)]
  BY <1>3, <1>4 DEF Deliver
<1>6. Flushed(s) \in NodeRec
  BY <1>1 DEF InOrder
<1> QED
  BY <1>1, <1>3, <1>5, <1>6 DEF Inv

\* A local event that leaves node n in order preserves the invariant.
LEMMA LocalInv ==
  ASSUME Inv, NEW n \in Node, NEW s, InOrder(s), NEW kind, Local(n, s, kind)
  PROVE  Inv'
<1>1. s \in NodeRec
  BY DEF InOrder
<1> QED
  BY <1>1 DEF Inv, Local

\* Init.
LEMMA InvInit == Init => Inv
<1> SUFFICES ASSUME Init PROVE Inv
  OBVIOUS
<1> PICK itf \in PeerItfs : node = [n \in Node |->
       [itf |-> itf, st |-> "off", pif |-> "none", po |-> TRUE, eth |-> TRUE,
        pl |-> TRUE, changed |-> FALSE, po_down_time |-> FALSE,
        mac |-> NoEntry, list |-> << >>, row |-> "none", silent |-> FALSE]]
  BY DEF Init
<1>1. NoEntry \in MacRec /\ NoEntry.origin = "" /\ NoEntry.age = {} /\ {} # Both
  BY DEF NoEntry, MacRec, Ops, Ports, Both
<1>2. << >> \in Seq(Message)
  BY SMT
<1>3. node \in [Node -> NodeRec]
  BY <1>1, <1>2 DEF NodeRec
<1>4. \A n \in Node : InOrder(node[n])
  BY <1>1, <1>3 DEF InOrder, Linked, OnPo, Aged, Known
<1>5. chan \in [Node -> Seq(Message)]
  BY <1>2 DEF Init
<1> QED
  BY <1>3, <1>4, <1>5 DEF Inv

\* A message is handled.
LEMMA ReceiveInv ==
  ASSUME Inv, NEW n \in Node, Receive(n)
  PROVE  Inv'
<1> DEFINE s == node[n]
           m == Head(chan[n])
           ch == [chan EXCEPT ![n] = Tail(@)]
<1>0. InOrder(s) /\ s.st # "off" /\ chan[n] \in Seq(Message) /\ chan[n] # << >>
  BY DEF Inv, Receive
<1>1. m \in Message /\ Tail(chan[n]) \in Seq(Message)
  BY <1>0, SMT
<1>2. ch \in [Node -> Seq(Message)]
  BY <1>1 DEF Inv
<1>3. m.kind \in Kinds /\ m.ifname \in Ports /\ m.up \in BOOLEAN
  BY <1>1 DEF Message
<1>4. CASE m.kind = "SYNC"
  <2> DEFINE a == AggportState(s, m.up)
             e == [a EXCEPT !.st = "exchange"]
             g == [e EXCEPT !.changed = IF n = Standby THEN FALSE ELSE @]
             mine == IF n = Standby THEN <<PoState("SYNC", e.po)>> ELSE << >>
  <2>1. InOrder(a)
    BY <1>0, <1>3, AggportStateInOrder
  <2>2. Pass(n, PeerConn(g), mine, ch)
    BY <1>4 DEF Receive, EnterExchange
  <2> HIDE DEF a
  <2>3. /\ e \in NodeRec /\ e.itf = a.itf /\ e.st = "exchange" /\ e.po = a.po
        /\ e.pl = a.pl /\ e.mac = a.mac /\ e.row = a.row
    BY <2>1 DEF InOrder, NodeRec
  <2> HIDE DEF e
  <2>4. /\ g \in NodeRec /\ g.itf = a.itf /\ g.st = "exchange" /\ g.po = a.po
        /\ g.pl = a.pl /\ g.mac = a.mac /\ g.row = a.row
    BY <2>3 DEF NodeRec
  <2> HIDE DEF g
  <2>5. InOrder(g)
    BY <2>1, <2>4 DEF InOrder, Linked, OnPo, Aged, Known, PeerLinkUp
  <2>6. mine \in Seq(Message)
    <3>1. PoState("SYNC", e.po) \in Message
      BY <2>3 DEF PoState, Message, Kinds, Ports, NodeRec
    <3> QED
      BY <3>1, SMT
  <2> HIDE DEF mine, ch
  <2> QED
    BY <1>2, <2>2, <2>5, <2>6, PeerConnInOrder, PassInv
<1>5. CASE m.kind # "SYNC"
  <2>1. Pass(n, Handled(s, m), << >>, ch)
    BY <1>5 DEF Receive
  <2>2. InOrder(Handled(s, m))
    <3>1. CASE m.kind = "ADD" /\ Known(s)
      BY <1>0, <1>3, <3>1, PeerAddKnownInOrder DEF Handled
    <3>2. CASE m.kind = "ADD" /\ ~Known(s)
      BY <1>0, <1>3, <3>2, PeerAddNewInOrder DEF Handled
    <3>3. CASE m.kind = "DEL"
      BY <1>0, <3>3, PeerDelInOrder DEF Handled
    <3>4. CASE m.kind = "STATE"
      BY <1>0, <1>3, <3>4, AggportStateInOrder DEF Handled
    <3>5. CASE m.kind \notin {"ADD", "DEL", "STATE"}
      BY <1>0, <3>5 DEF Handled
    <3> QED
      BY <3>1, <3>2, <3>3, <3>4, <3>5
  <2>3. << >> \in Seq(Message)
    BY SMT
  <2> HIDE DEF ch
  <2> QED
    BY <1>2, <2>1, <2>2, <2>3, PassInv
<1> QED
  BY <1>4, <1>5

\* Every step.
LEMMA InvNext == Inv /\ [Next]_vars => Inv'
<1> SUFFICES ASSUME Inv, [Next]_vars PROVE Inv'
  OBVIOUS
<1>1. CASE Connect
  <2>1. << >> \in Seq(Message) /\ node[Active].po \in BOOLEAN
    BY SMT DEF Inv, NodeRec, Node
  <2>2. <<PoState("SYNC", node[Active].po)>> \in Seq(Message)
    <3>1. PoState("SYNC", node[Active].po) \in Message
      BY <2>1 DEF PoState, Message, Kinds, Ports
    <3> QED
      BY <3>1, SMT
  <2>3. chan' \in [Node -> Seq(Message)]
    BY <1>1, <2>1, <2>2 DEF Connect
  <2>4. ASSUME NEW n \in Node PROVE InOrder(node'[n]) /\ node'[n] \in NodeRec
    <3> DEFINE s == node[n]
               t == [s EXCEPT !.st = "sync", !.silent = FALSE,
                              !.changed = IF n = Active THEN FALSE ELSE @]
    <3>1. node'[n] = t /\ InOrder(s)
      BY <1>1 DEF Connect, Inv
    <3> HIDE DEF s
    <3>2. /\ t \in NodeRec /\ t.itf = s.itf /\ t.st = "sync" /\ t.po = s.po
          /\ t.pl = s.pl /\ t.mac = s.mac /\ t.row = s.row
      BY <3>1 DEF InOrder, NodeRec
    <3> HIDE DEF t
    <3>3. InOrder(t)
      BY <3>1, <3>2 DEF InOrder, Linked, OnPo, Aged, Known, PeerLinkUp
    <3> QED
      BY <3>1, <3>2, <3>3
  <2>5. node' \in [Node -> NodeRec]
    BY <1>1, <2>4 DEF Connect
  <2> QED
    BY <2>3, <2>4, <2>5 DEF Inv
<1>2. ASSUME NEW n \in Node, Receive(n) PROVE Inv'
  BY <1>2, ReceiveInv
<1>3. ASSUME NEW n \in Node, Send(n) PROVE Inv'
  <2>1. << >> \in Seq(Message) /\ InOrder(node[n]) /\ chan \in [Node -> Seq(Message)]
    BY SMT DEF Inv
  <2>2. Pass(n, node[n], << >>, chan)
    BY <1>3 DEF Send
  <2> QED
    BY <2>1, <2>2, PassInv
<1>4. ASSUME NEW n \in Node, PendingTimer(n) PROVE Inv'
  <2> DEFINE s == [node[n] EXCEPT !.po_down_time = FALSE]
             t == IF s.mac.origin = Po /\ s.mac.pending THEN DropPending(s) ELSE s
  <2>1. node' = [node EXCEPT ![n] = t] /\ chan' = chan
    BY <1>4 DEF PendingTimer
  <2>2. /\ s \in NodeRec /\ s.itf = node[n].itf /\ s.st = node[n].st
        /\ s.po = node[n].po /\ s.pl = node[n].pl /\ s.mac = node[n].mac
        /\ s.row = node[n].row
    <3>1. node[n] \in NodeRec
      BY DEF Inv
    <3> QED
      BY <3>1 DEF NodeRec
  <2> HIDE DEF s
  <2>n. InOrder(node[n])
    BY DEF Inv
  <2>3. InOrder(s)
    BY <2>2, <2>n DEF InOrder, Linked, OnPo, Aged, Known, PeerLinkUp
  <2>4. InOrder(t)
    BY <2>2, <2>3, DropPendingInOrder
  <2> HIDE DEF t
  <2> QED
    BY <2>1, <2>4 DEF Inv, InOrder
<1>5. ASSUME NEW n \in Node, Disconnect(n) PROVE Inv'
  <2> DEFINE t == SessionDisconnect(node[n])
  <2>1. node' = [node EXCEPT ![n] = t] /\ chan' = [chan EXCEPT ![n] = << >>]
    BY <1>5 DEF Disconnect
  <2>2. InOrder(t)
    BY SessionDisconnectInOrder DEF Inv
  <2> HIDE DEF t
  <2>3. << >> \in Seq(Message)
    BY SMT
  <2> QED
    BY <2>1, <2>2, <2>3 DEF Inv, InOrder
<1>6. ASSUME NEW n \in Node, NEW i \in {Po, Orphan}, Learn(n, i) PROVE Inv'
  <2>1. InOrder(node[n])
    BY DEF Inv
  <2>2. InOrder(IF Known(node[n]) THEN LearnKnown(node[n], i) ELSE LearnNew(node[n], i))
    BY <1>6, <2>1, LearnKnownInOrder, LearnNewInOrder
  <2> QED
    BY <1>6, <2>2, LocalInv DEF Learn
<1>7. ASSUME NEW n \in Node, NEW i \in {Po, Orphan}, Age(n, i) PROVE Inv'
  <2>1. InOrder(Forget(node[n], i))
    BY <1>7, ForgetInOrder DEF Inv, Age
  <2> QED
    BY <1>7, <2>1, LocalInv DEF Age
<1>8. ASSUME NEW n \in Node, PoEvent(n) PROVE Inv'
  <2>1. InOrder(PoChange(node[n]))
    BY PoChangeInOrder DEF Inv
  <2> QED
    BY <1>8, <2>1, LocalInv DEF PoEvent
<1>9. ASSUME NEW n \in Node, EthEvent(n) PROVE Inv'
  <2>1. InOrder(EthChange(node[n]))
    BY EthChangeInOrder DEF Inv
  <2> QED
    BY <1>9, <2>1, LocalInv DEF EthEvent
<1>10. ASSUME NEW n \in Node, PeerLinkEvent(n) PROVE Inv'
  <2>1. InOrder(PeerLinkChange(node[n]))
    BY PeerLinkChangeInOrder DEF Inv
  <2> QED
    BY <1>10, <2>1, LocalInv DEF PeerLinkEvent
<1>11. CASE UNCHANGED vars
  BY <1>11 DEF Inv, vars
<1> QED
  BY <1>1, <1>2, <1>3, <1>4, <1>5, <1>6, <1>7, <1>8, <1>9, <1>10, <1>11
     DEF Next

(* An address is on the peer link only while its port-channel is down, and *)
(* is then programmed whenever the peer link is up: Forwarding, for every  *)
(* number of learn, age, port and session events and every peer link name. *)
THEOREM ForwardingAlways == Spec => []Forwarding
<1>1. Inv => Forwarding
  BY ItfFacts DEF Inv, InOrder, Linked, OnPo, Forwarding
<1> QED
  BY <1>1, InvInit, InvNext, PTL DEF Spec

(* An entry both peers have aged is never kept, and no entry of the peer   *)
(* outlives the session: AgeFlags.                                         *)
THEOREM AgeFlagsAlways == Spec => []AgeFlags
<1>1. Inv => AgeFlags
  BY DEF Inv, InOrder, Aged, AgeFlags
<1> QED
  BY <1>1, InvInit, InvNext, PTL DEF Spec

-----------------------------------------------------------------------------
(* What is on its way.  The argument for RemoteIsHeld: a daemon that loses *)
(* an address tells the peer so, and that DEL is the last of what is on    *)
(* its way.  So as long as the peer keeps the address for the daemon, or   *)
(* an ADD is on its way, a daemon without it has a DEL on its way behind.  *)

\* An ADD is on its way; the last of what is on its way is a DEL.
HasAdd(q) == \E k \in DOMAIN q : q[k].kind = "ADD"
EndsDel(q) ==
  \E k \in DOMAIN q : /\ q[k].kind = "DEL"
                      /\ \A j \in DOMAIN q : j > k => q[j].kind # "ADD"
Neutral(q) == \A k \in DOMAIN q : q[k].kind \notin {"ADD", "DEL"}

\* One sequence of messages after another.
LEMMA ConcatType ==
  ASSUME NEW x \in Seq(Message), NEW y \in Seq(Message)
  PROVE  x \o y \in Seq(Message) /\ (x \o y = << >> => y = << >>)
<1>1. x \o y \in Seq(Message) /\ Len(x \o y) = Len(x) + Len(y)
      /\ Len(x) \in Nat /\ Len(y) \in Nat
  BY SMT
<1>2. x \o y = << >> => Len(y) = 0
  BY <1>1, SMT
<1> QED
  BY <1>1, <1>2, SMT

\* The first message and the others.
LEMMA HeadFacts ==
  ASSUME NEW q \in Seq(Message), q # << >>
  PROVE  /\ Head(q) \in Message /\ Tail(q) \in Seq(Message)
         /\ 1 \in DOMAIN q /\ Head(q) = q[1]
  BY SMT

\* What is on its way or queued, in two parts.
LEMMA ConcatNews ==
  ASSUME NEW x \in Seq(Message), NEW y \in Seq(Message)
  PROVE  /\ HasAdd(x \o y) <=> HasAdd(x) \/ HasAdd(y)
         /\ EndsDel(x \o y) <=> EndsDel(y) \/ (~HasAdd(y) /\ EndsDel(x))
<1> DEFINE z == x \o y
<1>1. /\ Len(x) \in Nat /\ Len(y) \in Nat /\ DOMAIN x = 1..Len(x) /\ DOMAIN y = 1..Len(y)
      /\ DOMAIN z = 1..(Len(x) + Len(y))
      /\ \A k \in 1..Len(x) : z[k] = x[k]
      /\ \A k \in 1..Len(y) : z[Len(x) + k] = y[k]
  BY SMT
<1> HIDE DEF z
<1>2. \A k \in DOMAIN z : k \in DOMAIN x \/ \E j \in DOMAIN y : k = Len(x) + j
  <2> TAKE k \in DOMAIN z
  <2>1. CASE k > Len(x)
    <3>1. k - Len(x) \in DOMAIN y /\ k = Len(x) + (k - Len(x))
      BY <1>1, <2>1, SMT
    <3> QED
      BY <3>1
  <2> QED
    BY <1>1, <2>1, SMT
<1>3. /\ \A k \in DOMAIN x : k \in DOMAIN z /\ z[k] = x[k]
      /\ \A j \in DOMAIN y : Len(x) + j \in DOMAIN z /\ z[Len(x) + j] = y[j]
  BY <1>1, SMT
<1>4. HasAdd(z) <=> HasAdd(x) \/ HasAdd(y)
  BY <1>2, <1>3, SMT DEF HasAdd
<1>5. ASSUME EndsDel(y) PROVE EndsDel(z)
  <2> PICK k \in DOMAIN y : /\ y[k].kind = "DEL"
                            /\ \A j \in DOMAIN y : j > k => y[j].kind # "ADD"
    BY <1>5 DEF EndsDel
  <2>1. ASSUME NEW j \in DOMAIN z, j > Len(x) + k PROVE z[j].kind # "ADD"
    <3>1. j - Len(x) \in DOMAIN y /\ j - Len(x) > k /\ j = Len(x) + (j - Len(x))
      BY <1>1, <2>1, SMT
    <3> QED
      BY <1>3, <3>1
  <2> QED
    BY <1>3, <2>1 DEF EndsDel
<1>6. ASSUME ~HasAdd(y), EndsDel(x) PROVE EndsDel(z)
  <2> PICK k \in DOMAIN x : /\ x[k].kind = "DEL"
                            /\ \A j \in DOMAIN x : j > k => x[j].kind # "ADD"
    BY <1>6 DEF EndsDel
  <2>1. ASSUME NEW j \in DOMAIN z, j > k PROVE z[j].kind # "ADD"
    BY <1>2, <1>3, <1>6, <2>1, SMT DEF HasAdd
  <2> QED
    BY <1>3, <2>1 DEF EndsDel
<1>7. ASSUME EndsDel(z) PROVE EndsDel(y) \/ (~HasAdd(y) /\ EndsDel(x))
  <2> PICK k \in DOMAIN z : /\ z[k].kind = "DEL"
                            /\ \A j \in DOMAIN z : j > k => z[j].kind # "ADD"
    BY <1>7 DEF EndsDel
  <2>1. CASE k \in DOMAIN x
    <3>1. \A j \in DOMAIN y : Len(x) + j > k
      BY <1>1, <2>1, SMT
    <3>2. ~HasAdd(y)
      BY <1>3, <3>1 DEF HasAdd
    <3>3. EndsDel(x)
      BY <1>3, <2>1 DEF EndsDel
    <3> QED
      BY <3>2, <3>3
  <2>2. ASSUME NEW i \in DOMAIN y, k = Len(x) + i PROVE EndsDel(y)
    <3>1. \A j \in DOMAIN y : j > i => Len(x) + j > k
      BY <1>1, <2>2, SMT
    <3> QED
      BY <1>3, <2>2, <3>1, SMT DEF EndsDel
  <2> QED
    BY <1>2, <2>1, <2>2
<1> QED
  BY <1>4, <1>5, <1>6, <1>7 DEF z

\* Nothing and other messages say nothing of the address.
LEMMA NeutralNews ==
  /\ HasAdd(<< >>) = FALSE /\ EndsDel(<< >>) = FALSE
  /\ \A q : Neutral(q) => ~HasAdd(q) /\ ~EndsDel(q)
  BY SMT DEF HasAdd, EndsDel, Neutral

\* The first message is handled.
LEMMA TailNews ==
  ASSUME NEW q \in Seq(Message), q # << >>
  PROVE  /\ HasAdd(q) <=> Head(q).kind = "ADD" \/ HasAdd(Tail(q))
         /\ EndsDel(q) <=> EndsDel(Tail(q)) \/ (~HasAdd(Tail(q)) /\ Head(q).kind = "DEL")
<1> DEFINE h == <<Head(q)>>
<1>1. h \in Seq(Message) /\ Tail(q) \in Seq(Message) /\ q = h \o Tail(q)
  BY SMT
<1>2. (HasAdd(h) <=> Head(q).kind = "ADD") /\ (EndsDel(h) <=> Head(q).kind = "DEL")
  <2>1. DOMAIN h = {1} /\ h[1] = Head(q)
    BY SMT
  <2> HIDE DEF h
  <2>2. HasAdd(h) <=> Head(q).kind = "ADD"
    BY <2>1 DEF HasAdd
  <2>3. EndsDel(h) <=> Head(q).kind = "DEL"
    BY <2>1 DEF EndsDel
  <2> QED
    BY <2>2, <2>3
<1> DEFINE r == Tail(q)
<1>3. /\ HasAdd(h \o r) <=> HasAdd(h) \/ HasAdd(r)
      /\ EndsDel(h \o r) <=> EndsDel(r) \/ (~HasAdd(r) /\ EndsDel(h))
  BY <1>1, ConcatNews
<1>4. q = h \o r
  BY <1>1
<1> HIDE DEF h, r
<1>5. /\ HasAdd(q) <=> Head(q).kind = "ADD" \/ HasAdd(r)
      /\ EndsDel(q) <=> EndsDel(r) \/ (~HasAdd(r) /\ Head(q).kind = "DEL")
  BY <1>2, <1>3, <1>4
<1> QED
  BY <1>5 DEF r

\* What the daemon has to send of the address names a port, the entry in
\* mac_msg_list is the last of it, and it is in mac_rb.
Named(q) == \A k \in DOMAIN q : q[k].kind \in {"ADD", "DEL"} => q[k].ifname # ""
Listed(s) ==
  /\ \A k \in DOMAIN s.list : s.list[k] = InTree => k = Len(s.list) /\ Known(s)
  /\ Named(s.list)

\* The daemon does not have the address itself; it has it from no peer.
Bare(s) == Known(s) => "local" \in s.mac.age
PeerOnly(s) == Known(s) => "peer" \in s.mac.age

\* A step from s to t tells the peer of an address lost: what is to be sent
\* ends with a DEL, or nothing was lost.
Unmoved(s, t) ==
  /\ Bare(s) /\ ~s.silent
  /\ HasAdd(Content(t)) => HasAdd(Content(s))
  /\ EndsDel(Content(s)) => EndsDel(Content(t))
Answered(s, t) ==
  /\ Listed(t) /\ t.st = s.st
  /\ ~Exchange(s) /\ s.list = << >> => t.list = << >>
  /\ Exchange(s) /\ ~t.silent /\ Bare(t) => EndsDel(Content(t)) \/ Unmoved(s, t)
\* ... and t has the address from the peer only if s had.
Told(s, t) == Answered(s, t) /\ (PeerOnly(s) => PeerOnly(t))

\* Steps follow each other.
LEMMA AnsweredTwice ==
  ASSUME NEW s, NEW t, NEW u, Answered(s, t), Answered(t, u)
  PROVE  Answered(s, u)
<1>1. /\ Listed(u) /\ u.st = s.st
      /\ ~Exchange(s) /\ s.list = << >> => u.list = << >>
      /\ Exchange(t) <=> Exchange(s)
  BY DEF Answered, Exchange
<1>2. ASSUME Exchange(s), ~u.silent, Bare(u), ~EndsDel(Content(u)) PROVE Unmoved(s, u)
  <2>1. Unmoved(t, u)
    BY <1>1, <1>2 DEF Answered
  <2>2. Unmoved(s, t)
    BY <1>1, <1>2, <2>1 DEF Answered, Unmoved
  <2> QED
    BY <2>1, <2>2 DEF Unmoved
<1> QED
  BY <1>1, <1>2 DEF Answered

\* ... likewise.
LEMMA ToldTwice ==
  ASSUME NEW s, NEW t, NEW u, Told(s, t), Told(t, u)
  PROVE  Told(s, u)
  BY AnsweredTwice DEF Told

\* What is to be sent, message by message.
LEMMA ContentFacts ==
  ASSUME NEW s \in NodeRec
  PROVE  /\ DOMAIN Content(s) = DOMAIN s.list /\ Content(s) \in Seq(Message)
         /\ Len(Content(s)) = Len(s.list)
         /\ \A k \in DOMAIN s.list :
              /\ s.list[k] = InTree => /\ Content(s)[k].kind = s.mac.op
                                       /\ Content(s)[k].ifname = s.mac.origin
                                       /\ Content(s)[k] # InTree
              /\ s.list[k] # InTree => Content(s)[k] = s.list[k]
<1>1. Content(s) \in Seq(Message) /\ s.list \in Seq(Message)
  BY ContentType DEF NodeRec
<1>2. DOMAIN Content(s) = DOMAIN s.list
  BY DEF Content
<1>3. Len(Content(s)) = Len(s.list)
  BY <1>1, <1>2, SMT
<1>4. s.mac.op # "entry"
  BY DEF NodeRec, MacRec, Ops
<1> QED
  BY <1>1, <1>2, <1>3, <1>4 DEF Content, InTree, MacInfo

\* Neither the ports nor the age flags nor what is to be sent changes.
Same(s, t) ==
  /\ t.list = s.list /\ t.mac.op = s.mac.op /\ t.mac.age = s.mac.age
  /\ (Known(t) <=> Known(s)) /\ t.st = s.st /\ t.silent = s.silent

\* What is to be sent is the same but for the port.
LEMMA SameNews ==
  ASSUME NEW s \in NodeRec, NEW t \in NodeRec,
         t.list = s.list, t.mac.op = s.mac.op
  PROVE  /\ HasAdd(Content(t)) <=> HasAdd(Content(s))
         /\ EndsDel(Content(t)) <=> EndsDel(Content(s))
<1>1. /\ DOMAIN Content(t) = DOMAIN Content(s)
      /\ \A k \in DOMAIN Content(s) : Content(t)[k].kind = Content(s)[k].kind
  BY ContentFacts, SMT
<1> QED
  BY <1>1, SMT DEF HasAdd, EndsDel

\* A step that leaves all this alone.
LEMMA SameTold ==
  ASSUME NEW s \in NodeRec, NEW t \in NodeRec, Listed(s), Same(s, t)
  PROVE  Told(s, t)
<1>1. /\ HasAdd(Content(t)) <=> HasAdd(Content(s))
      /\ EndsDel(Content(t)) <=> EndsDel(Content(s))
  BY SameNews DEF Same
<1>2. Listed(t) /\ (Bare(t) <=> Bare(s)) /\ (PeerOnly(t) <=> PeerOnly(s))
  BY DEF Same, Listed, Bare, PeerOnly
<1> QED
  BY <1>1, <1>2 DEF Told, Answered, Unmoved, Same

\* The three that program the switch, and others that set one field.
LEMMA ChipSame ==
  ASSUME NEW s \in NodeRec, NEW i \in Ports \cup PeerItfs
  PROVE  /\ AddToChip(s) \in NodeRec /\ Same(s, AddToChip(s))
         /\ DelFromChip(s) \in NodeRec /\ Same(s, DelFromChip(s))
         /\ MoveTo(s, i) \in NodeRec /\ Same(s, MoveTo(s, i))
<1>1. AddToChip(s) \in NodeRec /\ DelFromChip(s) \in NodeRec /\ MoveTo(s, i) \in NodeRec
  BY AddFacts, DelFacts, MoveFacts
<1>2. Same(s, AddToChip(s)) /\ Same(s, DelFromChip(s))
  BY DEF AddToChip, DelFromChip, Same, Known, NodeRec, MacRec
<1>3. Same(s, MoveTo(s, i))
  BY DEF MoveTo, Same, Known, NodeRec, MacRec
<1> QED
  BY <1>1, <1>2, <1>3

\* The entry is queued last, or is the last in the queue.
LEMMA EnqueueNews ==
  ASSUME NEW s \in NodeRec, NEW op \in Ops, Listed(s), Known(s)
  PROVE  LET t == Enqueue(s, op) IN
         /\ t \in NodeRec /\ Listed(t) /\ Known(t)
         /\ t.st = s.st /\ t.mac.age = s.mac.age
         /\ op = "DEL" => EndsDel(Content(t))
<1> DEFINE t == Enqueue(s, op)
           L == IF \E k \in DOMAIN s.list : s.list[k] = InTree THEN s.list
                ELSE Append(s.list, InTree)
<1>1. t \in NodeRec /\ t.st = s.st /\ t.mac.age = s.mac.age /\ t.mac.origin = s.mac.origin
  BY EnqueueFacts DEF SamePorts, SameMac
<1>2. t.mac.op = op /\ t.list = L
  BY DEF Enqueue, NodeRec, MacRec
<1>3. s.list \in Seq(Message) /\ InTree \in Message /\ InTree.kind = "entry"
  BY DEF NodeRec, InTree, MacInfo, Message, Kinds, Ports
<1>4. /\ L \in Seq(Message) /\ Len(L) \in DOMAIN L /\ L[Len(L)] = InTree
      /\ \A k \in DOMAIN L : L[k] = InTree => k = Len(L)
      /\ \A k \in DOMAIN L : L[k] = InTree \/ (k \in DOMAIN s.list /\ L[k] = s.list[k])
  <2>1. CASE \E k \in DOMAIN s.list : s.list[k] = InTree
    BY <2>1, <1>3 DEF Listed
  <2>2. CASE ~\E k \in DOMAIN s.list : s.list[k] = InTree
    <3>1. L = Append(s.list, InTree)
      BY <2>2
    <3> HIDE DEF L
    <3>2. /\ L \in Seq(Message) /\ Len(L) = Len(s.list) + 1 /\ L[Len(L)] = InTree
          /\ DOMAIN L = 1..Len(L) /\ DOMAIN s.list = 1..Len(s.list) /\ Len(s.list) \in Nat
          /\ \A k \in 1..Len(s.list) : L[k] = s.list[k]
      BY <3>1, <1>3, SMT
    <3> QED
      BY <3>2, <2>2, SMT
  <2> QED
    BY <2>1, <2>2
<1> HIDE DEF t, L
<1>5. Known(t)
  BY <1>1 DEF Known
<1>6. Listed(t)
  <2>1. Named(s.list)
    BY DEF Listed
  <2>2. Named(L)
    <3> SUFFICES ASSUME NEW k \in DOMAIN L, L[k].kind \in {"ADD", "DEL"}
                 PROVE  L[k].ifname # ""
      BY DEF Named
    <3>1. k \in DOMAIN s.list /\ L[k] = s.list[k]
      BY <1>3, <1>4
    <3> QED
      BY <2>1, <3>1 DEF Named
  <2> QED
    BY <1>2, <1>4, <1>5, <2>2 DEF Listed
<1>7. ASSUME op = "DEL" PROVE EndsDel(Content(t))
  <2>1. DOMAIN Content(t) = DOMAIN L /\ Content(t)[Len(L)].kind = "DEL"
    BY <1>1, <1>2, <1>4, <1>7, ContentFacts
  <2>2. \A j \in DOMAIN L : ~(j > Len(L))
    BY <1>4, SMT
  <2> QED
    BY <2>1, <2>2, <1>4 DEF EndsDel
<1> QED
  BY <1>1, <1>2, <1>5, <1>6, <1>7 DEF t

\* A removed entry is sent as it was.
LEMMA RemoveNews ==
  ASSUME NEW s \in NodeRec, Listed(s)
  PROVE  LET t == Remove(s) IN
         /\ t \in NodeRec /\ Listed(t) /\ ~Known(t)
         /\ t.st = s.st /\ t.silent = s.silent
         /\ s.list = << >> => t.list = << >>
         /\ HasAdd(Content(t)) <=> HasAdd(Content(s))
         /\ EndsDel(Content(t)) <=> EndsDel(Content(s))
<1> DEFINE t == Remove(s)
<1>0. NoEntry.origin = ""
  BY DEF NoEntry
<1>1. t \in NodeRec /\ t.st = s.st /\ ~Known(t)
  BY <1>0, RemoveFacts DEF SamePorts, Known
<1>2. t.silent = s.silent /\ t.list = Content(s)
  BY DEF Remove, NodeRec
<1> HIDE DEF t
<1>3. /\ DOMAIN t.list = DOMAIN s.list
      /\ \A k \in DOMAIN s.list : /\ t.list[k] # InTree
                                  /\ s.list[k] # InTree => t.list[k] = s.list[k]
                                  /\ s.list[k] = InTree => t.list[k].ifname = s.mac.origin
  BY <1>2, ContentFacts, SMT
<1>4. Listed(t)
  BY <1>3 DEF Listed, Named, Known
<1>5. s.list = << >> => t.list = << >>
  BY <1>2, SMT DEF Content
<1>6. /\ DOMAIN Content(t) = DOMAIN Content(s)
      /\ \A k \in DOMAIN Content(s) : Content(t)[k] = Content(s)[k]
  BY <1>1, <1>2, <1>3, ContentFacts, SMT
<1>7. HasAdd(Content(t)) <=> HasAdd(Content(s))
  BY <1>6 DEF HasAdd
<1>8. EndsDel(Content(t)) <=> EndsDel(Content(s))
  BY <1>6 DEF EndsDel
<1> QED
  BY <1>1, <1>2, <1>4, <1>5, <1>7, <1>8 DEF t

\* An address the daemon does not have is removed.
LEMMA RemoveTold ==
  ASSUME NEW s \in NodeRec, Listed(s), Bare(s)
  PROVE  Remove(s) \in NodeRec /\ Told(s, Remove(s))
<1> DEFINE t == Remove(s)
<1>1. /\ t \in NodeRec /\ Listed(t) /\ ~Known(t)
      /\ t.st = s.st /\ t.silent = s.silent
      /\ s.list = << >> => t.list = << >>
      /\ HasAdd(Content(t)) <=> HasAdd(Content(s))
      /\ EndsDel(Content(t)) <=> EndsDel(Content(s))
  BY RemoveNews
<1> HIDE DEF t
<1>2. Told(s, t)
  BY <1>1 DEF Told, Answered, Unmoved, PeerOnly
<1> QED
  BY <1>1, <1>2 DEF t

\* The daemon has the address.
LEMMA HeldTold ==
  ASSUME NEW s \in NodeRec, NEW t \in NodeRec, Listed(t), Known(t),
         "local" \notin t.mac.age, t.st = s.st,
         ~Exchange(s) => t.list = s.list,
         PeerOnly(s) => "peer" \in t.mac.age
  PROVE  Told(s, t)
<1>1. ~Bare(t)
  BY DEF Bare
<1> QED
  BY <1>1 DEF Told, Answered, PeerOnly

\* set_mac_local_age_flag tells the peer.
LEMMA SetLocalTold ==
  ASSUME NEW s \in NodeRec, Listed(s), Known(s)
  PROVE  SetLocalAge(s) \in NodeRec /\ Told(s, SetLocalAge(s))
<1> DEFINE u == [s EXCEPT !.mac.age = @ \cup {"local"}]
<1>1. /\ u \in NodeRec /\ u.list = s.list /\ u.mac.op = s.mac.op /\ Known(u)
      /\ u.mac.age = s.mac.age \cup {"local"} /\ u.st = s.st /\ u.silent = s.silent
  BY DEF NodeRec, MacRec, Both, Known
<1> HIDE DEF u
<1>2. Listed(u)
  BY <1>1 DEF Listed
<1>3. CASE "local" \in s.mac.age
  <2>1. SetLocalAge(s) = u /\ u.mac.age = s.mac.age
    BY <1>1, <1>3 DEF SetLocalAge, u
  <2> QED
    BY <1>1, <2>1, SameTold DEF Same
<1>4. CASE "local" \notin s.mac.age /\ ~Exchange(s)
  <2>1. SetLocalAge(s) = u
    BY <1>4 DEF SetLocalAge, u
  <2> QED
    BY <1>1, <1>2, <1>4, <2>1 DEF Told, Answered, PeerOnly
<1>5. CASE "local" \notin s.mac.age /\ Exchange(s)
  <2> DEFINE t == Enqueue(u, "DEL")
  <2>1. SetLocalAge(s) = t
    BY <1>5 DEF SetLocalAge, u
  <2>2. /\ t \in NodeRec /\ Listed(t) /\ Known(t)
        /\ t.st = u.st /\ t.mac.age = u.mac.age
        /\ EndsDel(Content(t))
    BY <1>1, <1>2, EnqueueNews DEF Ops
  <2> HIDE DEF t
  <2>3. Told(s, t)
    BY <1>1, <1>5, <2>2 DEF Told, Answered, PeerOnly
  <2> QED
    BY <2>1, <2>2, <2>3
<1> QED
  BY <1>3, <1>4, <1>5

-----------------------------------------------------------------------------
(* The handlers tell the peer.                                             *)

Reach(s, t) == s \in NodeRec /\ t \in NodeRec /\ Told(s, t)

\* A step can be followed by one that tells the peer, and by one that has
\* nothing to tell.
LEMMA ThenTold ==
  ASSUME NEW s, NEW t, Reach(s, t)
  PROVE  /\ \A u \in NodeRec : Told(t, u) => Reach(s, u)
         /\ \A u \in NodeRec : Same(t, u) => Reach(s, u)
<1>1. t \in NodeRec /\ Listed(t)
  BY DEF Reach, Told, Answered
<1>2. \A u \in NodeRec : Told(t, u) => Reach(s, u)
  BY ToldTwice DEF Reach
<1> QED
  BY <1>1, <1>2, SameTold

\* Nothing happens.
LEMMA ReachSelf ==
  ASSUME NEW s \in NodeRec, Listed(s)
  PROVE  Reach(s, s)
  BY SameTold DEF Reach, Same

\* The switch is programmed, or an address the daemon does not have is removed.
LEMMA ThenChip ==
  ASSUME NEW s, NEW t, Reach(s, t), NEW i \in Ports \cup PeerItfs
  PROVE  /\ Reach(s, AddToChip(t)) /\ Reach(s, DelFromChip(t)) /\ Reach(s, MoveTo(t, i))
         /\ Bare(t) => Reach(s, Remove(t)) /\ Reach(s, Remove(DelFromChip(t)))
<1>1. t \in NodeRec /\ Listed(t)
  BY DEF Reach, Told, Answered
<1>2. Reach(s, AddToChip(t)) /\ Reach(s, DelFromChip(t)) /\ Reach(s, MoveTo(t, i))
  BY <1>1, ChipSame, ThenTold
<1>3. Bare(t) => Reach(s, Remove(t))
  BY <1>1, RemoveTold, ThenTold
<1> DEFINE u == DelFromChip(t)
<1>4. u \in NodeRec /\ Listed(u) /\ Reach(s, u) /\ (Bare(t) => Bare(u))
  BY <1>1, <1>2, ChipSame DEF Reach, Told, Answered, Same, Bare
<1> HIDE DEF u
<1>5. Bare(t) => Reach(s, Remove(u))
  BY <1>4, RemoveTold, ThenTold
<1> QED
  BY <1>2, <1>3, <1>5 DEF u

\* The daemon loses the address.
LEMMA LostReach ==
  ASSUME NEW s \in NodeRec, Listed(s), Known(s)
  PROVE  LET d == SetLocalAge(s) IN
         Reach(s, d) /\ Bare(d) /\ d.itf = s.itf /\ d.mac.age = s.mac.age \cup {"local"}
<1> DEFINE d == SetLocalAge(s)
<1>1. d \in NodeRec /\ Told(s, d)
  BY SetLocalTold
<1>2. d.itf = s.itf /\ d.mac.age = s.mac.age \cup {"local"}
  BY SetLocalFacts DEF SamePorts
<1> HIDE DEF d
<1> QED
  BY <1>1, <1>2 DEF Reach, Bare, d

\* A pending entry is dropped: what is queued of it is a DEL, or silent is set.
LEMMA DropPendingReach ==
  ASSUME NEW s \in NodeRec, Listed(s)
  PROVE  Reach(s, DropPending(s))
<1> DEFINE d == DelFromChip(s)
           w == /\ "local" \notin s.mac.age
                /\ \A k \in DOMAIN s.list : s.list[k] # InTree
           q == d.silent \/ w
           u == [d EXCEPT !.mac.op = "DEL", !.silent = q]
           t == Remove(u)
<1>1. d \in NodeRec /\ Same(s, d) /\ q \in BOOLEAN
  BY ChipSame DEF Ports
<1>w. w \/ "local" \in s.mac.age \/ \E k \in DOMAIN s.list : s.list[k] = InTree
  OBVIOUS
<1> HIDE DEF d, w, q
<1>2. /\ u \in NodeRec /\ u.list = d.list /\ u.mac.op = "DEL" /\ u.mac.origin = d.mac.origin
      /\ u.st = d.st /\ u.silent = q
  BY <1>1, ZenonT(30) DEF NodeRec, MacRec, Ops
<1>3. DropPending(s) = t
  BY DEF DropPending, d, w, q
<1> HIDE DEF u
<1>4. Listed(u) /\ u.list = s.list /\ u.st = s.st
  BY <1>1, <1>2 DEF Listed, Same, Known
<1>q. s.silent \/ w => q
  BY <1>1 DEF Same, q
<1>5. /\ t \in NodeRec /\ Listed(t) /\ ~Known(t)
      /\ t.st = u.st /\ t.silent = u.silent
      /\ u.list = << >> => t.list = << >>
      /\ HasAdd(Content(t)) <=> HasAdd(Content(u))
      /\ EndsDel(Content(t)) <=> EndsDel(Content(u))
  BY <1>2, <1>4, RemoveNews
<1> HIDE DEF t
<1>6. ASSUME NEW k \in DOMAIN s.list, s.list[k] = InTree PROVE EndsDel(Content(u))
  <2>1. k = Len(u.list) /\ u.list \in Seq(Message)
    BY <1>2, <1>4, <1>6 DEF Listed, NodeRec
  <2>2. DOMAIN Content(u) = DOMAIN u.list /\ Content(u)[k].kind = "DEL"
    BY <1>2, <1>4, <1>6, ContentFacts
  <2>3. \A j \in DOMAIN u.list : ~(j > k)
    BY <2>1, SMT
  <2> QED
    BY <1>4, <2>2, <2>3 DEF EndsDel
<1>7. ASSUME \A k \in DOMAIN s.list : s.list[k] # InTree
      PROVE  /\ HasAdd(Content(u)) <=> HasAdd(Content(s))
             /\ EndsDel(Content(u)) <=> EndsDel(Content(s))
  <2>1. /\ DOMAIN Content(u) = DOMAIN Content(s)
        /\ \A k \in DOMAIN Content(s) : Content(u)[k] = Content(s)[k]
    BY <1>2, <1>4, <1>7, ContentFacts, SMT
  <2> QED
    BY <2>1 DEF HasAdd, EndsDel
<1>8. ASSUME ~t.silent PROVE EndsDel(Content(t)) \/ Unmoved(s, t)
  <2>1. ~s.silent /\ ~w
    BY <1>2, <1>q, <1>5, <1>8
  <2>2. CASE \E k \in DOMAIN s.list : s.list[k] = InTree
    BY <1>5, <1>6, <2>2
  <2>3. CASE \A k \in DOMAIN s.list : s.list[k] # InTree
    <3>1. Bare(s)
      BY <1>w, <2>1, <2>3 DEF Bare
    <3> QED
      BY <1>5, <1>7, <2>1, <2>3, <3>1 DEF Unmoved
  <2> QED
    BY <2>2, <2>3
<1>9. Told(s, t)
  BY <1>4, <1>5, <1>8 DEF Told, Answered, PeerOnly
<1> QED
  BY <1>3, <1>5, <1>9 DEF Reach

\* Port-channel up.
LEMMA PoUpMacReach ==
  ASSUME NEW s \in NodeRec, Listed(s)
  PROVE  Reach(s, PoUpMac(s))
<1>1. CASE s.mac.ifname = s.itf
  <2> DEFINE u == [s EXCEPT !.mac.pending = FALSE]
  <2>1. PoUpMac(s) = AddToChip(MoveTo(u, s.mac.origin))
    BY <1>1 DEF PoUpMac
  <2>2. u \in NodeRec /\ Same(s, u)
    BY DEF NodeRec, MacRec, Same, Known
  <2> HIDE DEF u
  <2>3. Reach(s, u)
    BY <2>2, SameTold DEF Reach
  <2>4. s.mac.origin \in Ports \cup PeerItfs
    BY DEF NodeRec, MacRec
  <2>5. Reach(s, MoveTo(u, s.mac.origin))
    BY <2>3, <2>4, ThenChip
  <2> QED
    BY <2>1, <2>5, ThenChip DEF Ports
<1>2. CASE s.mac.ifname # s.itf
  <2>1. PoUpMac(s) = IF s.mac.pending THEN DropPending(s) ELSE s
    BY <1>2 DEF PoUpMac
  <2> QED
    BY <2>1, DropPendingReach, ReachSelf
<1> QED
  BY <1>1, <1>2

\* Port-channel down: an address that is not kept pending is lost.
LEMMA PoDownMacReach ==
  ASSUME NEW s \in NodeRec, Listed(s), Known(s)
  PROVE  Reach(s, PoDownMac(s))
<1> DEFINE d == SetLocalAge(s)
           redirect(t) == IF PeerLinkUp(s) THEN AddToChip(MoveTo(t, s.itf))
                          ELSE MoveTo(DelFromChip(t), s.itf)
<1>0. s.itf \in Ports \cup PeerItfs
  BY DEF NodeRec
<1>1. ASSUME NEW t, Reach(s, t) PROVE Reach(s, redirect(t))
  <2>1. Reach(s, AddToChip(MoveTo(t, s.itf)))
    BY <1>0, <1>1, ThenChip
  <2>2. Reach(s, MoveTo(DelFromChip(t), s.itf))
    BY <1>0, <1>1, ThenChip
  <2> QED
    BY <2>1, <2>2
<1>2. Reach(s, d) /\ Bare(d)
  BY LostReach
<1>3. PoDownMac(s) = IF s.mac.age = {"peer"} /\ s.pif = "up"
                     THEN [redirect(s) EXCEPT !.mac.pending = TRUE]
                     ELSE IF d.mac.age = Both THEN Remove(DelFromChip(d))
                     ELSE IF s.itf # "" THEN redirect(d) ELSE DelFromChip(d)
  BY DEF PoDownMac
<1> DEFINE r == redirect(s)
           p == [r EXCEPT !.mac.pending = TRUE]
<1>4. Reach(s, r)
  BY <1>1, ReachSelf
<1>5. Reach(s, redirect(d))
  BY <1>1, <1>2
<1> HIDE DEF d, redirect, r
<1>6. Reach(s, p)
  <2>1. p \in NodeRec /\ Same(r, p)
    BY <1>4 DEF Reach, NodeRec, MacRec, Same, Known
  <2> QED
    BY <1>4, <2>1, ThenTold
<1>7. Reach(s, Remove(DelFromChip(d))) /\ Reach(s, DelFromChip(d))
  BY <1>0, <1>2, ThenChip
<1> QED
  BY <1>3, <1>5, <1>6, <1>7 DEF r

\* update_l2_mac_state.
LEMMA UpdateL2Reach ==
  ASSUME NEW s \in NodeRec, Listed(s)
  PROVE  Reach(s, UpdateL2MacState(s))
<1> DEFINE t == [s EXCEPT !.po_down_time = ~s.po]
<1>1. t \in NodeRec /\ Same(s, t) /\ t.mac = s.mac
  BY DEF NodeRec, Same, Known
<1>2. UpdateL2MacState(s) = IF s.mac.origin # Po THEN t
                            ELSE IF s.po THEN PoUpMac(t) ELSE PoDownMac(t)
  BY DEF UpdateL2MacState
<1> HIDE DEF t
<1>3. Reach(s, t) /\ Listed(t)
  BY <1>1, SameTold DEF Reach, Same, Listed
<1>4. Reach(s, PoUpMac(t))
  BY <1>1, <1>3, PoUpMacReach, ThenTold DEF Reach
<1>5. s.mac.origin = Po => Reach(s, PoDownMac(t))
  <2>1. s.mac.origin = Po => Known(t)
    BY <1>1 DEF Known, Po
  <2> QED
    BY <1>1, <1>3, <2>1, PoDownMacReach, ThenTold DEF Reach
<1> QED
  BY <1>2, <1>3, <1>4, <1>5

\* The port-channel changes.
LEMMA PoChangeReach ==
  ASSUME NEW s \in NodeRec, Listed(s)
  PROVE  Reach(s, PoChange(s))
<1> DEFINE t == [s EXCEPT !.po = ~@, !.changed = TRUE]
<1>1. t \in NodeRec /\ Same(s, t)
  BY DEF NodeRec, Same, Known
<1>2. PoChange(s) = UpdateL2MacState(t)
  BY DEF PoChange
<1> HIDE DEF t
<1>3. Reach(s, t) /\ Listed(t)
  BY <1>1, SameTold DEF Reach, Same, Listed
<1> QED
  BY <1>1, <1>2, <1>3, UpdateL2Reach, ThenTold DEF Reach

\* The orphan port changes: an address the daemon has is sent again.
LEMMA EthChangeReach ==
  ASSUME NEW s \in NodeRec, Listed(s)
  PROVE  Reach(s, EthChange(s))
<1> DEFINE t == [s EXCEPT !.eth = ~@]
           u == Enqueue(t, "ADD")
<1>1. t \in NodeRec /\ Same(s, t) /\ t.mac = s.mac
  BY DEF NodeRec, Same, Known
<1>2. EthChange(s) = t \/ (/\ EthChange(s) = u /\ s.mac.origin = Orphan
                           /\ s.mac.age = {"peer"} /\ Exchange(s))
  BY DEF EthChange
<1> HIDE DEF t
<1>3. Reach(s, t) /\ Listed(t)
  BY <1>1, SameTold DEF Reach, Same, Listed
<1>4. ASSUME s.mac.origin = Orphan, s.mac.age = {"peer"}, Exchange(s)
      PROVE  Reach(s, u)
  <2>1. Known(t)
    BY <1>1, <1>4 DEF Known, Orphan
  <2>2. /\ u \in NodeRec /\ Listed(u) /\ Known(u)
        /\ u.st = t.st /\ u.mac.age = t.mac.age
    BY <1>1, <1>3, <2>1, EnqueueNews DEF Ops
  <2> HIDE DEF u
  <2> QED
    BY <1>1, <1>4, <2>2, HeldTold, SMT DEF Reach, Same
<1> QED
  BY <1>2, <1>3, <1>4

\* The peer link changes.
LEMMA PeerLinkChangeReach ==
  ASSUME NEW s \in NodeRec, Listed(s)
  PROVE  Reach(s, PeerLinkChange(s))
<1> DEFINE t == [s EXCEPT !.pl = ~@]
           x == IF s.mac.pending THEN t ELSE SetLocalAge(t)
           d == DelFromChip(x)
<1>1. t \in NodeRec /\ Same(s, t)
  BY DEF NodeRec, Same, Known
<1>2. PeerLinkChange(s) = IF ~(Known(s) /\ s.mac.ifname = s.itf) THEN t
                          ELSE IF t.pl THEN AddToChip(t)
                          ELSE IF d.mac.age = Both THEN Remove(d) ELSE d
  BY DEF PeerLinkChange
<1> HIDE DEF t
<1>3. Reach(s, t) /\ Listed(t) /\ (Known(t) <=> Known(s))
  BY <1>1, SameTold DEF Reach, Same, Listed
<1>4. Reach(s, AddToChip(t))
  BY <1>3, ThenChip DEF Ports
<1>5. ASSUME Known(s) PROVE Reach(s, d) /\ (d.mac.age = Both => Reach(s, Remove(d)))
  <2>1. Reach(s, SetLocalAge(t))
    BY <1>1, <1>3, <1>5, SetLocalTold, ThenTold
  <2>2. Reach(s, x)
    BY <1>3, <2>1
  <2> HIDE DEF x
  <2>3. Reach(s, d)
    BY <2>2, ThenChip DEF Ports
  <2> HIDE DEF d
  <2>4. d.mac.age = Both => Bare(d)
    BY DEF Bare, Both
  <2> QED
    BY <2>3, <2>4, ThenChip DEF Ports
<1> QED
  BY <1>2, <1>3, <1>4, <1>5

\* The address is learned again: the daemon has it, but for one pending.
LEMMA LearnKnownReach ==
  ASSUME NEW s \in NodeRec, Listed(s), Known(s), NEW i \in {Po, Orphan}
  PROVE  Reach(s, LearnKnown(s, i))
<1>0. i \in Ports /\ i # "" /\ s.itf \in PeerItfs
  BY DEF Po, Orphan, Ports, NodeRec
<1>1. CASE i = Po /\ ~s.po /\ s.pif = "up"
  <2> DEFINE u == [s EXCEPT !.mac.pending = TRUE, !.mac.origin = i, !.mac.ifname = s.itf]
  <2>1. LearnKnown(s, i) = AddToChip(u)
    BY <1>1 DEF LearnKnown
  <2>2. u \in NodeRec /\ Same(s, u)
    BY <1>0 DEF NodeRec, MacRec, Same, Known
  <2> HIDE DEF u
  <2>3. Reach(s, u)
    BY <2>2, SameTold DEF Reach
  <2> QED
    BY <2>1, <2>3, ThenChip DEF Ports
<1>2. CASE ~(i = Po /\ ~s.po /\ s.pif = "up")
  <2> DEFINE moved == s.mac.ifname # i \/ s.mac.origin # i
             u == [s EXCEPT !.mac.ifname = i, !.mac.origin = i]
             v == [u EXCEPT !.mac.age = @ \ {"local"}]
             w == Enqueue(v, "ADD")
             t == ClearLocalAge(u)
             age == IF moved THEN {"peer"} ELSE t.mac.age
             r == [t EXCEPT !.row = "none", !.mac.age = age]
  <2>1. LearnKnown(s, i) = r
    BY <1>2 DEF LearnKnown
  <2>2. /\ u \in NodeRec /\ u.mac.origin = i /\ u.mac.age = s.mac.age
        /\ u.list = s.list /\ u.st = s.st
    BY <1>0 DEF NodeRec, MacRec
  <2>3. t \in {v, w} /\ (~Exchange(u) => t = v)
    BY DEF ClearLocalAge
  <2> HIDE DEF u, t
  <2>4. /\ v \in NodeRec /\ v.mac.origin = i /\ v.mac.age = s.mac.age \ {"local"}
        /\ v.list = s.list /\ v.st = s.st
    BY <2>2 DEF NodeRec, MacRec, Both
  <2> HIDE DEF v
  <2>5. Known(v) /\ Listed(v)
    BY <1>0, <2>4 DEF Known, Listed
  <2>6. w \in NodeRec /\ Listed(w) /\ Known(w) /\ w.st = v.st /\ w.mac.age = v.mac.age
    BY <2>4, <2>5, EnqueueNews DEF Ops
  <2> HIDE DEF w
  <2>7. /\ t \in NodeRec /\ Listed(t) /\ Known(t) /\ t.st = s.st
        /\ t.mac.age = s.mac.age \ {"local"} /\ (~Exchange(s) => t.list = s.list)
    BY <2>2, <2>3, <2>4, <2>5, <2>6 DEF Exchange
  <2>8. /\ age \in SUBSET Both /\ "local" \notin age
        /\ PeerOnly(s) => "peer" \in age
    BY <2>7 DEF Both, PeerOnly, NodeRec, MacRec
  <2> HIDE DEF age
  <2>9. /\ r \in NodeRec /\ r.list = t.list /\ r.st = t.st /\ r.mac.age = age
        /\ r.mac.origin = t.mac.origin
    BY <2>7, <2>8 DEF NodeRec, MacRec
  <2> HIDE DEF r
  <2>10. Known(r) /\ Listed(r)
    BY <2>7, <2>9 DEF Known, Listed
  <2> QED
    BY <2>1, <2>7, <2>8, <2>9, <2>10, HeldTold DEF Reach
<1> QED
  BY <1>1, <1>2

\* A new address is learned, or none is kept.
LEMMA LearnNewReach ==
  ASSUME NEW s \in NodeRec, Listed(s), ~Known(s), NEW i \in {Po, Orphan}
  PROVE  Reach(s, LearnNew(s, i))
<1> DEFINE m == Entry(i, {"peer"}, "ADD")
           t == [s EXCEPT !.mac = m]
           u == Enqueue(t, "ADD")
           v == [t EXCEPT !.row = s.itf]
           w == [s EXCEPT !.row = "none"]
<1>0. /\ m \in MacRec /\ m.origin # "" /\ m.age = {"peer"}
      /\ s.itf \in PeerItfs
  BY DEF Entry, NoEntry, MacRec, Ports, Ops, Both, Po, Orphan, NodeRec
<1>1. \/ LearnNew(s, i) \in {t, v, w}
      \/ LearnNew(s, i) = u /\ Exchange(s)
  <2>1. s.pif \in {"none", "up", "down"}
    BY DEF NodeRec
  <2> QED
    BY <2>1 DEF LearnNew
<1> HIDE DEF m
<1>2. t \in NodeRec /\ t.list = s.list /\ t.st = s.st /\ t.mac = m
  BY <1>0 DEF NodeRec
<1> HIDE DEF t
<1>3. Known(t) /\ Listed(t)
  BY <1>0, <1>2 DEF Known, Listed
<1>4. Reach(s, t)
  BY <1>0, <1>2, <1>3, HeldTold DEF Reach
<1>5. ASSUME Exchange(s) PROVE Reach(s, u)
  <2>1. u \in NodeRec /\ Listed(u) /\ Known(u) /\ u.st = t.st /\ u.mac.age = t.mac.age
    BY <1>2, <1>3, EnqueueNews DEF Ops
  <2> HIDE DEF u
  <2>2. t.mac.age = {"peer"} /\ t.st = s.st
    BY <1>0, <1>2
  <2>3. u.mac.age = {"peer"} /\ u.st = s.st
    BY <2>1, <2>2
  <2>4. Told(s, u)
    BY <1>5, <2>1, <2>3, HeldTold
  <2> QED
    BY <2>1, <2>4 DEF Reach
<1>6. Reach(s, v)
  <2>1. v \in NodeRec /\ Same(t, v)
    BY <1>0, <1>2 DEF NodeRec, Same, Known
  <2> QED
    BY <1>4, <2>1, ThenTold
<1>7. Reach(s, w)
  <2>1. w \in NodeRec /\ Same(s, w)
    BY DEF NodeRec, Same, Known
  <2> QED
    BY <2>1, SameTold DEF Reach
<1> HIDE DEF u, v, w
<1> QED
  BY <1>1, <1>4, <1>5, <1>6, <1>7

\* mclagsyncd reports the address aged.
LEMMA ForgetReach ==
  ASSUME NEW s \in NodeRec, Listed(s), Known(s), NEW i \in {Po, Orphan}
  PROVE  Reach(s, Forget(s, i))
<1> DEFINE d == SetLocalAge(s)
           x == IF d.mac.add_to_syncd THEN DelFromChip(d) ELSE d
<1>0. s.itf \in Ports \cup PeerItfs
  BY DEF NodeRec
<1>1. Reach(s, d) /\ Bare(d)
  BY LostReach
<1>2. Forget(s, i) \in {s, Remove(x), AddToChip(d), d, AddToChip(MoveTo(d, s.itf)),
                        MoveTo(d, s.itf)}
  BY DEF Forget
<1> HIDE DEF d
<1>3. Reach(s, AddToChip(d)) /\ Reach(s, MoveTo(d, s.itf))
  BY <1>0, <1>1, ThenChip
<1>4. Reach(s, AddToChip(MoveTo(d, s.itf)))
  BY <1>0, <1>3, ThenChip
<1>5. Reach(s, Remove(x))
  BY <1>0, <1>1, ThenChip
<1> HIDE DEF x
<1> QED
  BY <1>1, <1>2, <1>3, <1>4, <1>5, ReachSelf

\* What the daemon has is sent when the session comes up.
LEMMA PeerConnReach ==
  ASSUME NEW s \in NodeRec, Listed(s), Exchange(s)
  PROVE  Reach(s, PeerConn(s))
<1> DEFINE t == SyncMac(s)
           u == Enqueue(s, "ADD")
<1>1. t = s \/ (t = u /\ Known(s) /\ "local" \notin s.mac.age)
  BY DEF SyncMac
<1> HIDE DEF t
<1>2. ASSUME Known(s), "local" \notin s.mac.age PROVE Reach(s, u)
  <2>1. u \in NodeRec /\ Listed(u) /\ Known(u) /\ u.st = s.st /\ u.mac.age = s.mac.age
    BY <1>2, EnqueueNews DEF Ops
  <2> HIDE DEF u
  <2> QED
    BY <1>2, <2>1, HeldTold DEF Reach, PeerOnly
<1> HIDE DEF u
<1>3. Reach(s, t)
  BY <1>1, <1>2, ReachSelf
<1>4. t \in NodeRec /\ Listed(t)
  BY <1>3 DEF Reach, Told, Answered
<1>5. Reach(t, UpdateL2MacState(t))
  BY <1>4, UpdateL2Reach
<1>6. Reach(s, UpdateL2MacState(t))
  BY <1>3, <1>5, ThenTold DEF Reach
<1> QED
  BY <1>6 DEF PeerConn, t

\* The state of the peer's port-channel.
LEMMA AggportStateReach ==
  ASSUME NEW s \in NodeRec, Listed(s), NEW up \in BOOLEAN
  PROVE  Reach(s, AggportState(s, up))
<1> DEFINE t == [s EXCEPT !.pif = IF up THEN "up" ELSE "down"]
           u == [t EXCEPT !.mac.age = {"peer"}]
           v == AddToChip(u)
           w == Enqueue(v, "ADD")
<1>1. t \in NodeRec /\ Same(s, t)
  BY DEF NodeRec, Same, Known
<1>2. \/ AggportState(s, up) = t
      \/ AggportState(s, up) = w /\ Exchange(s) /\ Known(t)
  BY DEF AggportState, ConvertRemote
<1> HIDE DEF t
<1>3. Reach(s, t) /\ Listed(t)
  BY <1>1, SameTold DEF Reach, Same, Listed
<1>4. ASSUME Exchange(s), Known(t) PROVE Reach(s, w)
  <2>1. /\ u \in NodeRec /\ u.list = t.list /\ u.st = t.st /\ u.mac.age = {"peer"}
        /\ u.mac.origin = t.mac.origin
    BY <1>1 DEF NodeRec, MacRec, Both
  <2> HIDE DEF u
  <2>2. v \in NodeRec /\ Same(u, v)
    BY <2>1, ChipSame DEF Ports
  <2> HIDE DEF v
  <2>3. v.list = t.list /\ v.st = s.st /\ v.mac.age = {"peer"} /\ Known(v)
    BY <1>1, <1>4, <2>1, <2>2 DEF Same, Known
  <2>4. Listed(v)
    BY <1>3, <1>4, <2>3 DEF Listed
  <2>5. w \in NodeRec /\ Listed(w) /\ Known(w) /\ w.st = v.st /\ w.mac.age = v.mac.age
    BY <2>2, <2>3, <2>4, EnqueueNews DEF Ops
  <2> HIDE DEF w
  <2>6. w.st = s.st /\ "local" \notin w.mac.age /\ "peer" \in w.mac.age
    BY <2>3, <2>5, SMT
  <2>7. Told(s, w)
    BY <1>4, <2>5, <2>6, HeldTold
  <2> QED
    BY <2>5, <2>7 DEF Reach
<1> HIDE DEF w
<1> QED
  BY <1>2, <1>3, <1>4

\* DEL: the peer does not have the address any more.
LEMMA PeerDelReach ==
  ASSUME NEW s \in NodeRec, Listed(s)
  PROVE  Reach(s, PeerDel(s)) /\ PeerOnly(PeerDel(s))
<1> DEFINE t == [s EXCEPT !.mac.age = @ \cup {"peer"}]
           d == DelFromChip(t)
<1>1. /\ t \in NodeRec /\ t.list = s.list /\ t.st = s.st /\ t.silent = s.silent
      /\ t.mac.op = s.mac.op /\ t.mac.origin = s.mac.origin
      /\ t.mac.age = s.mac.age \cup {"peer"}
  BY DEF NodeRec, MacRec, Both
<1>2. PeerDel(s) = IF ~Known(s) THEN s
                   ELSE IF t.mac.age = Both THEN Remove(d) ELSE t
  BY DEF PeerDel
<1> HIDE DEF t
<1>3. Listed(t) /\ (Known(t) <=> Known(s)) /\ PeerOnly(t) /\ (Bare(t) <=> Bare(s))
  BY <1>1 DEF Listed, Known, PeerOnly, Bare
<1>4. /\ HasAdd(Content(t)) <=> HasAdd(Content(s))
      /\ EndsDel(Content(t)) <=> EndsDel(Content(s))
  BY <1>1, SameNews
<1>5. Reach(s, t)
  BY <1>1, <1>3, <1>4 DEF Reach, Told, Answered, Unmoved
<1>6. t.mac.age = Both => Reach(s, Remove(d)) /\ PeerOnly(Remove(d))
  <2>1. t.mac.age = Both => Bare(t)
    BY DEF Bare, Both
  <2>2. d \in NodeRec
    BY <1>1, DelFacts
  <2>3. PeerOnly(Remove(d))
    <3>1. NoEntry.origin = ""
      BY DEF NoEntry
    <3> QED
      BY <2>2, <3>1, RemoveFacts DEF PeerOnly, Known
  <2> QED
    BY <1>5, <2>1, <2>3, ThenChip DEF Ports
<1>7. ~Known(s) => Reach(s, s) /\ PeerOnly(s)
  BY ReachSelf DEF PeerOnly
<1> HIDE DEF d
<1> QED
  BY <1>2, <1>3, <1>5, <1>6, <1>7

\* ADD of a new address: it is the peer's.
LEMMA PeerAddNewAnswered ==
  ASSUME NEW s \in NodeRec, Listed(s), ~Known(s), Exchange(s), NEW i \in {Po, Orphan}
  PROVE  PeerAddNew(s, i) \in NodeRec /\ Answered(s, PeerAddNew(s, i))
<1> DEFINE port == IF Redirected(s, i) /\ s.itf # "" THEN s.itf ELSE i
           m == Entry(i, {"local"}, "none")
           e == [s EXCEPT !.mac = m]
           t == MoveTo(e, port)
           u == [t EXCEPT !.row = port]
<1>0. /\ m \in MacRec /\ m.origin # "" /\ m.age = {"local"}
      /\ port \in Ports \cup PeerItfs
  BY DEF Entry, NoEntry, MacRec, Ports, Ops, Both, Po, Orphan, NodeRec
<1>1. PeerAddNew(s, i) \in {s, t, u}
  BY DEF PeerAddNew
<1> HIDE DEF m, port
<1>2. e \in NodeRec /\ e.list = s.list /\ e.st = s.st /\ e.silent = s.silent /\ e.mac = m
  BY <1>0 DEF NodeRec
<1> HIDE DEF e
<1>3. Known(e) /\ Listed(e)
  BY <1>0, <1>2 DEF Known, Listed
<1>4. /\ DOMAIN Content(e) = DOMAIN Content(s)
      /\ \A k \in DOMAIN Content(s) : Content(e)[k] = Content(s)[k]
  <2>1. \A k \in DOMAIN s.list : s.list[k] # InTree
    BY DEF Listed
  <2> QED
    BY <1>2, <2>1, ContentFacts, SMT
<1>5. /\ HasAdd(Content(e)) <=> HasAdd(Content(s))
      /\ EndsDel(Content(e)) <=> EndsDel(Content(s))
  BY <1>4 DEF HasAdd, EndsDel
<1>6. Answered(s, e)
  BY <1>2, <1>3, <1>5 DEF Answered, Unmoved, Bare
<1>7. t \in NodeRec /\ Same(e, t)
  BY <1>0, <1>2, ChipSame
<1> HIDE DEF t
<1>8. u \in NodeRec /\ Same(t, u) /\ Listed(t)
  <2>1. Listed(t)
    BY <1>3, <1>7 DEF Same, Listed
  <2> QED
    BY <2>1, <1>0, <1>7 DEF NodeRec, Same, Known
<1> HIDE DEF u
<1>9. Answered(e, t) /\ Answered(t, u) /\ Answered(s, s)
  BY <1>2, <1>3, <1>7, <1>8, SameTold, ReachSelf DEF Told, Reach
<1> QED
  BY <1>1, <1>6, <1>7, <1>8, <1>9, AnsweredTwice, SMT

\* ADD of a known address: the peer has it, and this daemon if it does not
\* move to the peer's port.
LEMMA PeerAddKnownAnswered ==
  ASSUME NEW s \in NodeRec, Listed(s), Known(s), Exchange(s), NEW i \in {Po, Orphan}
  PROVE  PeerAddKnown(s, i) \in NodeRec /\ Answered(s, PeerAddKnown(s, i))
<1> DEFINE a == [s EXCEPT !.mac.age = @ \ {"peer"}]
           p == [a EXCEPT !.mac.pending = FALSE, !.mac.age = {"local"}]
           q == Enqueue(p, "DEL")
           b == IF i = Po /\ a.mac.pending THEN q ELSE a
           c == [b EXCEPT !.mac.origin = i]
           d == SetLocalAge(c)
           e == MoveTo(DelFromChip(d), i)
           r == PeerAddKnown(s, i)
<1>0. /\ i \in Ports /\ i # "" /\ s.itf \in PeerItfs
      /\ i \in Ports \cup PeerItfs /\ s.itf \in Ports \cup PeerItfs
  BY DEF Ports, Po, Orphan, NodeRec
<1>r. r \in {AddToChip(MoveTo(b, s.itf)), b, AddToChip(MoveTo(c, i)), e, Remove(e), d,
             AddToChip(MoveTo(d, s.itf))}
  BY DEF PeerAddKnown
<1>a. /\ a \in NodeRec /\ a.list = s.list /\ a.st = s.st /\ a.silent = s.silent
      /\ a.mac.op = s.mac.op /\ a.mac.origin = s.mac.origin
      /\ a.mac.age = s.mac.age \ {"peer"}
  BY DEF NodeRec, MacRec, Both
<1> HIDE DEF a, r
<1>1. Listed(a) /\ Known(a) /\ (Bare(a) <=> Bare(s))
  BY <1>a DEF Listed, Known, Bare
<1>2. /\ HasAdd(Content(a)) <=> HasAdd(Content(s))
      /\ EndsDel(Content(a)) <=> EndsDel(Content(s))
  BY <1>a, SameNews
<1>3. Answered(s, a)
  BY <1>a, <1>1, <1>2 DEF Answered, Unmoved
<1>p. p \in NodeRec /\ p.list = a.list /\ p.st = a.st /\ p.mac.origin = a.mac.origin
  BY <1>a, ZenonT(30) DEF NodeRec, MacRec, Both
<1> HIDE DEF p
<1>4. Listed(p) /\ Known(p)
  BY <1>1, <1>p DEF Listed, Known
<1>q. q \in NodeRec /\ Listed(q) /\ Known(q) /\ q.st = p.st /\ EndsDel(Content(q))
  BY <1>p, <1>4, EnqueueNews DEF Ops
<1> HIDE DEF q
<1>5. Answered(s, q)
  BY <1>a, <1>p, <1>q DEF Answered
<1>b. b \in NodeRec /\ Listed(b) /\ Known(b) /\ Answered(s, b)
  BY <1>a, <1>1, <1>3, <1>q, <1>5
<1> HIDE DEF b
<1>c. c \in NodeRec /\ Same(b, c)
  BY <1>0, <1>b DEF NodeRec, MacRec, Same, Known
<1> HIDE DEF c
<1>6. Reach(b, b) /\ Reach(b, c) /\ Listed(c) /\ Known(c)
  BY <1>b, <1>c, SameTold, ReachSelf DEF Reach, Same, Listed
<1>d. Reach(b, d) /\ Bare(d)
  BY <1>c, <1>6, LostReach, ThenTold DEF Reach
<1> HIDE DEF d
<1>7. Reach(b, AddToChip(MoveTo(b, s.itf)))
  BY <1>0, <1>6, ThenChip
<1>8. Reach(b, AddToChip(MoveTo(c, i)))
  BY <1>0, <1>6, ThenChip
<1>9. Reach(b, AddToChip(MoveTo(d, s.itf)))
  BY <1>0, <1>d, ThenChip
<1>e. Reach(b, e) /\ Bare(e)
  <2> DEFINE f == DelFromChip(d)
  <2>1. d \in NodeRec /\ f \in NodeRec /\ Same(d, f) /\ Reach(b, f)
    BY <1>0, <1>d, ChipSame, ThenChip DEF Reach
  <2> HIDE DEF f
  <2>2. Reach(b, MoveTo(f, i)) /\ Same(f, MoveTo(f, i))
    BY <1>0, <2>1, ChipSame, ThenChip
  <2>3. Bare(f)
    BY <1>d, <2>1 DEF Same, Bare
  <2>4. Bare(MoveTo(f, i))
    BY <2>2, <2>3 DEF Same, Bare
  <2> QED
    BY <2>2, <2>4 DEF f
<1> HIDE DEF e
<1>10. Reach(b, Remove(e))
  BY <1>0, <1>e, ThenChip
<1>11. Reach(b, r)
  BY <1>r, <1>6, <1>d, <1>e, <1>7, <1>8, <1>9, <1>10
<1>12. r \in NodeRec /\ Answered(s, r)
  BY <1>b, <1>11, AnsweredTwice DEF Reach, Told
<1> QED
  BY <1>12 DEF r

-----------------------------------------------------------------------------
(* The two daemons.                                                        *)

\* A daemon by itself: outside of a session nothing is queued, and an address
\* is the daemon's own.
KeptBy(s) == Listed(s) /\ (~Exchange(s) => s.list = << >> /\ PeerOnly(s))

\* Until the synchronisation data of the peer p has come, and it is the first
\* to come in, nothing was said of the address.
Opening(s, p, in, out) ==
  s.st = "sync" =>
    /\ Neutral(out) /\ PeerOnly(p)
    /\ in # << >> => Head(in).kind = "SYNC"
    /\ Exchange(p) => in # << >>

\* A daemon that does not have the address has a DEL on its way if the peer
\* keeps the address for it, or will.
Flight(s, out) == out \o Content(s)
Retracts(s, p, out) ==
  /\ s.st # "off" /\ p.st # "off" /\ ~s.silent /\ Bare(s)
  /\ HasAdd(Flight(s, out)) \/ ~PeerOnly(p)
  => EndsDel(Flight(s, out))

\* Of the two, the standby peer is the first in MLACP_STATE_EXCHANGE.
Last(s, p, in) == p.st = "sync" => in = << >> /\ ~Exchange(s)
Lead(n, s, p, in, out) ==
  (n = Active => Last(s, p, in)) /\ (n = Standby => Last(p, s, out))

\* All this of n in state s, with messages coming in and going out.
Side(s, p, in, out) ==
  KeptBy(s) /\ Named(in) /\ Opening(s, p, in, out) /\ Retracts(s, p, out)
Pair(n, s, p, in, out) ==
  Side(s, p, in, out) /\ Side(p, s, out, in) /\ Lead(n, s, p, in, out)

\* The strengthened invariant.
FlightInv ==
  Inv /\ \A n \in Node : Pair(n, node[n], node[Peer(n)], chan[n], chan[Peer(n)])

\* There are two.
LEMMA PeerFacts ==
  ASSUME NEW n \in Node
  PROVE  /\ Peer(n) \in Node /\ Peer(n) # n /\ Peer(Peer(n)) = n
         /\ \A m \in Node : m = n \/ m = Peer(n)
  BY NodeAssumption, SMT DEF Node, Peer

\* Each is the peer of the other.
LEMMA PairSym ==
  ASSUME NEW n \in Node, NEW s, NEW p, NEW in, NEW out, Pair(n, s, p, in, out)
  PROVE  Pair(Peer(n), p, s, out, in)
  BY NodeAssumption DEF Pair, Lead, Peer, Node

\* A daemon that waits for the synchronisation data has said nothing.
LEMMA NothingSaid ==
  ASSUME NEW s \in NodeRec, NEW p, NEW out \in Seq(Message), NEW in,
         KeptBy(s), Opening(s, p, in, out)
  PROVE  s.st = "sync" => Retracts(s, p, out)
<1> SUFFICES ASSUME s.st = "sync" PROVE Retracts(s, p, out)
  OBVIOUS
<1>1. s.list = << >> /\ Neutral(out) /\ PeerOnly(p)
  BY DEF KeptBy, Opening, Exchange
<1>2. DOMAIN Content(s) = {}
  BY <1>1, ContentFacts, SMT
<1>3. ~HasAdd(Content(s)) /\ ~HasAdd(out)
  BY <1>1, <1>2, NeutralNews DEF HasAdd
<1>4. ~HasAdd(Flight(s, out))
  BY <1>3, ContentFacts, ConcatNews DEF Flight
<1> QED
  BY <1>1, <1>4 DEF Retracts

\* What a daemon has on its way when it has lost the address, or not.
LEMMA AnsweredRetracts ==
  ASSUME NEW s \in NodeRec, NEW t \in NodeRec, NEW p, NEW out \in Seq(Message),
         Exchange(s), Answered(s, t), Retracts(s, p, out)
  PROVE  Retracts(t, p, out)
<1>1. /\ Content(s) \in Seq(Message) /\ Content(t) \in Seq(Message)
      /\ s.st # "off"
  BY ContentFacts DEF Exchange
<1>2. /\ HasAdd(Flight(s, out)) <=> HasAdd(out) \/ HasAdd(Content(s))
      /\ EndsDel(Flight(s, out)) <=>
           EndsDel(Content(s)) \/ (~HasAdd(Content(s)) /\ EndsDel(out))
  BY <1>1, ConcatNews DEF Flight
<1>3. /\ HasAdd(Flight(t, out)) <=> HasAdd(out) \/ HasAdd(Content(t))
      /\ EndsDel(Flight(t, out)) <=>
           EndsDel(Content(t)) \/ (~HasAdd(Content(t)) /\ EndsDel(out))
  BY <1>1, ConcatNews DEF Flight
<1> SUFFICES ASSUME /\ t.st # "off" /\ p.st # "off" /\ ~t.silent /\ Bare(t)
                    /\ HasAdd(Flight(t, out)) \/ ~PeerOnly(p)
             PROVE  EndsDel(Flight(t, out))
  BY DEF Retracts
<1>4. CASE EndsDel(Content(t))
  BY <1>3, <1>4
<1>5. CASE Unmoved(s, t)
  <2>1. EndsDel(Flight(s, out))
    BY <1>1, <1>2, <1>3, <1>5 DEF Retracts, Unmoved
  <2> QED
    BY <1>2, <1>3, <1>5, <2>1 DEF Unmoved
<1> QED
  BY <1>4, <1>5 DEF Answered

\* An event at n.
LEMMA EventPair ==
  ASSUME NEW n \in Node, NEW s, NEW t, NEW p \in NodeRec, NEW in \in Seq(Message),
         NEW out \in Seq(Message), Pair(n, s, p, in, out), Reach(s, t)
  PROVE  Pair(n, t, p, in, out)
<1>0. /\ s \in NodeRec /\ t \in NodeRec /\ t.st = s.st /\ Listed(t) /\ Answered(s, t)
      /\ PeerOnly(s) => PeerOnly(t)
  BY DEF Reach, Told, Answered
<1>1. KeptBy(t)
  BY <1>0 DEF Pair, Side, KeptBy, Answered, Exchange
<1>2. Opening(t, p, in, out) /\ Opening(p, t, out, in) /\ Lead(n, t, p, in, out)
  BY <1>0 DEF Pair, Side, Opening, Lead, Last, Exchange
<1>3. Retracts(t, p, out)
  <2>1. CASE t.st = "off"
    BY <2>1 DEF Retracts
  <2>2. CASE t.st = "sync"
    BY <1>0, <1>1, <1>2, <2>2, NothingSaid
  <2>3. CASE t.st = "exchange"
    BY <1>0, <2>3, AnsweredRetracts DEF Pair, Side, Exchange
  <2> QED
    BY <1>0, <2>1, <2>2, <2>3 DEF NodeRec
<1>4. Retracts(p, t, in)
  BY <1>0 DEF Pair, Side, Retracts
<1> QED
  BY <1>1, <1>2, <1>3, <1>4 DEF Pair, Side

\* What remains after the first message.
LEMMA Popped ==
  ASSUME NEW p \in NodeRec, NEW in \in Seq(Message), in # << >>
  PROVE  LET r == Tail(in)  c == Content(p)  h == Head(in).kind IN
         /\ r \in Seq(Message) /\ (Named(in) => Named(r)) /\ (Neutral(in) => Neutral(r))
         /\ Neutral(in) => h \notin {"ADD", "DEL"}
         /\ HasAdd(Flight(p, in)) <=> h = "ADD" \/ HasAdd(Flight(p, r))
         /\ EndsDel(Flight(p, in)) <=>
              EndsDel(Flight(p, r)) \/ (h = "DEL" /\ ~HasAdd(Flight(p, r)))
<1> DEFINE r == Tail(in)
           c == Content(p)
<1>1. /\ r \in Seq(Message) /\ c \in Seq(Message) /\ Len(in) \in Nat /\ 1 \in DOMAIN in
      /\ \A k \in DOMAIN r : k + 1 \in DOMAIN in /\ r[k] = in[k + 1]
      /\ Head(in) = in[1]
  BY ContentFacts, SMT
<1>2. /\ HasAdd(in) <=> Head(in).kind = "ADD" \/ HasAdd(r)
      /\ EndsDel(in) <=> EndsDel(r) \/ (~HasAdd(r) /\ Head(in).kind = "DEL")
  BY TailNews
<1> HIDE DEF r, c
<1>3. /\ HasAdd(in \o c) <=> HasAdd(in) \/ HasAdd(c)
      /\ EndsDel(in \o c) <=> EndsDel(c) \/ (~HasAdd(c) /\ EndsDel(in))
  BY <1>1, ConcatNews
<1>4. /\ HasAdd(r \o c) <=> HasAdd(r) \/ HasAdd(c)
      /\ EndsDel(r \o c) <=> EndsDel(c) \/ (~HasAdd(c) /\ EndsDel(r))
  BY <1>1, ConcatNews
<1>5. (Named(in) => Named(r)) /\ (Neutral(in) => Neutral(r))
  BY <1>1 DEF Named, Neutral
<1>6. Neutral(in) => Head(in).kind \notin {"ADD", "DEL"}
  BY <1>1 DEF Neutral
<1>7. Flight(p, in) = in \o c /\ Flight(p, r) = r \o c
  BY DEF Flight, c
<1> QED
  BY <1>1, <1>2, <1>3, <1>4, <1>5, <1>6, <1>7 DEF r

\* A message that does not concern the address is handled.
LEMMA PopPair ==
  ASSUME NEW n \in Node, NEW s \in NodeRec, NEW p \in NodeRec,
         NEW in \in Seq(Message), NEW out \in Seq(Message), Pair(n, s, p, in, out),
         in # << >>, Head(in).kind \notin {"ADD", "DEL"}, Exchange(s)
  PROVE  Pair(n, s, p, Tail(in), out)
<1> DEFINE r == Tail(in)
<1>1. /\ r \in Seq(Message) /\ (Named(in) => Named(r)) /\ (Neutral(in) => Neutral(r))
      /\ HasAdd(Flight(p, in)) <=> HasAdd(Flight(p, r))
      /\ EndsDel(Flight(p, in)) <=> EndsDel(Flight(p, r))
  BY Popped
<1> HIDE DEF r
<1>2. KeptBy(s) /\ KeptBy(p) /\ Named(r) /\ Named(out) /\ Retracts(s, p, out)
  BY <1>1 DEF Pair, Side
<1>3. Opening(s, p, r, out) /\ Opening(p, s, out, r)
  BY <1>1 DEF Pair, Side, Opening, Exchange
<1>4. Retracts(p, s, r)
  BY <1>1 DEF Pair, Side, Retracts
<1>5. Lead(n, s, p, r, out)
  BY DEF Pair, Lead, Last, Exchange
<1> QED
  BY <1>2, <1>3, <1>4, <1>5 DEF Pair, Side, r

\* ADD: the peer had it on its way.
LEMMA AddPair ==
  ASSUME NEW n \in Node, NEW s \in NodeRec, NEW t \in NodeRec, NEW p \in NodeRec,
         NEW in \in Seq(Message), NEW out \in Seq(Message), Pair(n, s, p, in, out),
         in # << >>, Head(in).kind = "ADD", Exchange(s), Answered(s, t)
  PROVE  Pair(n, t, p, Tail(in), out)
<1> DEFINE r == Tail(in)
<1>1. /\ r \in Seq(Message) /\ (Named(in) => Named(r)) /\ ~Neutral(in)
      /\ HasAdd(Flight(p, in))
      /\ EndsDel(Flight(p, in)) => EndsDel(Flight(p, r))
  BY Popped
<1> HIDE DEF r
<1>2. t.st = s.st /\ Exchange(t) /\ p.st # "sync"
  BY <1>1 DEF Answered, Exchange, Pair, Side, Opening
<1>3. KeptBy(t) /\ KeptBy(p) /\ Named(r) /\ Named(out)
  BY <1>1, <1>2 DEF Pair, Side, KeptBy, Answered
<1>4. Retracts(t, p, out)
  BY AnsweredRetracts DEF Pair, Side
<1>5. Retracts(p, t, r)
  BY <1>1, <1>2 DEF Pair, Side, Retracts, Exchange
<1>6. Opening(t, p, r, out) /\ Opening(p, t, out, r) /\ Lead(n, t, p, r, out)
  BY <1>2 DEF Opening, Lead, Last, Exchange
<1> QED
  BY <1>3, <1>4, <1>5, <1>6 DEF Pair, Side, r

\* DEL: the address is not kept for the peer any more, and will only be if
\* another message says so.
LEMMA DelPair ==
  ASSUME NEW n \in Node, NEW s \in NodeRec, NEW t \in NodeRec, NEW p \in NodeRec,
         NEW in \in Seq(Message), NEW out \in Seq(Message), Pair(n, s, p, in, out),
         in # << >>, Head(in).kind = "DEL", Exchange(s), Answered(s, t), PeerOnly(t)
  PROVE  Pair(n, t, p, Tail(in), out)
<1> DEFINE r == Tail(in)
<1>1. /\ r \in Seq(Message) /\ (Named(in) => Named(r)) /\ ~Neutral(in)
      /\ HasAdd(Flight(p, in)) <=> HasAdd(Flight(p, r))
      /\ EndsDel(Flight(p, in)) /\ HasAdd(Flight(p, r)) => EndsDel(Flight(p, r))
  BY Popped
<1> HIDE DEF r
<1>2. t.st = s.st /\ Exchange(t) /\ p.st # "sync"
  BY <1>1 DEF Answered, Exchange, Pair, Side, Opening
<1>3. KeptBy(t) /\ KeptBy(p) /\ Named(r) /\ Named(out)
  BY <1>1, <1>2 DEF Pair, Side, KeptBy, Answered
<1>4. Retracts(t, p, out)
  BY AnsweredRetracts DEF Pair, Side
<1>5. Retracts(p, t, r)
  BY <1>1, <1>2 DEF Pair, Side, Retracts, Exchange
<1>6. Opening(t, p, r, out) /\ Opening(p, t, out, r) /\ Lead(n, t, p, r, out)
  BY <1>2 DEF Opening, Lead, Last, Exchange
<1> QED
  BY <1>3, <1>4, <1>5, <1>6 DEF Pair, Side, r

\* Messages that do not concern the address are sent.
LEMMA NeutralSent ==
  ASSUME NEW p \in NodeRec, NEW q \in Seq(Message), NEW w \in Seq(Message), Neutral(w)
  PROVE  /\ q \o w \in Seq(Message)
         /\ HasAdd(Flight(p, q \o w)) <=> HasAdd(Flight(p, q))
         /\ EndsDel(Flight(p, q \o w)) <=> EndsDel(Flight(p, q))
<1> DEFINE c == Content(p)
           qw == q \o w
<1>1. qw \in Seq(Message) /\ c \in Seq(Message) /\ ~HasAdd(w) /\ ~EndsDel(w)
  <2>1. qw \in Seq(Message)
    BY ConcatType
  <2>2. c \in Seq(Message)
    BY ContentFacts
  <2> HIDE DEF qw, c
  <2> QED
    BY <2>1, <2>2, NeutralNews
<1>2. /\ HasAdd(qw) <=> HasAdd(q) \/ HasAdd(w)
      /\ EndsDel(qw) <=> EndsDel(w) \/ (~HasAdd(w) /\ EndsDel(q))
  BY ConcatNews
<1> HIDE DEF qw, c
<1>3. /\ HasAdd(qw \o c) <=> HasAdd(qw) \/ HasAdd(c)
      /\ EndsDel(qw \o c) <=> EndsDel(c) \/ (~HasAdd(c) /\ EndsDel(qw))
  BY <1>1, ConcatNews
<1>4. /\ HasAdd(q \o c) <=> HasAdd(q) \/ HasAdd(c)
      /\ EndsDel(q \o c) <=> EndsDel(c) \/ (~HasAdd(c) /\ EndsDel(q))
  BY <1>1, ConcatNews
<1>5. Flight(p, qw) = qw \o c /\ Flight(p, q) = q \o c
  BY DEF Flight, c
<1> QED
  BY <1>1, <1>2, <1>3, <1>4, <1>5 DEF qw

\* What is in front stays in front, and names stay names.
LEMMA SentFacts ==
  ASSUME NEW q \in Seq(Message), NEW w \in Seq(Message)
  PROVE  /\ q \o w \in Seq(Message)
         /\ Named(q) /\ Named(w) => Named(q \o w)
         /\ Neutral(q) /\ Neutral(w) => Neutral(q \o w)
         /\ q # << >> => q \o w # << >> /\ Head(q \o w) = Head(q)
         /\ q = << >> => q \o w = w
         /\ w # << >> => q \o w # << >>
<1> DEFINE z == q \o w
<1>1. /\ Len(q) \in Nat /\ Len(w) \in Nat /\ z \in Seq(Message)
      /\ Len(z) = Len(q) + Len(w)
      /\ DOMAIN q = 1..Len(q) /\ DOMAIN w = 1..Len(w) /\ DOMAIN z = 1..(Len(q) + Len(w))
      /\ \A k \in 1..Len(q) : z[k] = q[k]
      /\ \A k \in 1..Len(w) : z[Len(q) + k] = w[k]
  BY SMT
<1> HIDE DEF z
<1>2. \A k \in DOMAIN z : \/ k \in DOMAIN q /\ z[k] = q[k]
                          \/ k - Len(q) \in DOMAIN w /\ z[k] = w[k - Len(q)]
  <2> TAKE k \in DOMAIN z
  <2>1. CASE k > Len(q)
    <3>1. k - Len(q) \in DOMAIN w /\ k = Len(q) + (k - Len(q))
      BY <1>1, <2>1, SMT
    <3> QED
      BY <1>1, <3>1
  <2> QED
    BY <1>1, <2>1, SMT
<1>3. (Named(q) /\ Named(w) => Named(z)) /\ (Neutral(q) /\ Neutral(w) => Neutral(z))
  BY <1>2 DEF Named, Neutral
<1>4. q # << >> => z # << >> /\ Head(z) = Head(q)
  <2>1. q # << >> => 1 \in 1..Len(q) /\ Len(z) # 0 /\ z[1] = q[1]
    BY <1>1, SMT
  <2> QED
    BY <1>1, <2>1, SMT
<1>5. q = << >> => z = w
  BY SMT DEF z
<1>6. w # << >> => z # << >>
  BY <1>1, SMT
<1> QED
  BY <1>1, <1>3, <1>4, <1>5, <1>6 DEF z

\* The synchronisation data of the peer has come; the standby peer sends its own.
LEMMA EnterPair ==
  ASSUME NEW n \in Node, NEW s \in NodeRec, NEW g \in NodeRec, NEW p \in NodeRec,
         NEW in \in Seq(Message), NEW out \in Seq(Message), Pair(n, s, p, in, out),
         in # << >>, s.st # "off",
         g.list = s.list, g.mac = s.mac, g.silent = s.silent, g.st = "exchange",
         NEW mine \in Seq(Message), Neutral(mine), n = Standby => mine # << >>,
         mine # << >> => Head(mine).kind = "SYNC",
         NEW o, o = IF p.st = "off" THEN out ELSE out \o mine
  PROVE  Pair(n, g, p, in, o)
<1>0. Exchange(g) /\ Listed(g) /\ (PeerOnly(g) <=> PeerOnly(s)) /\ (Bare(g) <=> Bare(s))
  BY DEF Exchange, Pair, Side, KeptBy, Listed, Known, PeerOnly, Bare
<1>1. Content(g) = Content(s)
  BY DEF Content
<1>2. KeptBy(g)
  BY <1>0 DEF KeptBy
<1>m. Named(mine)
  BY DEF Named, Neutral
<1>3. CASE p.st = "off"
  <2>1. o = out
    BY <1>3
  <2>2. Opening(g, p, in, out) /\ Opening(p, g, out, in) /\ Lead(n, g, p, in, out)
    BY <1>0, <1>3 DEF Opening, Lead, Last, Exchange
  <2>3. Retracts(g, p, out) /\ Retracts(p, g, in)
    BY <1>3 DEF Retracts
  <2> QED
    BY <1>2, <2>1, <2>2, <2>3 DEF Pair, Side
<1>4. CASE p.st # "off"
  <2>1. o = out \o mine
    BY <1>4
  <2>2. /\ o \in Seq(Message)
        /\ HasAdd(Flight(s, o)) <=> HasAdd(Flight(s, out))
        /\ EndsDel(Flight(s, o)) <=> EndsDel(Flight(s, out))
    BY <2>1, NeutralSent
  <2>3. Flight(g, o) = Flight(s, o)
    BY <1>1 DEF Flight
  <2>4. Retracts(g, p, o)
    BY <1>0, <2>2, <2>3 DEF Pair, Side, Retracts
  <2>5. Retracts(p, g, in)
    BY <1>0 DEF Pair, Side, Retracts
  <2>6. Named(o)
    BY <1>m, <2>1, SentFacts DEF Pair, Side
  <2>7. n = Active => p.st # "sync"
    BY DEF Pair, Lead, Last
  <2>8. Lead(n, g, p, in, o)
    BY <2>7, NodeAssumption, <1>0 DEF Lead, Last, Exchange
  <2>9. Opening(g, p, in, o)
    BY <1>0 DEF Opening, Exchange
  <2>10. Opening(p, g, o, in)
    <3> SUFFICES ASSUME p.st = "sync" PROVE Opening(p, g, o, in)
      BY DEF Opening
    <3>1. n = Standby /\ mine # << >>
      BY <2>7 DEF Node
    <3>2. /\ Neutral(in) /\ PeerOnly(s) /\ (out # << >> => Head(out).kind = "SYNC")
      BY DEF Pair, Side, Opening
    <3>3. o # << >> /\ Head(o).kind = "SYNC"
      BY <2>1, <3>1, <3>2, SentFacts
    <3> QED
      BY <1>0, <3>2, <3>3 DEF Opening
  <2> QED
    BY <1>2, <2>4, <2>5, <2>6, <2>8, <2>9, <2>10 DEF Pair, Side
<1> QED
  BY <1>3, <1>4

\* What was queued is sent.
LEMMA FlushPair ==
  ASSUME NEW n \in Node, NEW t \in NodeRec, NEW p \in NodeRec,
         NEW in \in Seq(Message), NEW out \in Seq(Message), Pair(n, t, p, in, out)
  PROVE  Pair(n, Flushed(t), p, in, IF p.st = "off" THEN out ELSE out \o Written(t))
<1> DEFINE f == [t EXCEPT !.changed = FALSE, !.list = << >>]
           w == IF t.changed THEN <<PoState("STATE", t.po)>> ELSE << >>
           c == Content(t)
           wc == w \o c
           o == IF p.st = "off" THEN out ELSE out \o wc
<1>1. CASE ~Exchange(t)
  <2>1. Flushed(t) = t /\ Written(t) = << >>
    BY <1>1 DEF Flushed, Written
  <2>2. out \o << >> = out
    BY SMT
  <2> QED
    BY <2>1, <2>2
<1>2. CASE Exchange(t)
  <2>1. Flushed(t) = f /\ Written(t) = wc
    BY <1>2 DEF Flushed, Written
  <2>2. << >> \in Seq(Message)
    BY SMT
  <2>3. /\ f \in NodeRec /\ f.list = << >> /\ f.st = t.st /\ f.mac = t.mac
        /\ f.silent = t.silent
    BY <2>2 DEF NodeRec
  <2>4. w \in Seq(Message) /\ Neutral(w)
    <3>1. PoState("STATE", t.po) \in Message
      BY DEF PoState, Message, Kinds, Ports, NodeRec
    <3>2. PoState("STATE", t.po).kind = "STATE"
      BY DEF PoState
    <3> DEFINE h == <<PoState("STATE", t.po)>>
    <3>3. h \in Seq(Message) /\ DOMAIN h = {1} /\ h[1].kind = "STATE"
      BY <3>1, <3>2, SMT
    <3> HIDE DEF h
    <3>4. Neutral(h)
      BY <3>3 DEF Neutral
    <3>5. << >> \in Seq(Message) /\ Neutral(<< >>)
      BY SMT DEF Neutral
    <3> QED
      BY <3>3, <3>4, <3>5 DEF h
  <2>5. c \in Seq(Message) /\ Named(c)
    <3>1. Listed(t)
      BY DEF Pair, Side, KeptBy
    <3> QED
      BY <3>1, ContentFacts, ZenonT(30) DEF Listed, Named, Known
  <2> HIDE DEF f, w, c
  <2>6. wc \in Seq(Message) /\ Named(wc)
    <3>1. Named(w)
      BY <2>4 DEF Neutral, Named
    <3> QED
      BY <3>1, <2>4, <2>5, SentFacts
  <2>7. /\ HasAdd(wc) <=> HasAdd(c)
        /\ EndsDel(wc) <=> EndsDel(c)
    BY <2>4, <2>5, ConcatNews, NeutralNews
  <2> HIDE DEF wc
  <2>8. Exchange(f) /\ Listed(f) /\ (PeerOnly(f) <=> PeerOnly(t)) /\ (Bare(f) <=> Bare(t))
    BY <1>2, <2>3, SMT DEF Exchange, Listed, Named, PeerOnly, Bare, Known
  <2>9. CASE p.st = "off"
    <3>1. o = out
      BY <2>9
    <3>2. Opening(f, p, in, out) /\ Opening(p, f, out, in) /\ Lead(n, f, p, in, out)
      BY <2>8, <2>9 DEF Opening, Lead, Last, Exchange
    <3>3. Retracts(f, p, out) /\ Retracts(p, f, in) /\ KeptBy(f)
      BY <2>8, <2>9 DEF Retracts, KeptBy
    <3>4. Pair(n, f, p, in, out)
      BY <3>2, <3>3 DEF Pair, Side
    <3> QED
      BY <2>1, <3>1, <3>4
  <2>10. CASE p.st # "off"
    <3>1. o = out \o wc /\ o \in Seq(Message)
      BY <2>6, <2>10, SMT
    <3> HIDE DEF o
    <3>2. /\ HasAdd(o) <=> HasAdd(out) \/ HasAdd(wc)
          /\ EndsDel(o) <=> EndsDel(wc) \/ (~HasAdd(wc) /\ EndsDel(out))
      BY <2>6, <3>1, ConcatNews
    <3>3. /\ HasAdd(Flight(t, out)) <=> HasAdd(out) \/ HasAdd(c)
          /\ EndsDel(Flight(t, out)) <=> EndsDel(c) \/ (~HasAdd(c) /\ EndsDel(out))
      BY <2>5, ConcatNews DEF Flight, c
    <3>4. Flight(f, o) = o
      <4>1. Content(f) = << >>
        BY <2>3, SMT DEF Content
      <4> QED
        BY <3>1, <4>1, SMT DEF Flight
    <3>5. Retracts(f, p, o)
      BY <2>3, <2>7, <2>8, <3>2, <3>3, <3>4 DEF Pair, Side, Retracts
    <3>6. Retracts(p, f, in)
      BY <2>3, <2>8 DEF Pair, Side, Retracts
    <3>7. KeptBy(f) /\ Named(o) /\ Named(in) /\ KeptBy(p)
      BY <2>6, <2>8, <3>1, SentFacts DEF Pair, Side, KeptBy
    <3>8. Opening(f, p, in, o)
      BY <2>8 DEF Opening, Exchange
    <3>9. Opening(p, f, o, in)
      <4> SUFFICES ASSUME p.st = "sync" PROVE Opening(p, f, o, in)
        BY DEF Opening
      <4>1. Neutral(in) /\ PeerOnly(t) /\ out # << >> /\ Head(out).kind = "SYNC"
        BY <1>2 DEF Pair, Side, Opening
      <4>2. o # << >> /\ Head(o) = Head(out)
        BY <2>6, <3>1, <4>1, SentFacts
      <4> QED
        BY <2>8, <4>1, <4>2 DEF Opening
    <3>10. Lead(n, f, p, in, o)
      BY <1>2, <2>8, NodeAssumption DEF Pair, Lead, Last, Exchange
    <3>11. Pair(n, f, p, in, o)
      BY <3>5, <3>6, <3>7, <3>8, <3>9, <3>10 DEF Pair, Side
    <3> QED
      BY <2>1, <3>11 DEF o
  <2> QED
    BY <2>9, <2>10
<1> QED
  BY <1>1, <1>2

\* A step at n.
LEMMA LiftPair ==
  ASSUME Inv, Inv', NEW n \in Node, NEW t, node' = [node EXCEPT ![n] = t],
         Pair(n, t, node[Peer(n)], chan'[n], chan'[Peer(n)])
  PROVE  FlightInv'
<1> DEFINE p == Peer(n)
<1>1. p \in Node /\ p # n /\ Peer(p) = n /\ \A m \in Node : m = n \/ m = p
  BY PeerFacts
<1>2. node'[n] = t /\ node'[p] = node[p]
  BY <1>1 DEF Inv
<1>3. Pair(n, node'[n], node'[p], chan'[n], chan'[p])
  BY <1>2
<1>4. Pair(p, node'[p], node'[n], chan'[p], chan'[n])
  BY <1>3, PairSym
<1> HIDE DEF p
<1>5. ASSUME NEW m \in Node PROVE Pair(m, node'[m], node'[Peer(m)], chan'[m], chan'[Peer(m)])
  BY <1>1, <1>3, <1>4 DEF p
<1> QED
  BY <1>5 DEF FlightInv

\* It does not matter in how many parts messages are sent.
LEMMA SentInParts ==
  ASSUME NEW x \in Seq(Message), NEW y \in Seq(Message), NEW z \in Seq(Message)
  PROVE  (x \o y) \o z = x \o (y \o z)
<1> DEFINE l == (x \o y) \o z
           r == x \o (y \o z)
<1>1. /\ l \in Seq(Message) /\ r \in Seq(Message)
      /\ Len(l) = Len(x) + Len(y) + Len(z) /\ Len(r) = Len(x) + Len(y) + Len(z)
      /\ Len(x) \in Nat /\ Len(y) \in Nat /\ Len(z) \in Nat
  BY SMT
<1>2. ASSUME NEW k \in 1..(Len(x) + Len(y) + Len(z)) PROVE l[k] = r[k]
  <2>1. CASE k <= Len(x)
    BY <1>1, <2>1, SMT
  <2>2. CASE k > Len(x) /\ k <= Len(x) + Len(y)
    BY <1>1, <2>2, SMT
  <2>3. CASE k > Len(x) + Len(y)
    BY <1>1, <2>3, SMT
  <2> QED
    BY <1>1, <2>1, <2>2, <2>3, SMT
<1> HIDE DEF l, r
<1>3. l = r
  BY <1>1, <1>2, SMT
<1> QED
  BY <1>3 DEF l, r

\* A pass of n.
LEMMA PassFlight ==
  ASSUME Inv, Inv', NEW n \in Node, NEW s \in NodeRec, NEW reply \in Seq(Message),
         NEW ch \in [Node -> Seq(Message)], Pass(n, s, reply, ch),
         ch[Peer(n)] = chan[Peer(n)],
         Pair(n, s, node[Peer(n)], ch[n],
              IF node[Peer(n)].st = "off" THEN chan[Peer(n)] ELSE chan[Peer(n)] \o reply)
  PROVE  FlightInv'
<1> DEFINE p == Peer(n)
           out == chan[p]
           o == IF node[p].st = "off" THEN out ELSE out \o reply
           w == Written(s)
<1>1. p \in Node /\ p # n /\ node[p] \in NodeRec /\ out \in Seq(Message)
  BY PeerFacts DEF Inv
<1>2. w \in Seq(Message)
  <2> DEFINE f == IF s.changed THEN <<PoState("STATE", s.po)>> ELSE << >>
  <2>1. PoState("STATE", s.po) \in Message
    BY DEF PoState, Message, Kinds, Ports, NodeRec
  <2>2. f \in Seq(Message) /\ << >> \in Seq(Message)
    BY <2>1, SMT
  <2>3. Content(s) \in Seq(Message)
    BY ContentFacts
  <2>4. w = IF Exchange(s) THEN f \o Content(s) ELSE << >>
    BY DEF Written
  <2> HIDE DEF f, w
  <2>5. f \o Content(s) \in Seq(Message)
    BY <2>2, <2>3, ConcatType
  <2> QED
    BY <2>2, <2>4, <2>5
<1>3. node' = [node EXCEPT ![n] = Flushed(s)] /\ chan' = Deliver(ch, p, reply \o w)
  BY DEF Pass
<1>4. o \in Seq(Message) /\ ch[n] \in Seq(Message) /\ Pair(n, s, node[p], ch[n], o)
  <2>1. out \o reply \in Seq(Message)
    BY <1>1, ConcatType
  <2>2. o \in Seq(Message)
    BY <1>1, <2>1
  <2>3. ch[n] \in Seq(Message)
    OBVIOUS
  <2>4. Pair(n, s, node[p], ch[n], o)
    OBVIOUS
  <2> QED
    BY <2>2, <2>3, <2>4
<1> HIDE DEF w
<1>5. Pair(n, Flushed(s), node[p], ch[n], IF node[p].st = "off" THEN o ELSE o \o w)
  BY <1>1, <1>4, FlushPair DEF w
<1>6. (out \o reply) \o w = out \o (reply \o w)
  BY <1>1, <1>2, SentInParts
<1>7. chan'[n] = ch[n] /\ chan'[p] = IF node[p].st = "off" THEN out ELSE out \o (reply \o w)
  BY <1>1, <1>3 DEF Deliver
<1>8. chan'[p] = IF node[p].st = "off" THEN o ELSE o \o w
  BY <1>6, <1>7
<1> QED
  BY <1>3, <1>5, <1>7, <1>8, LiftPair

\* Init.
LEMMA FlightInit == Init => FlightInv
<1> SUFFICES ASSUME Init PROVE FlightInv
  OBVIOUS
<1>1. Inv
  BY InvInit
<1>2. \A n \in Node : /\ node[n].st = "off" /\ node[n].list = << >> /\ node[n].mac = NoEntry
                      /\ chan[n] = << >>
  BY SMT DEF Init
<1>3. NoEntry.origin = ""
  BY DEF NoEntry
<1>4. ASSUME NEW n \in Node PROVE Pair(n, node[n], node[Peer(n)], chan[n], chan[Peer(n)])
  <2>1. Peer(n) \in Node
    BY PeerFacts
  <2>2. ASSUME NEW m \in Node PROVE KeptBy(node[m]) /\ Named(chan[m])
    <3>1. ~Known(node[m])
      BY <1>2, <1>3 DEF Known
    <3>2. Named(<< >>) /\ DOMAIN << >> = {}
      BY SMT DEF Named
    <3> QED
      BY <1>2, <3>1, <3>2 DEF KeptBy, Listed, PeerOnly
  <2>3. \A m \in Node : node[m].st # "sync" /\ node[m].st = "off"
    BY <1>2
  <2> QED
    BY <2>1, <2>2, <2>3 DEF Pair, Side, Opening, Retracts, Lead, Last
<1> QED
  BY <1>1, <1>4 DEF FlightInv

\* A message is handled.
LEMMA ReceiveFlight ==
  ASSUME FlightInv, Inv', NEW n \in Node, Receive(n)
  PROVE  FlightInv'
<1> DEFINE s == node[n]
           p == node[Peer(n)]
           in == chan[n]
           out == chan[Peer(n)]
           m == Head(in)
           r == Tail(in)
           ch == [chan EXCEPT ![n] = r]
<1>0. /\ Inv /\ Pair(n, s, p, in, out) /\ s \in NodeRec /\ p \in NodeRec
      /\ in \in Seq(Message) /\ out \in Seq(Message) /\ Listed(s)
      /\ s.st # "off" /\ in # << >> /\ Peer(n) \in Node /\ Peer(n) # n
  BY PeerFacts DEF FlightInv, Inv, Receive, Pair, Side, KeptBy
<1>1. /\ m \in Message /\ r \in Seq(Message) /\ << >> \in Seq(Message)
  <2> HIDE DEF in
  <2>1. << >> \in Seq(Message)
    BY SMT
  <2> QED
    BY <1>0, <2>1, HeadFacts
<1>2. ch \in [Node -> Seq(Message)] /\ ch[n] = r /\ ch[Peer(n)] = out
  BY <1>0, <1>1 DEF Inv
<1>3. m.kind \in Kinds /\ m.ifname \in Ports /\ m.up \in BOOLEAN
  BY <1>1 DEF Message
<1>4. CASE m.kind = "SYNC"
  <2> DEFINE a == AggportState(s, m.up)
             e == [a EXCEPT !.st = "exchange"]
             g == [e EXCEPT !.changed = IF n = Standby THEN FALSE ELSE @]
             mine == IF n = Standby THEN <<PoState("SYNC", e.po)>> ELSE << >>
             t == PeerConn(g)
             o == IF p.st = "off" THEN out ELSE out \o mine
  <2>1. Reach(s, a)
    BY <1>0, <1>3, AggportStateReach
  <2>2. Pass(n, t, mine, ch)
    BY <1>4 DEF Receive, EnterExchange
  <2> HIDE DEF a, s, p, in, out, r, ch
  <2>3. a \in NodeRec /\ a.st = s.st /\ Pair(n, a, p, in, out)
    BY <1>0, <2>1, EventPair DEF Reach, Told, Answered
  <2>4. /\ e \in NodeRec /\ e.list = a.list /\ e.mac = a.mac /\ e.silent = a.silent
        /\ e.st = "exchange"
    BY <2>3 DEF NodeRec
  <2> HIDE DEF e
  <2>5. /\ g \in NodeRec /\ g.list = a.list /\ g.mac = a.mac /\ g.silent = a.silent
        /\ g.st = "exchange"
    BY <2>4 DEF NodeRec
  <2> HIDE DEF g
  <2>6. /\ mine \in Seq(Message) /\ Neutral(mine) /\ (n = Standby => mine # << >>)
        /\ mine # << >> => Head(mine).kind = "SYNC"
    <3> DEFINE h == <<PoState("SYNC", e.po)>>
    <3>1. PoState("SYNC", e.po) \in Message /\ PoState("SYNC", e.po).kind = "SYNC"
      BY <2>4 DEF PoState, Message, Kinds, Ports, NodeRec
    <3>2. /\ h \in Seq(Message) /\ h # << >> /\ Head(h).kind = "SYNC"
          /\ DOMAIN h = {1} /\ h[1].kind = "SYNC"
      BY <3>1, SMT
    <3> HIDE DEF h
    <3>3. Neutral(h) /\ Neutral(<< >>)
      BY <3>2, SMT DEF Neutral
    <3> QED
      BY <1>1, <3>2, <3>3 DEF h
  <2> HIDE DEF mine
  <2>7. Pair(n, g, p, in, o)
    BY <1>0, <2>3, <2>5, <2>6, EnterPair
  <2>8. o \in Seq(Message)
    BY <1>0, <2>6, SMT
  <2> HIDE DEF o
  <2>9. Reach(g, t)
    <3>1. Exchange(g) /\ Listed(g)
      BY <2>5, <2>7 DEF Exchange, Pair, Side, KeptBy
    <3> QED
      BY <2>5, <3>1, PeerConnReach
  <2>10. t \in NodeRec /\ Exchange(t) /\ Pair(n, t, p, in, o)
    BY <1>0, <2>5, <2>7, <2>8, <2>9, EventPair
       DEF Reach, Told, Answered, Exchange
  <2> HIDE DEF t
  <2>11. Pair(n, t, p, r, o)
    BY <1>0, <1>4, <2>8, <2>10, PopPair DEF r
  <2> QED
    BY <1>0, <1>2, <2>2, <2>6, <2>10, <2>11, PassFlight DEF p, out, o
<1>5. CASE m.kind # "SYNC"
  <2> DEFINE t == Handled(s, m)
  <2>1. Pass(n, t, << >>, ch)
    BY <1>5 DEF Receive
  <2>2. Exchange(s)
    <3>1. s.st # "sync"
      BY <1>0, <1>5 DEF Pair, Side, Opening
    <3> QED
      BY <1>0, <3>1 DEF NodeRec, Exchange
  <2>3. m.kind \in {"ADD", "DEL"} => m.ifname \in {Po, Orphan}
    <3>1. Named(in) /\ 1 \in DOMAIN in /\ m = in[1]
      <4>1. Named(in)
        BY <1>0 DEF Pair, Side
      <4> HIDE DEF in
      <4> QED
        BY <1>0, <4>1, HeadFacts
    <3>2. m.kind \in {"ADD", "DEL"} => m.ifname # ""
      BY <3>1 DEF Named
    <3> QED
      BY <1>3, <3>2 DEF Ports
  <2>4. t \in NodeRec /\ Pair(n, t, p, r, out)
    <3> HIDE DEF s, p, in, out
    <3>1. CASE m.kind = "ADD"
      <4>1. t \in NodeRec /\ Answered(s, t)
        BY <1>0, <2>2, <2>3, <3>1, PeerAddKnownAnswered, PeerAddNewAnswered
           DEF Handled
      <4> QED
        BY <1>0, <2>2, <3>1, <4>1, AddPair
    <3>2. CASE m.kind = "DEL"
      <4>1. t = PeerDel(s)
        BY <3>2 DEF Handled
      <4>2. t \in NodeRec /\ Answered(s, t) /\ PeerOnly(t)
        BY <1>0, <4>1, PeerDelReach DEF Reach, Told
      <4> QED
        BY <1>0, <2>2, <3>2, <4>2, DelPair
    <3>3. CASE m.kind \notin {"ADD", "DEL"}
      <4>1. Reach(s, t)
        <5>1. t = s \/ t = AggportState(s, m.up)
          BY <3>3 DEF Handled
        <5> QED
          BY <1>0, <1>3, <5>1, AggportStateReach, ReachSelf
      <4> HIDE DEF t
      <4>2. t \in NodeRec /\ Exchange(t) /\ Pair(n, t, p, in, out)
        BY <1>0, <2>2, <4>1, EventPair DEF Reach, Told, Answered, Exchange
      <4> QED
        BY <1>0, <3>3, <4>2, PopPair
    <3> QED
      BY <3>1, <3>2, <3>3
  <2> HIDE DEF t, r, ch
  <2>5. out \o << >> = out
    BY <1>0, SMT
  <2> QED
    BY <1>0, <1>1, <1>2, <2>1, <2>4, <2>5, PassFlight
<1> QED
  BY <1>4, <1>5

\* Nothing is on its way when the peers connect.
LEMMA ConnectFlight ==
  ASSUME FlightInv, Inv', Connect
  PROVE  FlightInv'
<1> DEFINE S(n) == node[n]
           T(n) == [S(n) EXCEPT !.st = "sync", !.silent = FALSE,
                                !.changed = IF n = Active THEN FALSE ELSE @]
<1>1. ASSUME NEW n \in Node
      PROVE  /\ node'[n] \in NodeRec /\ node'[n].st = "sync" /\ node'[n].list = << >>
             /\ KeptBy(node'[n]) /\ PeerOnly(node'[n])
  <2>1. node'[n] = T(n) /\ S(n) \in NodeRec /\ ~Exchange(S(n)) /\ KeptBy(S(n))
    BY DEF Connect, FlightInv, Inv, Pair, Side, Exchange
  <2> HIDE DEF S
  <2>2. T(n) \in NodeRec /\ T(n).st = "sync" /\ T(n).list = S(n).list /\ T(n).mac = S(n).mac
    BY <2>1 DEF NodeRec
  <2> HIDE DEF T
  <2>3. S(n).list = << >> /\ PeerOnly(S(n)) /\ Listed(S(n))
    BY <2>1 DEF KeptBy
  <2>4. PeerOnly(T(n)) /\ Listed(T(n))
    BY <2>2, <2>3 DEF PeerOnly, Listed, Known
  <2> QED
    BY <2>1, <2>2, <2>3, <2>4 DEF KeptBy
<1> DEFINE h == <<PoState("SYNC", node[Active].po)>>
<1>2. /\ chan'[Standby] = h /\ chan'[Active] = << >>
      /\ Active \in Node /\ Standby \in Node
      /\ Peer(Active) = Standby /\ Peer(Standby) = Active
  BY NodeAssumption DEF Connect, Node, Peer
<1>3. Named(h) /\ Neutral(h) /\ Head(h).kind = "SYNC" /\ h \in Seq(Message)
  <2>1. PoState("SYNC", node[Active].po) \in Message
    BY <1>2 DEF FlightInv, Inv, NodeRec, PoState, Message, Kinds, Ports
  <2>2. PoState("SYNC", node[Active].po).kind = "SYNC"
    BY DEF PoState
  <2>3. h \in Seq(Message) /\ DOMAIN h = {1} /\ h[1].kind = "SYNC" /\ Head(h).kind = "SYNC"
    BY <2>1, <2>2, SMT
  <2> HIDE DEF h
  <2> QED
    BY <2>3 DEF Named, Neutral
<1> HIDE DEF h
<1>4. Named(<< >>) /\ Neutral(<< >>) /\ << >> \in Seq(Message)
  BY SMT DEF Named, Neutral
<1> DEFINE a == node'[Active]
           b == node'[Standby]
<1>5. /\ a \in NodeRec /\ a.st = "sync" /\ KeptBy(a) /\ PeerOnly(a)
      /\ b \in NodeRec /\ b.st = "sync" /\ KeptBy(b) /\ PeerOnly(b)
  BY <1>1, <1>2
<1> HIDE DEF a, b
<1>6. Opening(a, b, << >>, h) /\ Opening(b, a, h, << >>)
  BY <1>3, <1>4, <1>5 DEF Opening, Exchange
<1>7. Retracts(a, b, h) /\ Retracts(b, a, << >>)
  BY <1>3, <1>4, <1>5, <1>6, NothingSaid
<1>8. Last(a, b, << >>)
  BY <1>5 DEF Last, Exchange
<1>9. Pair(Active, a, b, << >>, h)
  BY <1>3, <1>4, <1>5, <1>6, <1>7, <1>8, NodeAssumption DEF Pair, Side, Lead
<1>10. Pair(Standby, b, a, h, << >>)
  BY <1>2, <1>9, PairSym
<1> QED
  BY <1>2, <1>9, <1>10 DEF FlightInv, Node, a, b

\* A local event.
LEMMA EventFlight ==
  ASSUME FlightInv, Inv', NEW n \in Node, NEW t, Reach(node[n], t),
         node' = [node EXCEPT ![n] = t], chan' = chan
  PROVE  FlightInv'
<1>1. /\ Pair(n, node[n], node[Peer(n)], chan[n], chan[Peer(n)]) /\ Inv
      /\ node[Peer(n)] \in NodeRec
      /\ chan[n] \in Seq(Message) /\ chan[Peer(n)] \in Seq(Message)
  BY PeerFacts DEF FlightInv, Inv
<1>2. Pair(n, t, node[Peer(n)], chan[n], chan[Peer(n)])
  BY <1>1, EventPair
<1> QED
  BY <1>1, <1>2, LiftPair

\* The session is lost.
LEMMA DisconnectFlight ==
  ASSUME FlightInv, Inv', NEW n \in Node, Disconnect(n)
  PROVE  FlightInv'
<1> DEFINE t == SessionDisconnect(node[n])
           p == node[Peer(n)]
           out == chan[Peer(n)]
<1>0. Inv /\ Pair(n, node[n], p, chan[n], out) /\ Peer(n) \in Node /\ Peer(n) # n
  BY PeerFacts DEF FlightInv
<1>1. node' = [node EXCEPT ![n] = t] /\ chan'[n] = << >> /\ chan'[Peer(n)] = out
  BY <1>0 DEF Disconnect, Inv
<1>2. InOrder(t)
  BY SessionDisconnectInOrder DEF FlightInv, Inv
<1>3. t.st = "off" /\ t.list = << >>
  <2> DEFINE q == PeerDisconnFdb(node[n])
             u == [q EXCEPT !.st = "off", !.pif = "none", !.list = << >>]
  <2>1. t = u
    BY DEF SessionDisconnect
  <2>2. "st" \in DOMAIN t /\ "list" \in DOMAIN t
    BY <1>2 DEF InOrder, NodeRec
  <2> HIDE DEF q, t
  <2> QED
    BY <2>1, <2>2
<1> HIDE DEF t
<1>4. PeerOnly(t)
  BY <1>2, <1>3 DEF InOrder, Aged, PeerOnly
<1>5. Named(<< >>) /\ Neutral(<< >>) /\ DOMAIN << >> = {}
  BY SMT DEF Named, Neutral
<1>6. KeptBy(t)
  BY <1>3, <1>4, <1>5 DEF KeptBy, Listed
<1>7. Opening(t, p, << >>, out) /\ Opening(p, t, out, << >>)
  BY <1>0, <1>3, <1>4, <1>5 DEF Pair, Side, Opening, Exchange
<1>8. Retracts(t, p, out) /\ Retracts(p, t, << >>)
  BY <1>3 DEF Retracts
<1>9. Lead(n, t, p, << >>, out)
  BY <1>3 DEF Lead, Last, Exchange
<1>10. Pair(n, t, p, << >>, out)
  BY <1>0, <1>5, <1>6, <1>7, <1>8, <1>9 DEF Pair, Side
<1> QED
  BY <1>0, <1>1, <1>10, LiftPair

\* Every step.
LEMMA FlightNext == FlightInv /\ [Next]_vars => FlightInv'
<1> SUFFICES ASSUME FlightInv, [Next]_vars PROVE FlightInv'
  OBVIOUS
<1>0. Inv /\ Inv'
  BY InvNext DEF FlightInv
<1>t. \A n \in Node : node[n] \in NodeRec /\ Listed(node[n])
  BY DEF FlightInv, Inv, Pair, Side, KeptBy
<1>1. CASE Connect
  BY <1>0, <1>1, ConnectFlight
<1>2. ASSUME NEW n \in Node, Receive(n) PROVE FlightInv'
  BY <1>0, <1>2, ReceiveFlight
<1>3. ASSUME NEW n \in Node, Send(n) PROVE FlightInv'
  <2> DEFINE p == node[Peer(n)]
             out == chan[Peer(n)]
  <2>1. /\ Pair(n, node[n], p, chan[n], out) /\ node[n] \in NodeRec
        /\ << >> \in Seq(Message) /\ chan \in [Node -> Seq(Message)]
        /\ out \in Seq(Message)
    BY PeerFacts, SMT DEF FlightInv, Inv
  <2>2. Pass(n, node[n], << >>, chan)
    BY <1>3 DEF Send
  <2>3. out \o << >> = out
    BY <2>1, SMT
  <2> QED
    BY <1>0, <2>1, <2>2, <2>3, PassFlight
<1>4. ASSUME NEW n \in Node, PendingTimer(n) PROVE FlightInv'
  <2> DEFINE s == [node[n] EXCEPT !.po_down_time = FALSE]
             t == IF s.mac.origin = Po /\ s.mac.pending THEN DropPending(s) ELSE s
  <2>1. node' = [node EXCEPT ![n] = t] /\ chan' = chan
    BY <1>4 DEF PendingTimer
  <2>2. s \in NodeRec /\ Same(node[n], s)
    BY <1>t DEF NodeRec, Same, Known
  <2> HIDE DEF s
  <2>3. Reach(node[n], s) /\ Listed(s)
    BY <1>t, <2>2, SameTold DEF Reach, Same, Listed
  <2>4. Reach(node[n], DropPending(s))
    BY <2>2, <2>3, DropPendingReach, ThenTold DEF Reach
  <2>5. Reach(node[n], t)
    BY <2>3, <2>4
  <2> HIDE DEF t
  <2> QED
    BY <1>0, <2>1, <2>5, EventFlight
<1>5. ASSUME NEW n \in Node, Disconnect(n) PROVE FlightInv'
  BY <1>0, <1>5, DisconnectFlight
<1>6. ASSUME NEW n \in Node, NEW i \in {Po, Orphan}, Learn(n, i) PROVE FlightInv'
  <2> DEFINE t == IF Known(node[n]) THEN LearnKnown(node[n], i) ELSE LearnNew(node[n], i)
  <2>1. Reach(node[n], t)
    BY <1>t, LearnKnownReach, LearnNewReach
  <2>2. node' = [node EXCEPT ![n] = t] /\ chan' = chan
    BY <1>6 DEF Learn, Local
  <2> HIDE DEF t
  <2> QED
    BY <1>0, <2>1, <2>2, EventFlight
<1>7. ASSUME NEW n \in Node, NEW i \in {Po, Orphan}, Age(n, i) PROVE FlightInv'
  <2>1. Reach(node[n], Forget(node[n], i))
    BY <1>7, <1>t, ForgetReach DEF Age
  <2>2. node' = [node EXCEPT ![n] = Forget(node[n], i)] /\ chan' = chan
    BY <1>7 DEF Age, Local
  <2> QED
    BY <1>0, <2>1, <2>2, EventFlight
<1>8. ASSUME NEW n \in Node, PoEvent(n) PROVE FlightInv'
  <2>1. Reach(node[n], PoChange(node[n]))
    BY <1>t, PoChangeReach
  <2>2. node' = [node EXCEPT ![n] = PoChange(node[n])] /\ chan' = chan
    BY <1>8 DEF PoEvent, Local
  <2> QED
    BY <1>0, <2>1, <2>2, EventFlight
<1>9. ASSUME NEW n \in Node, EthEvent(n) PROVE FlightInv'
  <2>1. Reach(node[n], EthChange(node[n]))
    BY <1>t, EthChangeReach
  <2>2. node' = [node EXCEPT ![n] = EthChange(node[n])] /\ chan' = chan
    BY <1>9 DEF EthEvent, Local
  <2> QED
    BY <1>0, <2>1, <2>2, EventFlight
<1>10. ASSUME NEW n \in Node, PeerLinkEvent(n) PROVE FlightInv'
  <2>1. Reach(node[n], PeerLinkChange(node[n]))
    BY <1>t, PeerLinkChangeReach
  <2>2. node' = [node EXCEPT ![n] = PeerLinkChange(node[n])] /\ chan' = chan
    BY <1>10 DEF PeerLinkEvent, Local
  <2> QED
    BY <1>0, <2>1, <2>2, EventFlight
<1>11. CASE UNCHANGED vars
  BY <1>0, <1>11 DEF FlightInv, vars
<1> QED
  BY <1>1, <1>2, <1>3, <1>4, <1>5, <1>6, <1>7, <1>8, <1>9, <1>10, <1>11
     DEF Next

(* An address a daemon keeps for the peer alone is one the peer has, once  *)
(* all messages have arrived, whatever ADDs and DELs crossed:              *)
(* RemoteIsHeld, for every number of events.                               *)
THEOREM RemoteIsHeldAlways == Spec => []RemoteIsHeld
<1>1. FlightInv => RemoteIsHeld
  <2> SUFFICES ASSUME FlightInv, Quiet, \A n \in Node : Exchange(node[n]),
                      NEW n \in Node, Known(node[n]), node[n].mac.age = {"local"},
                      ~node[Peer(n)].silent
               PROVE  Known(node[Peer(n)]) /\ "local" \notin node[Peer(n)].mac.age
    BY DEF RemoteIsHeld
  <2> DEFINE s == node[n]
             p == node[Peer(n)]
  <2>1. /\ Peer(n) \in Node /\ s.st = "exchange" /\ p.st = "exchange" /\ p \in NodeRec
        /\ Retracts(p, s, chan[n]) /\ chan[n] = << >> /\ Written(p) = << >>
        /\ ~PeerOnly(s)
    BY PeerFacts DEF FlightInv, Inv, Pair, Side, Quiet, Exchange, PeerOnly
  <2>2. Content(p) \in Seq(Message)
    BY <2>1, ContentFacts
  <2>3. Content(p) = << >>
    <3> DEFINE w == IF p.changed THEN <<PoState("STATE", p.po)>> ELSE << >>
    <3>1. w \o Content(p) = << >>
      BY <2>1 DEF Written, Exchange
    <3>2. PoState("STATE", p.po) \in Message
      BY <2>1 DEF PoState, Message, Kinds, Ports, NodeRec
    <3>3. w \in Seq(Message)
      BY <3>2, SMT
    <3> HIDE DEF w, p
    <3> QED
      BY <2>2, <3>1, <3>3, ConcatType
  <2>4. Flight(p, chan[n]) = << >>
    BY <2>1, <2>3, SMT DEF Flight
  <2>5. ~EndsDel(Flight(p, chan[n]))
    BY <2>4, NeutralNews
  <2>6. ~Bare(p)
    BY <2>1, <2>5 DEF Retracts
  <2> QED
    BY <2>6 DEF Bare
<1> QED
  BY <1>1, FlightInit, FlightNext, PTL DEF Spec
=============================================================================

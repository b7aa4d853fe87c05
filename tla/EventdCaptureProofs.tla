------------------------- MODULE EventdCaptureProofs -------------------------
(***************************************************************************)
(* eventd's capture service.  Whatever the client sends, and when, the     *)
(* cache is never shared with a thread that still runs and it keeps the    *)
(* newest event of every publisher; with a client that keeps to the        *)
(* protocol it also has no hole and no repetition.  For any number of      *)
(* publishers and events and any size of the cache.                        *)
(***************************************************************************)
EXTENDS EventdCaptureProps, WellFoundedInduction, TLAPS

\* A leaf is left to Zenon unless it names a prover: SMT where arithmetic or the
\* theory of sequences is needed, PTL for temporal logic.
USE Zenon

-----------------------------------------------------------------------------
(* Types. *)

\* An event of any sequence number from 1.
Numbered == [rid : Rid, seq : Nat \ {0}]

\* m_pre_exist_id and m_last_events.
SeqMap == UNION {[S -> Nat \ {0}] : S \in SUBSET Rid}
EventMap == UNION {[S -> Numbered] : S \in SUBSET Rid}

Capture ==
    [alive : BOOLEAN, ctrl : {NEED_INIT, INIT_CAPTURE, START_CAPTURE, STOP_CAPTURE},
     run : BOOLEAN, events : Seq(Numbered), pre : SeqMap, last : EventMap,
     lastInit : BOOLEAN, missed : Nat]

CaptureThread ==
    [at : {"starting", "waiting", "check", "recv", "done"},
     state : {"init", "active", "last"}, initCnt : Int, overflow : Nat]

Telemetry ==
    [phase : {"caching", "reading", "live", "prep"}, subscribed : BOOLEAN,
     queue : Seq(Numbered), due : Nat]

\* The state the proofs are about; the responses and the lists handed out are
\* left out.
TypeOK ==
    /\ pc \in {"polling", "booted", "idle", "draining", "joining", "term", "exited"}
    /\ after \in {"boot", "init", "drop", "stop", "unstarted"}
    /\ cap \in Capture
    /\ thr \in CaptureThread
    /\ sock \in Seq(Numbered)
    /\ cli \in Telemetry
    /\ pub \in [Rid -> Nat]
    /\ hist \in [newest : [Rid -> Nat], stock : Nat]

-----------------------------------------------------------------------------
(* What holds whatever the client sends, and when.                         *)

\* An event of publisher r.
Ev(r, n) == [rid |-> r, seq |-> n]

\* A queue that has received every event since it was opened: in the order of
\* publication, and complete from each of its events to the latest.
Flow(q, p) ==
    /\ \A i, j \in DOMAIN q : i < j /\ q[i].rid = q[j].rid => q[i].seq < q[j].seq
    /\ \A i \in DOMAIN q :
         /\ q[i].seq <= p[q[i].rid]
         /\ \A n \in q[i].seq..p[q[i].rid] :
                \E j \in DOMAIN q : q[j] = Ev(q[i].rid, n)

\* The thread's socket is subscribed.
Listening == thr.at \in {"waiting", "check", "recv"}

\* What the two threads have agreed on.
Stages ==
    /\ ~cap.alive => thr.at = "done"
    /\ cap.ctrl = INIT_CAPTURE => thr.at \in {"waiting", "done"}
    /\ thr.at \in {"check", "recv"} => cap.ctrl \in {START_CAPTURE, STOP_CAPTURE}
    /\ thr.at = "starting" => ~cap.run /\ cap.ctrl \in {NEED_INIT, STOP_CAPTURE}
    /\ pc = "polling" => cap.alive /\ cap.ctrl = NEED_INIT
    /\ thr.state # "last" => ~cap.lastInit
    /\ thr.at = "waiting" => thr.state = "init"
    /\ cap.ctrl \in {NEED_INIT, INIT_CAPTURE} \/ thr.at = "starting" =>
         thr.state = "init" /\ hist.newest = [r \in Rid |-> 0]
    /\ cap.alive /\ cap.ctrl \in {NEED_INIT, INIT_CAPTURE} => cap.events = <<>>

\* The socket and the subscription.
Flows ==
    /\ Flow(sock, pub) /\ Flow(cli.queue, pub)
    /\ ~Listening => sock = <<>>
    /\ ~cli.subscribed => cli.queue = <<>>

\* The newest event of a publisher is in m_events, or it is the publisher's
\* entry of m_last_events and the socket holds only later ones.
Held(r) ==
    \/ Ev(r, hist.newest[r]) \in Range(cap.events)
    \/ /\ cap.lastInit /\ r \in DOMAIN cap.last /\ cap.last[r] = Ev(r, hist.newest[r])
       /\ \A i \in DOMAIN sock : sock[i].rid = r => sock[i].seq > hist.newest[r]

\* No newest event is lost: what CAP_STATE_INIT drops is not newer than what
\* the cache has.
Kept ==
    /\ \A r \in Rid : hist.newest[r] <= pub[r]
    /\ cap.alive /\ thr.state = "init" =>
         \A r \in DOMAIN cap.pre : cap.pre[r] <= hist.newest[r]
    /\ cap.alive /\ (thr.state = "last" => cap.lastInit) =>
         \A r \in Rid : hist.newest[r] > 0 => Held(r)

KeepInv == TypeOK /\ Stages /\ Flows /\ Kept

-----------------------------------------------------------------------------
(* What holds with a client that keeps to the protocol.                    *)

\* Where the client is, and when it holds a subscription.
Phases ==
    /\ cli.phase \in {"reading", "live", "prep"} => cli.subscribed
    /\ cli.phase = "prep" => pc = "idle" /\ cap.alive /\ cap.ctrl = INIT_CAPTURE
    /\ pc = "polling" => after = "boot" \/ (after = "init" /\ cli.phase = "live")
    /\ pc = "draining" => after = "stop" /\ cli.subscribed
    /\ pc = "joining" /\ after \in {"stop", "unstarted"} => cli.subscribed
    /\ pc = "joining" /\ after = "init" => cli.phase = "live"

\* While a capture is being prepared, what the socket holds is the end of what
\* the subscription holds, and the client owes the cache at least what came
\* before.
Preparing == (pc = "polling" /\ after = "init") \/ cli.phase = "prep"
Handover ==
    thr.at = "waiting" /\ Preparing =>
        LET d == Len(cli.queue) - Len(sock) IN
        /\ d >= 0
        /\ cli.phase = "prep" => d <= cli.due
        /\ \A i \in DOMAIN sock : sock[i] = cli.queue[d + i]

\* How many more events CAP_STATE_INIT compares with the stock.
Left == IF thr.at = "waiting" THEN Len(cap.events) ELSE thr.initCnt

\* Between cache and socket nothing is missing, and what the socket repeats
\* CAP_STATE_INIT is still going to drop.
Ahead ==
    Listening =>
        /\ \A r \in Rid : hist.newest[r] > 0 =>
             \A n \in (hist.newest[r] + 1)..pub[r] :
                 \E i \in DOMAIN sock : sock[i] = Ev(r, n)
        /\ \A i \in DOMAIN sock :
             \/ hist.newest[sock[i].rid] = 0
             \/ sock[i].seq > hist.newest[sock[i].rid]
             \/ thr.state = "init" /\ sock[i].rid \in DOMAIN cap.pre /\ i <= Left

\* The newest event of each publisher, and that of the stock, is the last one
\* the cache holds.
Cached ==
    /\ cap.alive /\ thr.state # "last" =>
         \A i \in DOMAIN cap.events : cap.events[i].seq <= hist.newest[cap.events[i].rid]
    /\ cap.alive /\ thr.state = "init" =>
         \A r \in DOMAIN cap.pre : cap.pre[r] = hist.newest[r]

\* What is said of the events.
Data == Ahead /\ Cached /\ CacheContiguous

IInv == KeepInv /\ Phases /\ Handover /\ Data

-----------------------------------------------------------------------------
(* Lemmas about queues and maps.                                           *)

\* A non-empty set of numbers has a smallest one.
LEMMA Smallest ==
  ASSUME NEW S \in SUBSET Nat, S # {}
  PROVE  \E x \in S : \A y \in S : x <= y
<1>1. PICK x \in S : \A y \in S : ~(<<y, x>> \in OpToRel(<, Nat))
  BY NatLessThanWellFounded, WFMin
<1>2. \A y \in S : ~(y < x)
  BY <1>1 DEF OpToRel
<1> QED
  BY <1>2, SMT

\* A non-empty bounded set of numbers has a largest one, which Max returns.
LEMMA Largest ==
  ASSUME NEW S, NEW b \in Nat, S \subseteq 1..b, S # {}
  PROVE  Max(S) \in S /\ \A y \in S : y <= Max(S)
<1> DEFINE T == {n \in Nat : \E y \in S : n = b - y}
<1>1. PICK n \in T : \A m \in T : n <= m
  <2>1. PICK y \in S : TRUE
    OBVIOUS
  <2>2. b - y \in T
    BY SMT
  <2> QED
    BY <2>2, Smallest
<1>2. PICK x \in S : n = b - x
  BY <1>1
<1>3. \A y \in S : x >= y
  <2> SUFFICES ASSUME NEW y \in S PROVE x >= y
    OBVIOUS
  <2>1. b - y \in T
    BY SMT
  <2>2. n <= b - y
    BY <1>1, <2>1
  <2> QED
    BY <1>2, <2>2, SMT
<1> QED
  BY <1>3 DEF Max

\* The fields of an event.
LEMMA EvFields ==
  ASSUME NEW r \in Rid, NEW n \in Nat \ {0}
  PROVE  Ev(r, n) \in Numbered /\ Ev(r, n).rid = r /\ Ev(r, n).seq = n
BY DEF Ev, Numbered

\* An event is its publisher and its number.
LEMMA EvOf ==
  ASSUME NEW e \in Numbered
  PROVE  e = Ev(e.rid, e.seq) /\ e.rid \in Rid /\ e.seq \in Nat /\ e.seq > 0
BY SMT DEF Ev, Numbered

\* What stands in a list of events.
LEMMA ListAt ==
  ASSUME NEW q \in Seq(Numbered)
  PROVE  /\ Len(q) \in Nat /\ DOMAIN q = 1..Len(q)
         /\ \A i \in DOMAIN q : /\ q[i] \in Numbered /\ q[i] = Ev(q[i].rid, q[i].seq)
                               /\ q[i].rid \in Rid /\ q[i].seq \in Nat /\ q[i].seq > 0
<1>1. Len(q) \in Nat /\ DOMAIN q = 1..Len(q) /\ \A i \in DOMAIN q : q[i] \in Numbered
  BY SMT
<1> QED
  BY <1>1, EvOf

\* A socket just opened holds nothing.
LEMMA FlowEmpty ==
  ASSUME NEW p PROVE Flow(<<>>, p)
BY SMT DEF Flow

\* Publishing an event to a queue that is subscribed.
LEMMA FlowAppend ==
  ASSUME NEW q \in Seq(Numbered), NEW p \in [Rid -> Nat], NEW r \in Rid, Flow(q, p)
  PROVE  Flow(Append(q, Ev(r, p[r] + 1)), [p EXCEPT ![r] = @ + 1])
<1> DEFINE e == Ev(r, p[r] + 1)
           s == Append(q, e)
           p2 == [p EXCEPT ![r] = @ + 1]
<1>1. e \in Numbered /\ e.rid = r /\ e.seq = p[r] + 1
  BY EvFields, SMT
<1> HIDE DEF e
<1>2. /\ s \in Seq(Numbered) /\ Len(s) = Len(q) + 1 /\ s[Len(s)] = e
      /\ DOMAIN s = 1..(Len(q) + 1) /\ DOMAIN q = 1..Len(q) /\ Len(q) \in Nat
      /\ \A i \in 1..Len(q) : s[i] = q[i]
  BY <1>1, SMT
<1>3. p2[r] = p[r] + 1 /\ \A x \in Rid \ {r} : p2[x] = p[x]
  OBVIOUS
<1>q. \A i \in DOMAIN q : q[i] \in Numbered /\ q[i].rid \in Rid /\ q[i].seq \in Nat /\ q[i].seq > 0
  BY ListAt
<1>p. \A x \in Rid : p[x] \in Nat
  OBVIOUS
<1> HIDE DEF s, p2
<1>4. ASSUME NEW i \in DOMAIN s, NEW j \in DOMAIN s, i < j, s[i].rid = s[j].rid
      PROVE  s[i].seq < s[j].seq
  <2>1. i \in DOMAIN q /\ s[i] = q[i]
    BY <1>2, <1>4, SMT
  <2>2. CASE j \in DOMAIN q
    <3>1. s[j] = q[j]
      BY <1>2, <2>2
    <3> QED
      BY <2>1, <2>2, <3>1, <1>4 DEF Flow
  <2>3. CASE j \notin DOMAIN q
    <3>1. s[j] = e
      BY <1>2, <2>3, SMT
    <3>2. q[i].seq <= p[q[i].rid]
      BY <2>1 DEF Flow
    <3> QED
      BY <2>1, <3>1, <3>2, <1>4, <1>1, <1>q, <1>p, SMT
  <2> QED
    BY <2>2, <2>3
<1>5. ASSUME NEW i \in DOMAIN s
      PROVE  /\ s[i].seq <= p2[s[i].rid]
             /\ \A n \in s[i].seq..p2[s[i].rid] : \E j \in DOMAIN s : s[j] = Ev(s[i].rid, n)
  <2>1. CASE i \in DOMAIN q
    <3>1. s[i] = q[i]
      BY <1>2, <2>1
    <3>2. /\ q[i].seq <= p[q[i].rid]
          /\ \A n \in q[i].seq..p[q[i].rid] : \E j \in DOMAIN q : q[j] = Ev(q[i].rid, n)
      BY <2>1 DEF Flow
    <3>3. q[i].seq <= p2[q[i].rid]
      BY <3>2, <1>3, <1>q, <1>p, <2>1, SMT
    <3>4. ASSUME NEW n \in q[i].seq..p2[q[i].rid]
          PROVE  \E j \in DOMAIN s : s[j] = Ev(q[i].rid, n)
      <4>1. CASE n <= p[q[i].rid]
        <5>1. n \in q[i].seq..p[q[i].rid]
          BY <4>1, <1>q, <1>p, <2>1, SMT
        <5>2. PICK j \in DOMAIN q : q[j] = Ev(q[i].rid, n)
          BY <5>1, <3>2
        <5> QED
          BY <5>2, <1>2, SMT
      <4>2. CASE ~(n <= p[q[i].rid])
        <5>1. q[i].rid = r /\ n = p[r] + 1
          BY <4>2, <1>3, <1>q, <1>p, <2>1, SMT
        <5> QED
          BY <5>1, <1>2, SMT DEF e
      <4> QED
        BY <4>1, <4>2
    <3> QED
      BY <3>1, <3>3, <3>4
  <2>2. CASE i \notin DOMAIN q
    <3>1. s[i] = e
      BY <1>2, <2>2, SMT
    <3>2. s[i].seq = p2[s[i].rid] /\ s[i].rid = r /\ s[i].seq = p[r] + 1
      BY <3>1, <1>1, <1>3
    <3>3. \A n \in s[i].seq..p2[s[i].rid] : n = p[r] + 1
      BY <3>2, <1>p, SMT
    <3> QED
      BY <3>1, <3>2, <3>3, <1>1, <1>p, SMT DEF e
  <2> QED
    BY <2>1, <2>2
<1> QED
  BY <1>4, <1>5 DEF Flow, s, p2, e

\* The tail of a queue, by index.
LEMMA TailAt ==
  ASSUME NEW q \in Seq(Numbered), q # <<>>
  PROVE  /\ Tail(q) \in Seq(Numbered) /\ Len(Tail(q)) = Len(q) - 1 /\ Len(q) \in Nat \ {0}
         /\ DOMAIN Tail(q) = 1..(Len(q) - 1) /\ DOMAIN q = 1..Len(q)
         /\ \A i \in 1..(Len(q) - 1) : Tail(q)[i] = q[i + 1]
         /\ Head(q) = q[1] /\ Head(q) \in Numbered
         /\ \A i \in 1..Len(q) : q[i] \in Numbered
BY SMT

\* Reading an event of a queue.
LEMMA FlowTail ==
  ASSUME NEW q \in Seq(Numbered), NEW p \in [Rid -> Nat], q # <<>>, Flow(q, p)
  PROVE  Flow(Tail(q), p)
<1> DEFINE t == Tail(q)
<1>1. /\ Len(q) \in Nat \ {0} /\ DOMAIN t = 1..(Len(q) - 1) /\ DOMAIN q = 1..Len(q)
      /\ \A i \in 1..(Len(q) - 1) : t[i] = q[i + 1]
      /\ \A i \in 1..Len(q) : q[i] \in Numbered
  BY TailAt
<1> HIDE DEF t
<1>2. ASSUME NEW i \in DOMAIN t, NEW j \in DOMAIN t, i < j, t[i].rid = t[j].rid
      PROVE  t[i].seq < t[j].seq
  <2>1. /\ i + 1 \in DOMAIN q /\ j + 1 \in DOMAIN q /\ i + 1 < j + 1
        /\ t[i] = q[i + 1] /\ t[j] = q[j + 1]
    BY <1>1, <1>2, SMT
  <2> QED
    BY <2>1, <1>2 DEF Flow
<1>3. ASSUME NEW i \in DOMAIN t
      PROVE  /\ t[i].seq <= p[t[i].rid]
             /\ \A n \in t[i].seq..p[t[i].rid] : \E j \in DOMAIN t : t[j] = Ev(t[i].rid, n)
  <2>0. i + 1 \in DOMAIN q /\ t[i] = q[i + 1] /\ i + 1 > 1 /\ i \in Nat
    BY <1>1, SMT
  <2>1. /\ t[i].seq <= p[t[i].rid]
        /\ \A n \in t[i].seq..p[t[i].rid] : \E j \in DOMAIN q : q[j] = Ev(t[i].rid, n)
    BY <2>0 DEF Flow
  <2>2. ASSUME NEW n \in t[i].seq..p[t[i].rid]
        PROVE  \E j \in DOMAIN t : t[j] = Ev(t[i].rid, n)
    <3>1. PICK j \in DOMAIN q : q[j] = Ev(t[i].rid, n)
      BY <2>1, <2>2
    <3>2. t[i] \in Numbered /\ t[i].rid \in Rid /\ t[i].seq \in Nat /\ p[t[i].rid] \in Nat
      BY <2>0, <1>1 DEF Numbered
    <3>3. q[j].rid = t[i].rid /\ q[j].seq = n /\ n >= t[i].seq
      BY <3>1, <3>2, <2>2, SMT DEF Ev
    <3>4. j # 1
      <4> SUFFICES ASSUME j = 1 PROVE FALSE
        OBVIOUS
      <4>1. q[1].seq < q[i + 1].seq
        BY <2>0, <3>3, <1>1 DEF Flow
      <4>2. q[1].seq \in Nat /\ q[i + 1].seq \in Nat
        BY <2>0, <1>1 DEF Numbered
      <4> QED
        BY <4>1, <4>2, <3>3, <2>0, SMT
    <3>5. j - 1 \in DOMAIN t /\ t[j - 1] = q[j]
      BY <3>4, <1>1, SMT
    <3> QED
      BY <3>5, <3>1
  <2> QED
    BY <2>1, <2>2
<1> QED
  BY <1>2, <1>3 DEF Flow, t

\* The cache stays without a hole when the event that follows the newest one of
\* its publisher is added.
LEMMA ContiguousAppend ==
  ASSUME NEW es \in Seq(Numbered), NEW e \in Numbered, NEW m \in Nat, Contiguous(es),
         \A i \in DOMAIN es : es[i].rid = e.rid => es[i].seq <= m,
         m > 0 => Ev(e.rid, m) \in Range(es),
         m = 0 \/ e.seq = m + 1
  PROVE  Contiguous(Append(es, e))
<1> DEFINE s == Append(es, e)
<1>1. /\ s \in Seq(Numbered) /\ s[Len(es) + 1] = e
      /\ DOMAIN s = 1..(Len(es) + 1) /\ DOMAIN es = 1..Len(es) /\ Len(es) \in Nat
      /\ \A i \in DOMAIN es : s[i] = es[i]
  BY SMT
<1> HIDE DEF s
<1>2. \A i \in DOMAIN es : es[i].rid \in Rid /\ es[i].seq \in Nat /\ es[i].seq > 0
  BY ListAt
<1>3. e = Ev(e.rid, e.seq) /\ e.rid \in Rid /\ e.seq \in Nat
  BY EvOf
<1> SUFFICES ASSUME NEW i \in DOMAIN s, NEW j \in DOMAIN s, i < j, s[i].rid = s[j].rid
             PROVE  /\ s[i].seq < s[j].seq
                    /\ \A n \in s[i].seq..s[j].seq :
                           \E k \in DOMAIN s : s[k] = [rid |-> s[i].rid, seq |-> n]
  BY DEF Contiguous, s
<1>4. i \in DOMAIN es /\ s[i] = es[i]
  BY <1>1, SMT
<1>5. CASE j \in DOMAIN es
  <2>1. s[j] = es[j]
    BY <1>1, <1>5
  <2>2. /\ es[i].seq < es[j].seq
        /\ \A n \in es[i].seq..es[j].seq :
               \E k \in DOMAIN es : es[k] = [rid |-> es[i].rid, seq |-> n]
    BY <1>4, <1>5, <2>1, SMT DEF Contiguous
  <2>3. DOMAIN es \subseteq DOMAIN s
    BY <1>1, SMT
  <2> QED
    BY <2>1, <2>2, <2>3, <1>1, <1>4
<1>6. CASE j \notin DOMAIN es
  <2>1. j = Len(es) + 1 /\ s[j] = e
    BY <1>1, <1>6, SMT
  <2>2. es[i].seq <= m /\ es[i].rid = e.rid
    BY <1>4, <2>1
  <2>3. m > 0 /\ e.seq = m + 1
    BY <2>2, <1>2, <1>4, SMT
  <2>4. PICK l \in DOMAIN es : es[l] = Ev(e.rid, m)
    BY <2>3 DEF Range
  <2>5. es[l].rid = e.rid /\ es[l].seq = m
    BY <2>4, SMT DEF Ev
  <2>6. ASSUME NEW n \in es[i].seq..e.seq
        PROVE  \E k \in DOMAIN s : s[k] = Ev(e.rid, n)
    <3>1. CASE n = e.seq
      BY <3>1, <2>1, <1>3
    <3>2. CASE n # e.seq
      <4>1. n \in es[i].seq..m
        BY <3>2, <2>3, <1>2, <1>3, <1>4, SMT
      <4>2. CASE i < l
        <5>1. PICK k \in DOMAIN es : es[k] = Ev(e.rid, n)
          BY <4>1, <4>2, <2>2, <2>5, <1>4, SMT DEF Contiguous, Ev
        <5> QED
          BY <5>1, <1>1, SMT
      <4>3. CASE i = l
        <5>1. n = m
          BY <4>1, <4>3, <2>5, <1>2, SMT
        <5> QED
          BY <5>1, <2>4, <1>1, SMT
      <4>4. CASE l < i
        <5>1. es[l].seq < es[i].seq
          BY <4>4, <2>2, <2>5, <1>4 DEF Contiguous
        <5> QED
          BY <5>1, <2>5, <2>2, <1>2, <1>4, SMT
      <4> QED
        BY <4>2, <4>3, <4>4, <1>1, <1>4, SMT
    <3> QED
      BY <3>1, <3>2
  <2>7. s[i].seq < s[j].seq
    BY <2>1, <2>2, <2>3, <1>2, <1>4, SMT
  <2> QED
    BY <2>6, <2>7, <2>1, <2>2, <1>4, SMT DEF Ev
<1> QED
  BY <1>5, <1>6

\* What the client hands over, and the sequence numbers init_capture_cache
\* notes: of each publisher the last one handed over.
LEMMA Stock ==
  ASSUME NEW q \in Seq(Numbered), NEW p \in [Rid -> Nat], Flow(q, p), NEW k \in 0..Len(q)
  PROVE  LET lst == SubSeq(q, 1, k)
             ids == StockIds(lst)
         IN /\ lst \in Seq(Numbered) /\ Len(lst) = k
            /\ \A i \in 1..k : lst[i] = q[i]
            /\ DOMAIN ids \subseteq Rid /\ ids \in [DOMAIN ids -> Nat \ {0}]
            /\ \A r \in DOMAIN ids : ids[r] <= p[r] /\ Ev(r, ids[r]) \in Range(lst)
            /\ \A i \in 1..k : q[i].rid \in DOMAIN ids /\ q[i].seq <= ids[q[i].rid]
            /\ \A i \in DOMAIN q : i > k /\ q[i].rid \in DOMAIN ids => q[i].seq > ids[q[i].rid]
            /\ Contiguous(lst)
<1> DEFINE lst == SubSeq(q, 1, k)
           ids == StockIds(lst)
           At(r) == {i \in DOMAIN lst : lst[i].rid = r}
<1>0. Len(q) \in Nat /\ DOMAIN q = 1..Len(q) /\ k \in Nat /\ k <= Len(q)
  BY SMT
<1>1. lst \in Seq(Numbered) /\ Len(lst) = k /\ DOMAIN lst = 1..k /\ \A i \in 1..k : lst[i] = q[i]
  BY <1>0, SMT
<1> HIDE DEF lst
<1>2. \A i \in DOMAIN q : q[i].rid \in Rid /\ q[i].seq \in Nat /\ q[i].seq > 0 /\ q[i] = Ev(q[i].rid, q[i].seq)
  BY ListAt
<1>3. DOMAIN ids = {e.rid : e \in Range(lst)} /\ \A r \in DOMAIN ids : ids[r] = lst[Max(At(r))].seq
  BY DEF StockIds
<1>4. \A r : r \in DOMAIN ids <=> \E i \in 1..k : q[i].rid = r
  BY <1>3, <1>1, SMT DEF Range
<1> HIDE DEF ids
<1>5. ASSUME NEW r \in DOMAIN ids
      PROVE  Max(At(r)) \in 1..k /\ q[Max(At(r))].rid = r /\ \A y \in At(r) : y <= Max(At(r))
  <2>1. At(r) # {} /\ At(r) \subseteq 1..k
    BY <1>4, <1>1
  <2> HIDE DEF At
  <2>2. Max(At(r)) \in At(r) /\ \A y \in At(r) : y <= Max(At(r))
    BY <2>1, <1>0, Largest
  <2> QED
    BY <2>1, <2>2, <1>1 DEF At
<1>6. ASSUME NEW r \in DOMAIN ids
      PROVE  /\ r \in Rid /\ ids[r] \in Nat \ {0} /\ ids[r] <= p[r]
             /\ Ev(r, ids[r]) \in Range(lst)
  <2> DEFINE x == Max(At(r))
  <2>1. x \in 1..k /\ q[x].rid = r /\ ids[r] = lst[x].seq
    BY <1>5, <1>3
  <2> HIDE DEF x
  <2>2. x \in DOMAIN q /\ x \in DOMAIN lst /\ lst[x] = q[x]
    BY <2>1, <1>0, <1>1, SMT
  <2>3. q[x].seq <= p[q[x].rid]
    BY <2>2 DEF Flow
  <2> QED
    BY <2>1, <2>2, <2>3, <1>2, SMT DEF Range
<1>7. ASSUME NEW i \in 1..k
      PROVE  q[i].rid \in DOMAIN ids /\ q[i].seq <= ids[q[i].rid]
  <2>1. q[i].rid \in DOMAIN ids
    BY <1>4
  <2> DEFINE x == Max(At(q[i].rid))
  <2>2. /\ x \in 1..k /\ q[x].rid = q[i].rid /\ ids[q[i].rid] = lst[x].seq
        /\ \A y \in At(q[i].rid) : y <= x
    BY <2>1, <1>5, <1>3
  <2>3. i \in At(q[i].rid)
    BY <1>1
  <2>4. i <= x
    BY <2>2, <2>3
  <2> HIDE DEF x
  <2>5. i \in DOMAIN q /\ x \in DOMAIN q /\ lst[x] = q[x]
    BY <2>2, <1>0, <1>1, SMT
  <2>6. i < x => q[i].seq < q[x].seq
    BY <2>2, <2>5 DEF Flow
  <2> QED
    BY <2>1, <2>2, <2>4, <2>5, <2>6, <1>2, SMT
<1>8. ASSUME NEW i \in DOMAIN q, i > k, q[i].rid \in DOMAIN ids
      PROVE  q[i].seq > ids[q[i].rid]
  <2> DEFINE x == Max(At(q[i].rid))
  <2>1. x \in 1..k /\ q[x].rid = q[i].rid /\ ids[q[i].rid] = lst[x].seq
    BY <1>8, <1>5, <1>3
  <2> HIDE DEF x
  <2>2. x \in DOMAIN q /\ x < i /\ lst[x] = q[x]
    BY <2>1, <1>8, <1>0, <1>1, SMT
  <2>3. q[x].seq < q[i].seq
    BY <2>1, <2>2 DEF Flow
  <2> QED
    BY <2>1, <2>2, <2>3, <1>2
<1>9. Contiguous(lst)
  <2> SUFFICES ASSUME NEW i \in DOMAIN lst, NEW j \in DOMAIN lst, i < j, lst[i].rid = lst[j].rid
               PROVE  /\ lst[i].seq < lst[j].seq
                      /\ \A n \in lst[i].seq..lst[j].seq :
                             \E l \in DOMAIN lst : lst[l] = [rid |-> lst[i].rid, seq |-> n]
    BY DEF Contiguous
  <2>1. i \in DOMAIN q /\ j \in DOMAIN q /\ lst[i] = q[i] /\ lst[j] = q[j]
    BY <1>0, <1>1, SMT
  <2>2. q[i].seq < q[j].seq /\ q[j].seq <= p[q[i].rid]
    BY <2>1 DEF Flow
  <2>3. ASSUME NEW n \in q[i].seq..q[j].seq
        PROVE  \E l \in DOMAIN lst : lst[l] = Ev(q[i].rid, n)
    <3>1. n \in q[i].seq..p[q[i].rid]
      BY <2>1, <2>2, <2>3, <1>2, SMT
    <3>2. PICK l \in DOMAIN q : q[l] = Ev(q[i].rid, n)
      BY <2>1, <3>1 DEF Flow
    <3>3. q[l].rid = q[j].rid /\ q[l].seq = n
      BY <3>2, <2>1, SMT DEF Ev
    <3>4. ~(j < l)
      <4> SUFFICES ASSUME j < l PROVE FALSE
        OBVIOUS
      <4>1. q[j].seq < q[l].seq
        BY <3>3, <2>1 DEF Flow
      <4> QED
        BY <4>1, <3>3, <2>3, <2>1, <1>2, SMT
    <3>5. l \in DOMAIN lst /\ lst[l] = q[l]
      BY <3>4, <1>0, <1>1, SMT
    <3> QED
      BY <3>2, <3>5
  <2> QED
    BY <2>1, <2>2, <2>3 DEF Ev
<1>10. ids \in [DOMAIN ids -> Nat \ {0}]
  <2>1. ids = [r \in DOMAIN ids |-> ids[r]]
    BY DEF ids, StockIds
  <2> QED
    BY <2>1, <1>6
<1> QED
  BY <1>1, <1>6, <1>7, <1>8, <1>9, <1>10 DEF lst, ids

-----------------------------------------------------------------------------
(* Types.                                                                  *)

\* The empty map.
LEMMA NoMapType == NoMap \in SeqMap /\ NoMap \in EventMap /\ DOMAIN NoMap = {}
<1>1. NoMap \in [{} -> Nat \ {0}] /\ NoMap \in [{} -> Numbered] /\ DOMAIN NoMap = {}
  BY DEF NoMap
<1>2. {} \in SUBSET Rid
  OBVIOUS
<1> QED
  BY <1>1, <1>2 DEF SeqMap, EventMap

\* A map of m_pre_exist_id.
LEMMA SeqMapType ==
  ASSUME NEW S \in SUBSET Rid, NEW f \in [S -> Nat \ {0}] PROVE f \in SeqMap
BY DEF SeqMap

\* What m_pre_exist_id holds.
LEMMA SeqMapAt ==
  ASSUME NEW f \in SeqMap
  PROVE  /\ DOMAIN f \in SUBSET Rid /\ \A r \in DOMAIN f : f[r] \in Nat /\ f[r] > 0
         /\ f \in [DOMAIN f -> Nat \ {0}]
<1>1. PICK S \in SUBSET Rid : f \in [S -> Nat \ {0}]
  BY DEF SeqMap
<1> QED
  BY <1>1, SMT

\* A map of m_last_events.
LEMMA EventMapType ==
  ASSUME NEW S \in SUBSET Rid, NEW f \in [S -> Numbered] PROVE f \in EventMap
BY DEF EventMap

\* What m_last_events holds.
LEMMA EventMapAt ==
  ASSUME NEW f \in EventMap
  PROVE  DOMAIN f \in SUBSET Rid /\ \A r \in DOMAIN f : f[r] \in Numbered
<1>1. PICK S \in SUBSET Rid : f \in [S -> Numbered]
  BY DEF EventMap
<1> QED
  BY <1>1

-----------------------------------------------------------------------------
(* The beginning, and the steps that touch no event.                       *)

\* The invariant holds when eventd starts.
LEMMA InitIInv == Init => IInv
<1> SUFFICES ASSUME Init PROVE IInv
  OBVIOUS
<1>1. TypeOK
  BY NoMapType, SMT
     DEF Init, TypeOK, NewCapture, NewThread, NewHist, Capture, CaptureThread,
         Telemetry, NEED_INIT
<1>2. Stages
  BY SMT
     DEF Init, Stages, NewCapture, NewThread, NewHist, NEED_INIT,
         INIT_CAPTURE, START_CAPTURE, STOP_CAPTURE
<1>3. Phases /\ Handover
  BY DEF Init, Phases, Handover, NewCapture, NewThread, NEED_INIT, INIT_CAPTURE
<1>4. Flows /\ ~Listening /\ sock = <<>>
  BY FlowEmpty DEF Init, Flows, Listening, NewThread
<1>5. Kept
  BY NoMapType, SMT DEF Init, Kept, NewCapture, NewHist
<1>6. Data
  BY <1>4, NoMapType, SMT
     DEF Init, Data, Ahead, Cached, CacheContiguous, Contiguous, NewCapture,
         NewThread, NewHist
<1> QED
  BY <1>1, <1>2, <1>3, <1>4, <1>5, <1>6 DEF IInv, KeepInv

\* Frame: the steps of the main thread that touch no event.  A capture may be
\* destroyed, and the client may subscribe.
SameData ==
    /\ UNCHANGED <<thr, sock, pub, hist>>
    /\ cli'.queue = cli.queue /\ (cli.subscribed => cli'.subscribed)
    /\ cap'.events = cap.events /\ cap'.pre = cap.pre /\ cap'.last = cap.last
    /\ cap'.lastInit = cap.lastInit /\ (cap'.alive => cap.alive)

\* Such a step keeps what is said of the queues and of the newest events.
LEMMA SameDataKeeps == KeepInv /\ SameData => Flows' /\ Kept'
<1> SUFFICES ASSUME KeepInv, SameData PROVE Flows' /\ Kept'
  OBVIOUS
<1>1. Flows'
  BY SMT DEF KeepInv, Flows, SameData, Listening, Flow
<1>2. \A r \in Rid : Held(r) => Held(r)'
  BY DEF SameData, Held
<1>3. hist' = hist /\ pub' = pub /\ thr' = thr /\ (cap'.alive => cap.alive)
      /\ cap'.pre = cap.pre /\ cap'.lastInit = cap.lastInit
  BY DEF SameData
<1>4. Kept
  BY DEF KeepInv
<1>5. Kept'
  BY <1>2, <1>3, <1>4 DEF Kept
<1> QED
  BY <1>1, <1>5

\* And what is said of the hand-over.
LEMMA SameDataOrder == IInv /\ SameData => Data'
<1> SUFFICES ASSUME IInv, SameData PROVE Data'
  OBVIOUS
<1>1. Ahead'
  BY DEF IInv, Data, SameData, Ahead, Listening, Left
<1>2. Cached'
  BY DEF IInv, Data, SameData, Cached
<1>3. CacheContiguous'
  BY SMT DEF IInv, Data, SameData, CacheContiguous, Contiguous
<1> QED
  BY <1>1, <1>2, <1>3 DEF Data

\* A stuttering step.
LEMMA Stutter ==
  ASSUME KeepInv, UNCHANGED vars PROVE KeepInv' /\ SameData /\ (IInv => IInv')
<1>1. UNCHANGED <<pc, after, cap, thr, sock, cli, pub, hist>>
  BY DEF vars
<1>2. SameData
  BY <1>1 DEF SameData
<1>3. TypeOK'
  BY <1>1 DEF KeepInv, TypeOK
<1>4. Stages'
  BY <1>1 DEF KeepInv, Stages
<1>5. KeepInv'
  BY <1>2, <1>3, <1>4, SameDataKeeps DEF KeepInv
<1>6. ASSUME IInv PROVE IInv'
  <2>1. Phases'
    BY <1>1, <1>6 DEF IInv, Phases
  <2>2. Handover'
    BY <1>1, <1>6 DEF IInv, Handover, Preparing
  <2> QED
    BY <2>1, <2>2, <1>2, <1>5, <1>6, SameDataOrder DEF IInv
<1> QED
  BY <1>2, <1>5, <1>6

-----------------------------------------------------------------------------
(* The main thread.                                                        *)

\* set_control writes m_ctrl and nothing else.
LEMMA SetCtrl ==
  ASSUME NEW c \in Capture, NEW x \in {NEED_INIT, INIT_CAPTURE, START_CAPTURE, STOP_CAPTURE}
  PROVE  LET d == [c EXCEPT !.ctrl = x] IN
         /\ d \in Capture /\ d.ctrl = x /\ d.alive = c.alive /\ d.run = c.run
         /\ d.events = c.events /\ d.pre = c.pre /\ d.last = c.last /\ d.lastInit = c.lastInit
BY DEF Capture

\* What set_control(INIT_CAPTURE) has done once the thread runs.
LEMMA PollDoneFacts ==
  ASSUME TypeOK, PollDone
  PROVE  /\ pc = "polling" /\ pc' = (IF after = "boot" THEN "booted" ELSE "idle") /\ cap.run
         /\ UNCHANGED <<after, thr, sock, pub, hist>>
         /\ cap' \in Capture /\ cap'.alive = cap.alive /\ cap'.run = cap.run
         /\ cap'.ctrl \in {INIT_CAPTURE, START_CAPTURE}
         /\ (after # "boot" <=> cap'.ctrl = INIT_CAPTURE)
         /\ cap'.events = cap.events /\ cap'.pre = cap.pre
         /\ cap'.last = cap.last /\ cap'.lastInit = cap.lastInit
         /\ after = "boot" => cli' = cli
         /\ after # "boot" => /\ cli' \in Telemetry /\ cli'.phase = "prep" /\ cli'.due = Len(cli.queue)
                              /\ cli'.queue = cli.queue /\ cli'.subscribed = cli.subscribed
<1> USE DEF NEED_INIT, INIT_CAPTURE, START_CAPTURE, STOP_CAPTURE
<1>t. cap \in Capture /\ cli \in Telemetry
  BY DEF TypeOK
<1>1. cap' \in Capture /\ cap'.alive = cap.alive /\ cap'.run = cap.run
      /\ cap'.ctrl \in {INIT_CAPTURE, START_CAPTURE}
      /\ (after # "boot" <=> cap'.ctrl = INIT_CAPTURE)
      /\ cap'.events = cap.events /\ cap'.pre = cap.pre
      /\ cap'.last = cap.last /\ cap'.lastInit = cap.lastInit
  <2> DEFINE x == IF after = "boot" THEN START_CAPTURE ELSE INIT_CAPTURE
  <2>1. cap' = [cap EXCEPT !.ctrl = x]
    BY DEF PollDone
  <2>2. x \in {INIT_CAPTURE, START_CAPTURE} /\ (after # "boot" <=> x = INIT_CAPTURE)
    BY SMT
  <2> HIDE DEF x
  <2>3. x \in {NEED_INIT, INIT_CAPTURE, START_CAPTURE, STOP_CAPTURE}
    BY <2>2
  <2>4. /\ cap' \in Capture /\ cap'.ctrl = x /\ cap'.alive = cap.alive /\ cap'.run = cap.run
        /\ cap'.events = cap.events /\ cap'.pre = cap.pre /\ cap'.last = cap.last
        /\ cap'.lastInit = cap.lastInit
    BY <2>1, <2>3, <1>t, SetCtrl
  <2> QED
    BY <2>2, <2>4
<1>2. after # "boot" => /\ cli' \in Telemetry /\ cli'.phase = "prep" /\ cli'.due = Len(cli.queue)
                        /\ cli'.queue = cli.queue /\ cli'.subscribed = cli.subscribed
  <2>1. Len(cli.queue) \in Nat
    BY <1>t, SMT DEF Telemetry
  <2> QED
    BY <1>t, <2>1 DEF PollDone, Telemetry
<1>3. /\ pc = "polling" /\ pc' = (IF after = "boot" THEN "booted" ELSE "idle") /\ cap.run
      /\ UNCHANGED <<after, thr, sock, pub, hist>> /\ (after = "boot" => cli' = cli)
  BY DEF PollDone
<1> QED
  BY <1>1, <1>2, <1>3

\* What EVENT_CACHE_STOP does before it drains or joins.
LEMMA CacheStopFacts ==
  ASSUME TypeOK, CacheStop
  PROVE  /\ pc = "idle" /\ UNCHANGED <<thr, sock, pub, hist>>
         /\ cli' \in Telemetry /\ cli'.queue = cli.queue /\ cli'.subscribed
         /\ cli'.phase \in {cli.phase, "live"} /\ cli'.due = cli.due
         /\ cap' \in Capture /\ cap'.alive = cap.alive /\ cap'.run = cap.run
         /\ cap'.events = cap.events /\ cap'.pre = cap.pre
         /\ cap'.last = cap.last /\ cap'.lastInit = cap.lastInit
         /\ cap'.ctrl \in {cap.ctrl, STOP_CAPTURE}
         /\ pc' \in {"idle", "draining", "joining"} /\ (pc' # "draining" \/ after' = "stop")
         /\ (pc' # "joining" \/ after' = "unstarted")
         /\ after' \in {after, "stop", "unstarted"}
<1> USE DEF NEED_INIT, INIT_CAPTURE, START_CAPTURE, STOP_CAPTURE
<1>t. cap \in Capture /\ cli \in Telemetry
  BY DEF TypeOK
<1>1. pc = "idle" /\ UNCHANGED <<thr, sock, pub, hist>>
  BY DEF CacheStop, Request
<1>2. /\ cli' \in Telemetry /\ cli'.queue = cli.queue /\ cli'.subscribed
      /\ cli'.phase \in {cli.phase, "live"} /\ cli'.due = cli.due
  <2>1. cli' = [cli EXCEPT !.subscribed = TRUE]
        \/ cli' = [cli EXCEPT !.subscribed = TRUE, !.phase = "live"]
    BY DEF CacheStop
  <2> QED
    BY <2>1, <1>t DEF Telemetry
<1>3. /\ cap' \in Capture /\ cap'.alive = cap.alive /\ cap'.run = cap.run
      /\ cap'.events = cap.events /\ cap'.pre = cap.pre
      /\ cap'.last = cap.last /\ cap'.lastInit = cap.lastInit
      /\ cap'.ctrl \in {cap.ctrl, STOP_CAPTURE}
  BY <1>t DEF CacheStop, Capture
<1>4. /\ pc' \in {"idle", "draining", "joining"} /\ (pc' # "draining" \/ after' = "stop")
      /\ (pc' # "joining" \/ after' = "unstarted")
      /\ after' \in {after, "stop", "unstarted"}
  BY <1>1 DEF CacheStop
<1> QED
  BY <1>1, <1>2, <1>3, <1>4

\* The steps of the main thread that touch no event.
QuietStep ==
    \/ PollDone \/ BootEnds \/ PollGiveUp \/ DrainEnds \/ JoinedDrop \/ Terminated
    \/ CacheInit \/ CacheStop \/ CacheRead \/ Echo \/ Exit

\* They keep what holds whatever the client sends.
LEMMA QuietKeeps ==
  ASSUME KeepInv, QuietStep PROVE KeepInv' /\ SameData
<1> USE DEF NEED_INIT, INIT_CAPTURE, START_CAPTURE, STOP_CAPTURE
<1>t. TypeOK /\ cap \in Capture /\ thr \in CaptureThread /\ cli \in Telemetry /\ Stages
  BY DEF KeepInv, TypeOK
<1> SUFFICES TypeOK' /\ SameData /\ Stages'
  BY SameDataKeeps DEF KeepInv
<1>1. CASE PollDone
  <2>1. TypeOK' /\ SameData
    BY <1>1, <1>t, PollDoneFacts DEF TypeOK, SameData
  <2>2. Stages'
    BY <1>1, <1>t, PollDoneFacts, SMT DEF Stages, CaptureThread
  <2> QED
    BY <2>1, <2>2
<1>2. CASE BootEnds
  <2>1. TypeOK' /\ SameData
    BY <1>2, <1>t DEF TypeOK, BootEnds, SameData
  <2>2. Stages'
    BY <1>2, <1>t DEF Stages, BootEnds, Capture, CaptureThread
  <2> QED
    BY <2>1, <2>2
<1>3. CASE PollGiveUp
  <2>1. TypeOK' /\ SameData
    <3>1. CASE after = "boot"
      <4>1. cap' = [cap EXCEPT !.ctrl = STOP_CAPTURE] /\ cli' = cli /\ pc' = "joining" /\ after' = "drop"
        BY <1>3, <3>1 DEF PollGiveUp
      <4> QED
        BY <1>3, <1>t, <4>1, SetCtrl DEF TypeOK, PollGiveUp, SameData
    <3>2. CASE after # "boot"
      <4>1. cap' = cap /\ cli' = [cli EXCEPT !.phase = "live"] /\ pc' = "idle" /\ after' = after
        BY <1>3, <3>2 DEF PollGiveUp
      <4>2. cli' \in Telemetry /\ cli'.queue = cli.queue /\ cli'.subscribed = cli.subscribed
        BY <4>1, <1>t DEF Telemetry
      <4> QED
        BY <1>3, <1>t, <4>1, <4>2 DEF TypeOK, PollGiveUp, SameData
    <3> QED
      BY <3>1, <3>2
  <2>2. Stages'
    BY <1>3, <1>t, SMT DEF Stages, PollGiveUp, Capture, CaptureThread
  <2> QED
    BY <2>1, <2>2
<1>4. CASE DrainEnds
  <2>1. TypeOK' /\ SameData
    BY <1>4, <1>t DEF TypeOK, DrainEnds, SameData, Capture
  <2>2. Stages'
    BY <1>4, <1>t, SMT DEF Stages, DrainEnds, Capture, CaptureThread
  <2> QED
    BY <2>1, <2>2
<1>5. CASE JoinedDrop
  <2>1. TypeOK' /\ SameData
    BY <1>5, <1>t DEF TypeOK, JoinedDrop, SameData, Capture, Telemetry
  <2>2. Stages'
    BY <1>5, <1>t DEF Stages, JoinedDrop, ThreadGone, Capture, CaptureThread
  <2> QED
    BY <2>1, <2>2
<1>6. CASE Terminated
  <2>1. TypeOK' /\ SameData
    BY <1>6, <1>t DEF TypeOK, Terminated, SameData, Capture
  <2>2. Stages'
    BY <1>6, <1>t DEF Stages, Terminated, ThreadGone, Capture, CaptureThread
  <2> QED
    BY <2>1, <2>2
<1>7. CASE CacheInit
  <2>1. TypeOK' /\ SameData
    BY <1>7, <1>t DEF TypeOK, CacheInit, Request, SameData, Capture
  <2>2. Stages'
    BY <1>7, <1>t, SMT DEF Stages, CacheInit, Request, Capture, CaptureThread
  <2> QED
    BY <2>1, <2>2
<1>8. CASE CacheStop
  <2>1. TypeOK' /\ SameData
    BY <1>8, <1>t, CacheStopFacts DEF TypeOK, SameData
  <2>2. Stages'
    BY <1>8, <1>t, CacheStopFacts, SMT DEF Stages
  <2> QED
    BY <2>1, <2>2
<1>9. CASE CacheRead
  <2>1. TypeOK' /\ SameData
    BY <1>9, <1>t, ZenonT(30)
       DEF TypeOK, CacheRead, Request, SameData, Telemetry
  <2>2. Stages'
    BY <1>9, <1>t DEF Stages, CacheRead, Request, Capture, CaptureThread
  <2> QED
    BY <2>1, <2>2
<1>10. CASE Echo \/ Exit
  <2>1. TypeOK' /\ SameData
    BY <1>10, <1>t DEF TypeOK, Echo, Exit, SameData
  <2>2. Stages'
    BY <1>10, <1>t DEF Stages, Echo, Exit
  <2> QED
    BY <2>1, <2>2
<1> QED
  BY <1>1, <1>2, <1>3, <1>4, <1>5, <1>6, <1>7, <1>8, <1>9, <1>10 DEF QuietStep

\* With a client that keeps to the protocol they keep the rest, too.
LEMMA QuietSteps ==
  ASSUME IInv, ~AnyOrder, QuietStep PROVE IInv'
<1> USE DEF NEED_INIT, INIT_CAPTURE, START_CAPTURE, STOP_CAPTURE
<1>t. TypeOK /\ cap \in Capture /\ thr \in CaptureThread /\ cli \in Telemetry
  BY DEF IInv, KeepInv, TypeOK
<1>i. KeepInv /\ Stages /\ Phases /\ Handover
  BY DEF IInv, KeepInv
<1> SUFFICES Phases' /\ Handover'
  BY <1>i, QuietKeeps, SameDataOrder DEF IInv
<1>1. CASE PollDone
  <2>f. /\ pc = "polling" /\ pc' = (IF after = "boot" THEN "booted" ELSE "idle") /\ cap.run
        /\ UNCHANGED <<after, thr, sock, pub, hist>>
        /\ cap'.alive = cap.alive /\ (after # "boot" <=> cap'.ctrl = INIT_CAPTURE)
        /\ after = "boot" => cli' = cli
        /\ after # "boot" => /\ cli' \in Telemetry /\ cli'.phase = "prep" /\ cli'.due = Len(cli.queue)
                             /\ cli'.queue = cli.queue /\ cli'.subscribed = cli.subscribed
    BY <1>1, <1>t, PollDoneFacts
  <2>1. Phases'
    BY <2>f, <1>i DEF Stages, Phases
  <2>2. Handover'
    <3>1. CASE after = "boot"
      BY <3>1, <2>f, <1>i DEF Phases, Handover, Preparing
    <3>2. CASE after # "boot"
      <4>1. after = "init" /\ Preparing
        BY <3>2, <2>f, <1>i DEF Phases, Preparing
      <4>2. Len(cli.queue) \in Nat /\ Len(sock) \in Nat
        BY <1>t, SMT DEF TypeOK, Telemetry
      <4> QED
        BY <3>2, <4>1, <4>2, <2>f, <1>i, SMT DEF Handover
    <3> QED
      BY <3>1, <3>2
  <2> QED
    BY <2>1, <2>2
<1>2. CASE BootEnds
  <2>1. Phases'
    BY <1>2, <1>t, <1>i
       DEF Stages, Phases, BootEnds, Capture, CaptureThread, Telemetry
  <2>2. Handover'
    BY <1>2, <1>t, <1>i
       DEF Stages, Phases, Handover, Preparing, BootEnds, Capture,
           CaptureThread, Telemetry
  <2> QED
    BY <2>1, <2>2
<1>3. CASE PollGiveUp
  <2>1. Phases'
    BY <1>3, <1>t, <1>i
       DEF Stages, Phases, PollGiveUp, Capture, CaptureThread, Telemetry
  <2>2. Handover'
    BY <1>3, <1>t, <1>i
       DEF Stages, Phases, Handover, Preparing, PollGiveUp, Capture,
           CaptureThread, Telemetry
  <2> QED
    BY <2>1, <2>2
<1>4. CASE DrainEnds
  <2>1. Phases'
    BY <1>4, <1>t, <1>i
       DEF Stages, Phases, DrainEnds, Capture, CaptureThread, Telemetry
  <2>2. Handover'
    BY <1>4, <1>t, <1>i
       DEF Stages, Phases, Handover, Preparing, DrainEnds, Capture,
           CaptureThread, Telemetry
  <2> QED
    BY <2>1, <2>2
<1>5. CASE JoinedDrop
  <2>1. Phases'
    BY <1>5, <1>t, <1>i
       DEF Stages, Phases, JoinedDrop, ThreadGone, Capture, CaptureThread,
           Telemetry
  <2>2. Handover'
    BY <1>5, <1>t, <1>i
       DEF Stages, Phases, Handover, Preparing, JoinedDrop, ThreadGone,
           Capture, CaptureThread, Telemetry
  <2> QED
    BY <2>1, <2>2
<1>6. CASE Terminated
  <2>1. Phases'
    BY <1>6, <1>t, <1>i
       DEF Stages, Phases, Terminated, ThreadGone, Capture, CaptureThread,
           Telemetry
  <2>2. Handover'
    BY <1>6, <1>t, <1>i
       DEF Stages, Phases, Handover, Preparing, Terminated, ThreadGone,
           Capture, CaptureThread, Telemetry
  <2> QED
    BY <2>1, <2>2
<1>7. CASE CacheInit
  <2>1. Phases'
    BY <1>7, <1>t, <1>i
       DEF Stages, Phases, CacheInit, Request, Capture, CaptureThread,
           Telemetry
  <2>2. Handover'
    BY <1>7, <1>t, <1>i
       DEF Stages, Phases, Handover, Preparing, CacheInit, Request, Capture,
           CaptureThread, Telemetry
  <2> QED
    BY <2>1, <2>2
<1>8. CASE CacheStop
  <2>1. cli.phase = "caching"
    BY <1>8 DEF CacheStop, Request
  <2>2. Phases' /\ Handover'
    BY <2>1, <1>8, <1>t, <1>i, CacheStopFacts DEF Phases, Handover, Preparing
  <2> QED
    BY <2>2
<1>9. CASE CacheRead
  <2>1. Phases'
    BY <1>9, <1>t, <1>i
       DEF Stages, Phases, CacheRead, Request, Capture, CaptureThread,
           Telemetry
  <2>2. Handover'
    BY <1>9, <1>t, <1>i
       DEF Stages, Phases, Handover, Preparing, CacheRead, Request, Capture,
           CaptureThread, Telemetry
  <2> QED
    BY <2>1, <2>2
<1>10. CASE Echo \/ Exit
  <2>1. Phases'
    BY <1>10, <1>t, <1>i DEF Stages, Phases, Echo, Exit, Telemetry
  <2>2. Handover'
    BY <1>10, <1>t, <1>i, SMT
       DEF Stages, Phases, Handover, Preparing, Echo, Exit, Telemetry
  <2> QED
    BY <2>1, <2>2
<1> QED
  BY <1>1, <1>2, <1>3, <1>4, <1>5, <1>6, <1>7, <1>8, <1>9, <1>10 DEF QuietStep

\* EVENT_CACHE_INIT: a new capture object and a new thread.
LEMMA RecreateKeeps ==
  ASSUME KeepInv, Recreate PROVE KeepInv'
<1> USE DEF NEED_INIT, INIT_CAPTURE, START_CAPTURE, STOP_CAPTURE
<1>t. TypeOK /\ pub \in [Rid -> Nat]
  BY DEF KeepInv, TypeOK
<1>1. /\ pc' = "polling" /\ after' = "init" /\ cap' = NewCapture /\ thr' = NewThread
      /\ sock' = <<>> /\ hist' = NewHist /\ cli' = cli /\ pub' = pub
  BY DEF Recreate
<1>2. TypeOK'
  BY <1>1, <1>t, NoMapType, SMT
     DEF TypeOK, NewCapture, NewThread, NewHist, Capture, CaptureThread
<1>3. Stages'
  BY <1>1, SMT DEF Stages, NewCapture, NewThread, NewHist
<1>4. Flows'
  BY <1>1, FlowEmpty DEF KeepInv, Flows
<1>5. Kept'
  BY <1>1, <1>t, NoMapType, SMT DEF Kept, NewCapture, NewHist
<1> QED
  BY <1>2, <1>3, <1>4, <1>5 DEF KeepInv

\* With a client that keeps to the protocol it is sent in the phase "live".
LEMMA RecreateStep ==
  ASSUME IInv, Recreate, cli.phase = "live" PROVE IInv'
<1> USE DEF NEED_INIT, INIT_CAPTURE, START_CAPTURE, STOP_CAPTURE
<1>1. /\ pc' = "polling" /\ after' = "init" /\ cap' = NewCapture /\ thr' = NewThread
      /\ sock' = <<>> /\ hist' = NewHist /\ cli' = cli /\ pub' = pub
  BY DEF Recreate
<1>2. KeepInv'
  BY RecreateKeeps DEF IInv
<1>3. Phases' /\ Handover'
  BY <1>1 DEF IInv, Phases, Handover, NewCapture, NewThread
<1>4. Data'
  BY <1>1, NoMapType, SMT
     DEF Data, Ahead, Listening, Cached, CacheContiguous, Contiguous,
         NewCapture, NewThread
<1> QED
  BY <1>2, <1>3, <1>4 DEF IInv

\* The end of EVENT_CACHE_STOP: the cache is moved out and the object destroyed.
LEMMA JoinedStopKeeps ==
  ASSUME KeepInv, JoinedStop
  PROVE  /\ KeepInv'
         /\ pc = "joining" /\ after = "stop" /\ thr.at = "done" /\ pc' = "idle"
         /\ UNCHANGED <<after, thr, sock, pub, hist>>
         /\ ~cap'.alive /\ cap'.events = <<>>
         /\ cli'.phase = "reading" /\ cli'.subscribed = cli.subscribed
<1> USE DEF NEED_INIT, INIT_CAPTURE, START_CAPTURE, STOP_CAPTURE
<1>t. TypeOK /\ cap \in Capture /\ thr \in CaptureThread /\ cli \in Telemetry /\ Stages
  BY DEF KeepInv, TypeOK
<1>1. /\ pc = "joining" /\ after = "stop" /\ thr.at = "done" /\ pc' = "idle"
      /\ UNCHANGED <<after, thr, sock, pub, hist>>
  BY <1>t DEF JoinedStop, ThreadGone, CaptureThread
<1>2. /\ cap' \in Capture /\ ~cap'.alive /\ cap'.events = <<>> /\ cap'.last = NoMap
      /\ cap'.pre = cap.pre /\ cap'.ctrl = cap.ctrl /\ cap'.lastInit = cap.lastInit
  <2>1. cap' = [cap EXCEPT !.alive = FALSE, !.events = <<>>, !.last = NoMap]
    BY DEF JoinedStop
  <2>2. <<>> \in Seq(Numbered) /\ NoMap \in EventMap
    BY NoMapType, SMT
  <2> QED
    BY <2>1, <2>2, <1>t DEF Capture
<1>3. cli' \in Telemetry /\ cli'.phase = "reading" /\ cli'.queue = cli.queue /\ cli'.subscribed = cli.subscribed
  BY <1>t DEF JoinedStop, Telemetry
<1>4. TypeOK'
  BY <1>1, <1>2, <1>3, <1>t DEF TypeOK
<1>5. Stages'
  BY <1>1, <1>2, <1>t DEF Stages
<1>6. Flows'
  BY <1>1, <1>3 DEF KeepInv, Flows, Listening
<1>7. Kept'
  BY <1>1, <1>2 DEF KeepInv, Kept
<1> QED
  BY <1>1, <1>2, <1>3, <1>4, <1>5, <1>6, <1>7 DEF KeepInv

\* The client goes on to read what was cached.
LEMMA JoinedStopStep ==
  ASSUME IInv, JoinedStop PROVE IInv'
<1>1. /\ KeepInv'
      /\ pc = "joining" /\ after = "stop" /\ thr.at = "done" /\ pc' = "idle"
      /\ UNCHANGED <<after, thr, sock, pub, hist>>
      /\ ~cap'.alive /\ cap'.events = <<>>
      /\ cli'.phase = "reading" /\ cli'.subscribed = cli.subscribed
  BY JoinedStopKeeps DEF IInv
<1>2. Phases' /\ Handover'
  BY <1>1 DEF IInv, Phases, Handover
<1>3. Data'
  BY <1>1, SMT DEF Data, Ahead, Listening, Cached, CacheContiguous, Contiguous
<1> QED
  BY <1>1, <1>2, <1>3 DEF IInv

\* An EVENT_CACHE_START that is taken, with k events of the subscription.
Started(k) ==
    LET q   == cli.queue
        lst == SubSeq(q, 1, k)
        ids == StockIds(lst)
    IN  /\ lst \in Seq(Numbered) /\ Len(lst) = k /\ \A i \in 1..k : lst[i] = q[i]
        /\ DOMAIN ids \subseteq Rid /\ ids \in [DOMAIN ids -> Nat \ {0}]
        /\ \A r \in DOMAIN ids : ids[r] <= pub[r] /\ Ev(r, ids[r]) \in Range(lst)
        /\ \A i \in 1..k : q[i].rid \in DOMAIN ids /\ q[i].seq <= ids[q[i].rid]
        /\ \A i \in DOMAIN q : i > k /\ q[i].rid \in DOMAIN ids => q[i].seq > ids[q[i].rid]
        /\ Contiguous(lst)
        /\ cap' \in Capture /\ cap'.ctrl = START_CAPTURE /\ cap'.events = lst /\ cap'.pre = ids
        /\ cap'.alive = cap.alive /\ cap'.run = cap.run /\ cap'.last = cap.last
        /\ cap'.lastInit = cap.lastInit
        /\ hist' \in [newest : [Rid -> Nat], stock : Nat]
        /\ \A r \in Rid : hist'.newest[r] = IF r \in DOMAIN ids THEN ids[r] ELSE 0

\* What such a request does.
LEMMA StartedFacts ==
  ASSUME KeepInv, CacheStart, cap.alive, cap.ctrl = INIT_CAPTURE
  PROVE  \E k \in cli.due..Len(cli.queue) : Started(k)
<1> USE DEF NEED_INIT, INIT_CAPTURE, START_CAPTURE, STOP_CAPTURE
<1>t. /\ cap \in Capture /\ cli.queue \in Seq(Numbered) /\ Len(cli.queue) \in Nat
      /\ cli.due \in Nat /\ pub \in [Rid -> Nat]
  <2>1. cap \in Capture /\ cli \in Telemetry /\ pub \in [Rid -> Nat]
    BY DEF KeepInv, TypeOK
  <2>2. cli.queue \in Seq(Numbered) /\ cli.due \in Nat
    BY <2>1 DEF Telemetry
  <2> QED
    BY <2>1, <2>2, SMT
<1>1. PICK k \in cli.due..Len(cli.queue) :
         LET lst == SubSeq(cli.queue, 1, k)
             ids == StockIds(lst)
         IN  /\ cap' = [cap EXCEPT !.ctrl = START_CAPTURE, !.events = lst, !.pre = ids]
             /\ hist' = [newest |-> [r \in Rid |-> IF r \in DOMAIN ids THEN ids[r] ELSE 0],
                         stock |-> k]
  BY DEF CacheStart
<1> DEFINE q == cli.queue
           lst == SubSeq(q, 1, k)
           ids == StockIds(lst)
<1>2. k \in 0..Len(q) /\ k >= cli.due /\ k \in Nat
  BY <1>t, SMT
<1>3. /\ cap' = [cap EXCEPT !.ctrl = START_CAPTURE, !.events = lst, !.pre = ids]
      /\ hist' = [newest |-> [r \in Rid |-> IF r \in DOMAIN ids THEN ids[r] ELSE 0], stock |-> k]
  BY <1>1
<1>4. Flow(q, pub)
  BY DEF KeepInv, Flows
<1>5. /\ lst \in Seq(Numbered) /\ Len(lst) = k /\ \A i \in 1..k : lst[i] = q[i]
      /\ DOMAIN ids \subseteq Rid /\ ids \in [DOMAIN ids -> Nat \ {0}]
      /\ \A r \in DOMAIN ids : ids[r] <= pub[r] /\ Ev(r, ids[r]) \in Range(lst)
      /\ \A i \in 1..k : q[i].rid \in DOMAIN ids /\ q[i].seq <= ids[q[i].rid]
      /\ \A i \in DOMAIN q : i > k /\ q[i].rid \in DOMAIN ids => q[i].seq > ids[q[i].rid]
      /\ Contiguous(lst)
  <2> HIDE DEF q
  <2> QED
    BY <1>2, <1>4, <1>t, Stock DEF q
<1>6. ids \in SeqMap
  BY <1>5, SeqMapType
<1> HIDE DEF lst, ids
<1>7. /\ cap' \in Capture /\ cap'.ctrl = START_CAPTURE /\ cap'.events = lst /\ cap'.pre = ids
      /\ cap'.alive = cap.alive /\ cap'.run = cap.run /\ cap'.last = cap.last /\ cap'.lastInit = cap.lastInit
  BY <1>3, <1>5, <1>6, <1>t DEF Capture
<1>8. /\ hist' \in [newest : [Rid -> Nat], stock : Nat]
      /\ \A r \in Rid : hist'.newest[r] = IF r \in DOMAIN ids THEN ids[r] ELSE 0
  BY <1>3, <1>5, <1>2
<1>9. Started(k)
  BY <1>5, <1>7, <1>8 DEF Started, lst, ids
<1> QED
  BY <1>9

\* EVENT_CACHE_START, refused or not: the newest events are those of the stock,
\* and the stock has them.
LEMMA CacheStartKeeps ==
  ASSUME KeepInv, CacheStart
  PROVE  /\ KeepInv' /\ pc = "idle" /\ UNCHANGED <<pc, after, thr, sock, pub>>
         /\ cli' = [phase |-> "caching", subscribed |-> FALSE, queue |-> <<>>, due |-> 0]
<1> USE DEF NEED_INIT, INIT_CAPTURE, START_CAPTURE, STOP_CAPTURE
<1>t. /\ TypeOK /\ cap \in Capture /\ thr \in CaptureThread /\ Stages /\ Flows /\ Kept
      /\ pub \in [Rid -> Nat]
  BY DEF KeepInv, TypeOK
<1>1. /\ pc = "idle" /\ UNCHANGED <<pc, after, thr, sock, pub>>
      /\ cli' = [phase |-> "caching", subscribed |-> FALSE, queue |-> <<>>, due |-> 0]
  BY DEF CacheStart, Request
<1>2. cli' \in Telemetry
  BY <1>1, SMT DEF Telemetry
<1>3. Flows'
  BY <1>1, <1>t, FlowEmpty DEF Flows, Listening
<1>4. CASE cap.alive /\ cap.ctrl = INIT_CAPTURE
  <2>1. PICK k \in cli.due..Len(cli.queue) : Started(k)
    BY <1>4, StartedFacts
  <2> DEFINE lst == SubSeq(cli.queue, 1, k)
             ids == StockIds(lst)
  <2>2. /\ DOMAIN ids \subseteq Rid
        /\ \A r \in DOMAIN ids : ids[r] <= pub[r] /\ Ev(r, ids[r]) \in Range(lst)
        /\ cap' \in Capture /\ cap'.ctrl = START_CAPTURE /\ cap'.events = lst /\ cap'.pre = ids
        /\ cap'.alive = cap.alive /\ cap'.run = cap.run /\ cap'.lastInit = cap.lastInit
        /\ hist' \in [newest : [Rid -> Nat], stock : Nat]
        /\ \A r \in Rid : hist'.newest[r] = IF r \in DOMAIN ids THEN ids[r] ELSE 0
        /\ ids \in [DOMAIN ids -> Nat \ {0}]
    BY <2>1 DEF Started
  <2> HIDE DEF lst, ids
  <2>3. thr.at \in {"waiting", "done"} /\ thr.state = "init" /\ ~cap.lastInit
    BY <1>4, <1>t DEF Stages
  <2>4. TypeOK'
    BY <2>2, <1>1, <1>2, <1>t DEF TypeOK
  <2>5. Stages'
    BY <2>2, <2>3, <1>1, <1>4, <1>t, SMT DEF Stages
  <2>6. ASSUME NEW r \in Rid PROVE hist'.newest[r] <= pub[r]
    <3>1. pub[r] \in Nat
      BY <1>t
    <3> QED
      BY <3>1, <2>2, SMT
  <2>7. ASSUME NEW r \in Rid, hist'.newest[r] > 0 PROVE Ev(r, hist'.newest[r]) \in Range(lst)
    BY <2>7, <2>2, SMT
  <2>8. \A r \in DOMAIN ids : ids[r] <= hist'.newest[r]
    BY <2>2, SMT
  <2>9. Kept'
    BY <2>2, <2>6, <2>7, <2>8, <1>1 DEF Kept, Held
  <2> QED
    BY <2>4, <2>5, <2>9, <1>1, <1>3 DEF KeepInv
<1>5. CASE ~(cap.alive /\ cap.ctrl = INIT_CAPTURE)
  <2>1. cap' = cap /\ hist' = hist
    BY <1>5 DEF CacheStart
  <2>2. TypeOK'
    BY <2>1, <1>1, <1>2, <1>t DEF TypeOK
  <2>3. Stages'
    BY <2>1, <1>1, <1>t DEF Stages
  <2>4. Kept'
    BY <2>1, <1>1, <1>t DEF Kept, Held
  <2> QED
    BY <2>2, <2>3, <2>4, <1>1, <1>3 DEF KeepInv
<1> QED
  BY <1>4, <1>5

\* With a client that keeps to the protocol the stock is what the socket may
\* repeat, and together with the socket it has everything.
LEMMA CacheStartStep ==
  ASSUME IInv, ~AnyOrder, CacheStart PROVE IInv'
<1> USE DEF NEED_INIT, INIT_CAPTURE, START_CAPTURE, STOP_CAPTURE
<1>t. /\ TypeOK /\ Stages /\ Phases
      /\ cli.queue \in Seq(Numbered) /\ Len(cli.queue) \in Nat /\ sock \in Seq(Numbered) /\ Len(sock) \in Nat
      /\ pub \in [Rid -> Nat] /\ cli.due \in Nat /\ DOMAIN sock = 1..Len(sock)
      /\ DOMAIN cli.queue = 1..Len(cli.queue) /\ Flow(cli.queue, pub)
  <2>1. TypeOK /\ cli \in Telemetry /\ Stages /\ Phases /\ sock \in Seq(Numbered) /\ pub \in [Rid -> Nat]
        /\ Flow(cli.queue, pub)
    BY DEF IInv, KeepInv, TypeOK, Flows
  <2>2. cli.queue \in Seq(Numbered) /\ cli.due \in Nat
    BY <2>1 DEF Telemetry
  <2> QED
    BY <2>1, <2>2, SMT
<1>1. /\ KeepInv' /\ pc = "idle" /\ UNCHANGED <<pc, after, thr, sock, pub>>
      /\ cli' = [phase |-> "caching", subscribed |-> FALSE, queue |-> <<>>, due |-> 0]
  BY CacheStartKeeps DEF IInv
<1>2. cli.phase = "prep" /\ cap.alive /\ cap.ctrl = INIT_CAPTURE
  BY <1>t DEF CacheStart, Request, Phases
<1>3. PICK k \in cli.due..Len(cli.queue) : Started(k)
  BY <1>2, StartedFacts DEF IInv
<1> DEFINE q == cli.queue
           lst == SubSeq(q, 1, k)
           ids == StockIds(lst)
<1>4. k \in 0..Len(q) /\ k >= cli.due /\ k \in Nat
  BY <1>t, SMT
<1>5. Flow(q, pub)
  BY <1>t
<1>6. /\ lst \in Seq(Numbered) /\ Len(lst) = k /\ \A i \in 1..k : lst[i] = q[i]
      /\ DOMAIN ids \subseteq Rid /\ ids \in [DOMAIN ids -> Nat \ {0}]
      /\ \A r \in DOMAIN ids : ids[r] <= pub[r] /\ Ev(r, ids[r]) \in Range(lst)
      /\ \A i \in 1..k : q[i].rid \in DOMAIN ids /\ q[i].seq <= ids[q[i].rid]
      /\ \A i \in DOMAIN q : i > k /\ q[i].rid \in DOMAIN ids => q[i].seq > ids[q[i].rid]
      /\ Contiguous(lst)
  BY <1>3 DEF Started
<1>7. cap'.events = lst /\ cap'.pre = ids /\ cap'.alive = cap.alive
  BY <1>3 DEF Started
<1>8. /\ hist' \in [newest : [Rid -> Nat], stock : Nat]
      /\ \A r \in Rid : hist'.newest[r] = IF r \in DOMAIN ids THEN ids[r] ELSE 0
  BY <1>3 DEF Started
<1> HIDE DEF lst, ids
<1>9. thr.at \in {"waiting", "done"} /\ thr.state = "init"
  BY <1>2, <1>t DEF Stages
<1>10. Phases' /\ Handover'
  BY <1>1 DEF Phases, Handover, Preparing
<1>11. Ahead'
  <2> SUFFICES ASSUME Listening' PROVE
        /\ \A r \in Rid : hist'.newest[r] > 0 =>
             \A n \in (hist'.newest[r] + 1)..pub[r] :
                 \E i \in DOMAIN sock : sock[i] = Ev(r, n)
        /\ \A i \in DOMAIN sock :
             \/ hist'.newest[sock[i].rid] = 0
             \/ sock[i].seq > hist'.newest[sock[i].rid]
             \/ sock[i].rid \in DOMAIN ids /\ i <= k
    BY <1>1, <1>7, <1>9, <1>6 DEF Ahead, Left, Listening
  <2>1. thr.at = "waiting"
    BY <1>1, <1>9 DEF Listening
  <2> DEFINE d == Len(q) - Len(sock)
  <2>2. d >= 0 /\ d <= cli.due /\ \A i \in DOMAIN sock : sock[i] = q[d + i]
    BY <2>1, <1>2 DEF IInv, Handover, Preparing
  <2>3. d \in Nat /\ d + Len(sock) = Len(q) /\ d <= k
    BY <2>2, <1>t, <1>4, SMT
  <2> HIDE DEF d
  <2>4. ASSUME NEW r \in Rid, hist'.newest[r] > 0, NEW n \in (hist'.newest[r] + 1)..pub[r]
        PROVE  \E i \in DOMAIN sock : sock[i] = Ev(r, n)
    <3>1. r \in DOMAIN ids /\ hist'.newest[r] = ids[r]
      BY <2>4, <1>8, SMT
    <3>0. DOMAIN lst = 1..k /\ Ev(r, ids[r]) \in Range(lst)
      BY <3>1, <1>6, SMT
    <3>2. PICK x \in 1..k : q[x] = Ev(r, ids[r])
      BY <3>0, <1>6 DEF Range
    <3>3. x \in DOMAIN q /\ q[x].rid = r /\ q[x].seq = ids[r] /\ ids[r] \in Nat /\ pub[r] \in Nat
      BY <3>1, <3>2, <1>4, <1>6, <1>t, SMT DEF Ev
    <3>4. n \in q[x].seq..pub[q[x].rid] /\ n > ids[r]
      BY <3>1, <3>3, <2>4, SMT
    <3>5. PICK j \in DOMAIN q : q[j] = Ev(r, n)
      BY <3>3, <3>4, <1>5 DEF Flow
    <3>6. q[j].rid = r /\ q[j].seq = n
      BY <3>5, SMT DEF Ev
    <3>7. \A i \in 1..k : q[i].rid = r => q[i].seq <= ids[r]
      BY <1>6
    <3>8. j \in Nat \ {0} /\ j <= Len(q) /\ DOMAIN sock = 1..Len(sock) /\ Len(sock) \in Nat
      BY <1>t, ListAt, SMT
    <3>9. ~(j <= k)
      BY <3>3, <3>4, <3>6, <3>7, <3>8, <1>4, SMT
    <3>10. j - d \in DOMAIN sock /\ d + (j - d) = j
      BY <3>8, <3>9, <2>3, <1>4, SMT
    <3> QED
      BY <3>10, <2>2, <3>5
  <2>5. ASSUME NEW i \in DOMAIN sock
        PROVE  \/ hist'.newest[sock[i].rid] = 0
               \/ sock[i].seq > hist'.newest[sock[i].rid]
               \/ sock[i].rid \in DOMAIN ids /\ i <= k
    <3>1. d + i \in DOMAIN q /\ sock[i] = q[d + i] /\ sock[i].rid \in Rid
      BY <2>2, <2>3, <1>t, ListAt, SMT
    <3>2. CASE d + i <= k
      <4>1. d + i \in 1..k /\ i <= k
        BY <3>1, <3>2, <2>3, <1>t, SMT
      <4> QED
        BY <4>1, <3>1, <1>6
    <3>3. CASE d + i > k
      BY <3>1, <3>3, <1>6, <1>8
    <3>4. d + i \in Nat
      BY <3>1, <1>t, ListAt, SMT
    <3> QED
      BY <3>2, <3>3, <3>4, <1>4, SMT
  <2> QED
    BY <2>4, <2>5
<1>12. Cached'
  <2>1. \A i \in DOMAIN lst : lst[i].seq <= hist'.newest[lst[i].rid]
    <3> SUFFICES ASSUME NEW i \in DOMAIN lst PROVE lst[i].seq <= hist'.newest[lst[i].rid]
      OBVIOUS
    <3>1. i \in 1..k /\ lst[i] = q[i] /\ lst[i].rid \in Rid
      BY <1>6, ListAt
    <3> QED
      BY <3>1, <1>6, <1>8
  <2>2. \A r \in DOMAIN ids : ids[r] = hist'.newest[r]
    BY <1>6, <1>8
  <2> QED
    BY <2>1, <2>2, <1>7 DEF Cached
<1>13. CacheContiguous'
  BY <1>6, <1>7 DEF CacheContiguous
<1> QED
  BY <1>1, <1>10, <1>11, <1>12, <1>13 DEF IInv, Data

-----------------------------------------------------------------------------
(* The capture thread, outside the store.                                  *)

\* The steps of the thread's loop that store nothing.
LEMMA LoopKeeps ==
  ASSUME KeepInv, ThreadGo \/ ThreadCheck \/ ThreadTimeout
  PROVE  /\ KeepInv' /\ UNCHANGED <<pc, after, cap, sock, cli, pub, hist>>
         /\ thr'.at \in {"check", "recv"} /\ thr'.state = thr.state
         /\ thr.at \in {"waiting", "check", "recv"}
         /\ thr.at = "waiting" => thr'.initCnt = Len(cap.events)
         /\ thr.at # "waiting" => thr'.initCnt = thr.initCnt
<1> USE DEF NEED_INIT, INIT_CAPTURE, START_CAPTURE, STOP_CAPTURE
<1>t. TypeOK /\ cap \in Capture /\ thr \in CaptureThread /\ Stages /\ Flows /\ Kept
  BY DEF KeepInv, TypeOK
<1>1. UNCHANGED <<pc, after, cap, sock, cli, pub, hist>>
  BY DEF ThreadGo, ThreadCheck, ThreadTimeout
<1>2. /\ thr' \in CaptureThread /\ thr'.at \in {"check", "recv"} /\ thr'.state = thr.state
      /\ thr.at \in {"waiting", "check", "recv"}
      /\ thr.at = "waiting" => cap.ctrl = START_CAPTURE /\ thr'.initCnt = Len(cap.events)
      /\ thr.at # "waiting" => thr'.initCnt = thr.initCnt
  <2>1. Len(cap.events) \in Int
    BY <1>t, SMT DEF Capture
  <2> QED
    BY <2>1, <1>t DEF ThreadGo, ThreadCheck, ThreadTimeout, CaptureThread
<1>3. TypeOK'
  BY <1>1, <1>2, <1>t DEF TypeOK
<1>4. Stages'
  BY <1>1, <1>2, <1>t, SMT DEF Stages
<1>5. Flows'
  BY <1>1, <1>2, <1>t DEF Flows, Listening
<1>6. Kept'
  BY <1>1, <1>2, <1>t DEF Kept, Held
<1> QED
  BY <1>1, <1>2, <1>3, <1>4, <1>5, <1>6 DEF KeepInv

\* They keep the number of events still to be compared, too.
LEMMA LoopSteps ==
  ASSUME IInv, ThreadGo \/ ThreadCheck \/ ThreadTimeout PROVE IInv'
<1>1. /\ KeepInv' /\ UNCHANGED <<pc, after, cap, sock, cli, pub, hist>>
      /\ thr'.at \in {"check", "recv"} /\ thr'.state = thr.state
      /\ thr.at \in {"waiting", "check", "recv"}
      /\ thr.at = "waiting" => thr'.initCnt = Len(cap.events)
      /\ thr.at # "waiting" => thr'.initCnt = thr.initCnt
  BY LoopKeeps DEF IInv
<1>2. Phases' /\ Handover'
  BY <1>1 DEF IInv, Phases, Handover
<1>3. Listening /\ Listening' /\ Left' = Left
  BY <1>1 DEF Listening, Left
<1>4. Ahead'
  BY <1>1, <1>3 DEF IInv, Data, Ahead
<1>5. Cached' /\ CacheContiguous'
  BY <1>1 DEF IInv, Data, Cached, CacheContiguous
<1> QED
  BY <1>1, <1>2, <1>4, <1>5 DEF IInv, Data

\* m_cap_run is written and nothing else.
LEMMA SetRun ==
  ASSUME NEW c \in Capture, NEW x \in BOOLEAN
  PROVE  LET d == [c EXCEPT !.run = x] IN
         /\ d \in Capture /\ d.run = x /\ d.ctrl = c.ctrl /\ d.alive = c.alive
         /\ d.events = c.events /\ d.pre = c.pre /\ d.last = c.last /\ d.lastInit = c.lastInit
BY DEF Capture

\* The socket is subscribed: nothing has been cached yet.
LEMMA ThreadUpKeeps ==
  ASSUME KeepInv, ThreadUp
  PROVE  /\ KeepInv' /\ thr.at = "starting" /\ UNCHANGED <<pc, after, sock, cli, pub, hist>>
         /\ thr'.at = "waiting" /\ thr'.state = thr.state
         /\ cap'.ctrl = cap.ctrl /\ cap'.alive = cap.alive
         /\ cap'.events = cap.events /\ cap'.pre = cap.pre
         /\ sock = <<>> /\ hist.newest = [r \in Rid |-> 0]
<1> USE DEF NEED_INIT, INIT_CAPTURE, START_CAPTURE, STOP_CAPTURE
<1>t. TypeOK /\ cap \in Capture /\ thr \in CaptureThread /\ Stages /\ Flows /\ Kept
  BY DEF KeepInv, TypeOK
<1>1. thr.at = "starting" /\ UNCHANGED <<pc, after, sock, cli, pub, hist>>
  BY DEF ThreadUp
<1>2. thr' \in CaptureThread /\ thr'.at = "waiting" /\ thr'.state = thr.state
  BY <1>t DEF ThreadUp, CaptureThread
<1>3. /\ cap' \in Capture /\ cap'.run /\ cap'.ctrl = cap.ctrl /\ cap'.alive = cap.alive
      /\ cap'.events = cap.events /\ cap'.pre = cap.pre /\ cap'.last = cap.last /\ cap'.lastInit = cap.lastInit
  <2>1. cap' = [cap EXCEPT !.run = TRUE]
    BY DEF ThreadUp
  <2> QED
    BY <2>1, <1>t, SetRun
<1>4. sock = <<>> /\ thr.state = "init" /\ hist.newest = [r \in Rid |-> 0]
  BY <1>1, <1>t DEF Flows, Listening, Stages
<1>5. TypeOK'
  BY <1>1, <1>2, <1>3, <1>t DEF TypeOK
<1>6. Stages'
  BY <1>1, <1>2, <1>3, <1>4, <1>t DEF Stages
<1>7. Flows'
  BY <1>1, <1>2, <1>t DEF Flows, Listening
<1>8. Kept'
  BY <1>1, <1>2, <1>3, <1>t DEF Kept, Held
<1> QED
  BY <1>1, <1>2, <1>3, <1>4, <1>5, <1>6, <1>7, <1>8 DEF KeepInv

\* The hand-over begins with an empty socket.
LEMMA ThreadUpStep ==
  ASSUME IInv, ThreadUp PROVE IInv'
<1> USE DEF NEED_INIT, INIT_CAPTURE, START_CAPTURE, STOP_CAPTURE
<1>1. /\ KeepInv' /\ thr.at = "starting" /\ UNCHANGED <<pc, after, sock, cli, pub, hist>>
      /\ thr'.at = "waiting" /\ thr'.state = thr.state
      /\ cap'.ctrl = cap.ctrl /\ cap'.alive = cap.alive
      /\ cap'.events = cap.events /\ cap'.pre = cap.pre
      /\ sock = <<>> /\ hist.newest = [r \in Rid |-> 0]
  BY ThreadUpKeeps DEF IInv
<1>2. Phases'
  BY <1>1 DEF IInv, Phases
<1>3. Handover'
  <2>1. cli.phase # "prep"
    BY <1>1 DEF IInv, KeepInv, Phases, Stages
  <2>2. cli \in Telemetry
    BY DEF IInv, KeepInv, TypeOK
  <2>3. cli.queue \in Seq(Numbered) /\ Len(cli.queue) \in Nat /\ Len(sock) = 0 /\ DOMAIN sock = {}
    BY <2>2, <1>1, SMT DEF Telemetry
  <2> QED
    BY <2>1, <2>3, <1>1, SMT DEF Handover
<1>4. Ahead'
  BY <1>1, SMT DEF Ahead
<1>5. Cached' /\ CacheContiguous'
  BY <1>1, SMT DEF IInv, Data, Cached, CacheContiguous
<1> QED
  BY <1>1, <1>2, <1>3, <1>4, <1>5 DEF IInv, Data

\* The thread returns.
LEMMA ThreadOutKeeps ==
  ASSUME KeepInv, ThreadOut, thr.at \in {"starting", "check", "recv"}
  PROVE  /\ KeepInv' /\ sock' = <<>> /\ UNCHANGED <<pc, after, cli, pub, hist>>
         /\ thr'.at = "done" /\ thr'.state = thr.state
         /\ cap'.ctrl = cap.ctrl /\ cap'.alive = cap.alive
         /\ cap'.events = cap.events /\ cap'.pre = cap.pre
<1> USE DEF NEED_INIT, INIT_CAPTURE, START_CAPTURE, STOP_CAPTURE
<1>t. TypeOK /\ cap \in Capture /\ thr \in CaptureThread /\ Stages /\ Flows /\ Kept
  BY DEF KeepInv, TypeOK
<1>1. sock' = <<>> /\ UNCHANGED <<pc, after, cli, pub, hist>>
  BY DEF ThreadOut
<1>2. thr' \in CaptureThread /\ thr'.at = "done" /\ thr'.state = thr.state
  BY <1>t DEF ThreadOut, CaptureThread
<1>3. /\ cap' \in Capture /\ ~cap'.run /\ cap'.ctrl = cap.ctrl /\ cap'.alive = cap.alive
      /\ cap'.events = cap.events /\ cap'.pre = cap.pre /\ cap'.last = cap.last /\ cap'.lastInit = cap.lastInit
  <2>1. cap' = [cap EXCEPT !.run = FALSE]
    BY DEF ThreadOut
  <2> QED
    BY <2>1, <1>t, SetRun
<1>4. TypeOK'
  BY <1>1, <1>2, <1>3, <1>t, SMT DEF TypeOK
<1>5. Stages'
  BY <1>1, <1>2, <1>3, <1>t DEF Stages
<1>6. Flows'
  BY <1>1, <1>t, FlowEmpty DEF Flows
<1>7. \A r \in Rid : Held(r) => Held(r)'
  BY <1>1, <1>3, SMT DEF Held
<1>8. Kept'
  BY <1>1, <1>2, <1>3, <1>7, <1>t DEF Kept
<1> QED
  BY <1>1, <1>2, <1>3, <1>4, <1>5, <1>6, <1>8 DEF KeepInv

\* Nothing is handed over any more.
LEMMA ThreadOutStep ==
  ASSUME IInv, ThreadOut, thr.at \in {"starting", "check", "recv"} PROVE IInv'
<1>1. /\ KeepInv' /\ sock' = <<>> /\ UNCHANGED <<pc, after, cli, pub, hist>>
      /\ thr'.at = "done" /\ thr'.state = thr.state
      /\ cap'.ctrl = cap.ctrl /\ cap'.alive = cap.alive
      /\ cap'.events = cap.events /\ cap'.pre = cap.pre
  BY ThreadOutKeeps DEF IInv
<1>2. Phases' /\ Handover' /\ Ahead'
  BY <1>1 DEF IInv, Phases, Handover, Listening, Ahead
<1>3. Cached' /\ CacheContiguous'
  BY <1>1 DEF IInv, Data, Cached, CacheContiguous
<1> QED
  BY <1>1, <1>2, <1>3 DEF IInv, Data

-----------------------------------------------------------------------------
(* Publishers and the client's subscription.                               *)

\* The client works on an event of its subscription.
LEMMA ConsumeKeeps ==
  ASSUME KeepInv, Consume
  PROVE  /\ KeepInv' /\ pc = "idle" /\ cli.phase = "live" /\ cli'.phase = cli.phase
         /\ cli'.subscribed = cli.subscribed
         /\ UNCHANGED <<pc, after, cap, thr, sock, pub, hist>>
<1>t. TypeOK /\ cli \in Telemetry /\ Stages /\ Flows /\ Kept /\ pub \in [Rid -> Nat]
  BY DEF KeepInv, TypeOK
<1>1. /\ pc = "idle" /\ cli.phase = "live" /\ cli.queue # <<>>
      /\ UNCHANGED <<pc, after, cap, thr, sock, pub, hist>>
  BY DEF Consume
<1>2. cli.queue \in Seq(Numbered)
  BY <1>t DEF Telemetry
<1>3. Tail(cli.queue) \in Seq(Numbered) /\ Flow(Tail(cli.queue), pub)
  BY <1>1, <1>2, <1>t, TailAt, FlowTail DEF Flows
<1>4. /\ cli' \in Telemetry /\ cli'.phase = cli.phase /\ cli'.subscribed = cli.subscribed
      /\ cli'.queue = Tail(cli.queue)
  BY <1>3, <1>t DEF Consume, Telemetry
<1>5. TypeOK'
  BY <1>1, <1>4, <1>t DEF TypeOK
<1>6. Stages'
  BY <1>1, <1>t DEF Stages
<1>7. Flows'
  BY <1>1, <1>3, <1>4, <1>t DEF Flows, Listening
<1>8. Kept'
  BY <1>1, <1>t DEF Kept, Held
<1> QED
  BY <1>1, <1>4, <1>5, <1>6, <1>7, <1>8 DEF KeepInv

\* No capture is being prepared then.
LEMMA ConsumeStep ==
  ASSUME IInv, Consume PROVE IInv'
<1>1. /\ KeepInv' /\ pc = "idle" /\ cli.phase = "live" /\ cli'.phase = cli.phase
      /\ cli'.subscribed = cli.subscribed
      /\ UNCHANGED <<pc, after, cap, thr, sock, pub, hist>>
  BY ConsumeKeeps DEF IInv
<1>2. Phases' /\ Handover'
  BY <1>1 DEF IInv, Phases, Handover, Preparing
<1>3. Data'
  BY <1>1 DEF IInv, Data, Listening, Ahead, Left, Cached, CacheContiguous
<1> QED
  BY <1>1, <1>2, <1>3 DEF IInv

\* An event on its way: published by r, and handed to those who listen.
Published(r) ==
    LET e == Ev(r, pub[r] + 1) IN
    /\ UNCHANGED <<pc, after, cap, thr, hist>>
    /\ sock' = IF Listening THEN Append(sock, e) ELSE sock
    /\ sock' \in Seq(Numbered)
    /\ cli' \in Telemetry /\ cli'.phase = cli.phase /\ cli'.subscribed = cli.subscribed
    /\ cli'.due = cli.due
    /\ cli'.queue = IF cli.subscribed THEN Append(cli.queue, e) ELSE cli.queue
    /\ pub[r] \in Nat /\ e \in Numbered /\ e.rid = r /\ e.seq = pub[r] + 1
    /\ pub' \in [Rid -> Nat] /\ pub'[r] = pub[r] + 1 /\ \A x \in Rid \ {r} : pub'[x] = pub[x]

\* The proxy hands an event to the socket and to the subscription.
LEMMA PublishKeeps ==
  ASSUME KeepInv, NEW r \in Rid, Publish(r) PROVE KeepInv' /\ Published(r)
<1>t. /\ TypeOK /\ cli \in Telemetry /\ thr \in CaptureThread /\ Stages /\ Flows /\ Kept
      /\ pub \in [Rid -> Nat] /\ sock \in Seq(Numbered)
  BY DEF KeepInv, TypeOK
<1> DEFINE e == Ev(r, pub[r] + 1)
<1>1. /\ UNCHANGED <<pc, after, cap, thr, hist>>
      /\ pub' = [pub EXCEPT ![r] = @ + 1]
      /\ sock' = IF Listening THEN Append(sock, e) ELSE sock
      /\ cli' = [cli EXCEPT !.queue = IF cli.subscribed THEN Append(cli.queue, e) ELSE cli.queue]
  BY DEF Publish, Listening, Ev
<1>2. pub[r] \in Nat /\ e \in Numbered /\ e.rid = r /\ e.seq = pub[r] + 1
  BY <1>t, EvFields, SMT
<1>3. Flow(Append(sock, e), pub') /\ Flow(Append(cli.queue, e), pub')
  <2>1. cli.queue \in Seq(Numbered)
    BY <1>t DEF Telemetry
  <2> QED
    BY <2>1, <1>1, <1>t, FlowAppend DEF Flows
<1> HIDE DEF e
<1>4. /\ cli.queue \in Seq(Numbered) /\ Append(cli.queue, e) \in Seq(Numbered)
      /\ Append(sock, e) \in Seq(Numbered)
  BY <1>2, <1>t, SMT DEF Telemetry
<1>5. /\ cli' \in Telemetry /\ cli'.phase = cli.phase /\ cli'.subscribed = cli.subscribed
      /\ cli'.due = cli.due
      /\ cli'.queue = IF cli.subscribed THEN Append(cli.queue, e) ELSE cli.queue
  <2> DEFINE nq == IF cli.subscribed THEN Append(cli.queue, e) ELSE cli.queue
  <2>1. nq \in Seq(Numbered) /\ cli' = [cli EXCEPT !.queue = nq]
    BY <1>1, <1>4
  <2> HIDE DEF nq
  <2>2. /\ cli' \in Telemetry /\ cli'.phase = cli.phase /\ cli'.subscribed = cli.subscribed
        /\ cli'.due = cli.due /\ cli'.queue = nq
    BY <2>1, <1>t DEF Telemetry
  <2> QED
    BY <2>2 DEF nq
<1>6. /\ pub' \in [Rid -> Nat] /\ pub'[r] = pub[r] + 1 /\ \A x \in Rid \ {r} : pub'[x] = pub[x]
      /\ sock' \in Seq(Numbered)
  BY <1>1, <1>2, <1>4, <1>t, SMT
<1>7. TypeOK'
  BY <1>1, <1>5, <1>6, <1>t DEF TypeOK
<1>8. Stages'
  BY <1>1, <1>t DEF Stages
<1>9. Flows'
  <2>1. Flow(sock', pub')
    BY <1>1, <1>3, <1>t, FlowEmpty DEF Flows
  <2>2. Flow(cli'.queue, pub')
    BY <1>3, <1>5, <1>t, FlowEmpty DEF Flows
  <2>3. (~Listening' => sock' = <<>>) /\ (~cli'.subscribed => cli'.queue = <<>>)
    BY <1>1, <1>5, <1>t DEF Flows, Listening
  <2> QED
    BY <2>1, <2>2, <2>3 DEF Flows
<1>10. \A x \in Rid : hist.newest[x] \in Nat /\ hist.newest[x] <= pub[x] /\ pub[x] \in Nat
  BY <1>t DEF Kept, TypeOK
<1>11. \A x \in Rid : hist.newest[x] <= pub'[x]
  BY <1>10, <1>6, SMT
<1>12. \A i \in DOMAIN sock' : sock'[i] = e \/ (i \in DOMAIN sock /\ sock'[i] = sock[i])
  BY <1>1, <1>2, <1>t, SMT
<1>13. ASSUME NEW x \in Rid, Held(x) PROVE Held(x)'
  <2>1. hist' = hist /\ cap' = cap
    BY <1>1
  <2>2. CASE Ev(x, hist.newest[x]) \in Range(cap.events)
    BY <2>1, <2>2 DEF Held
  <2>3. CASE \A i \in DOMAIN sock : sock[i].rid = x => sock[i].seq > hist.newest[x]
    <3>1. e.rid = x => e.seq > hist.newest[x]
      BY <1>2, <1>10, SMT
    <3>2. \A i \in DOMAIN sock' : sock'[i].rid = x => sock'[i].seq > hist.newest[x]
      BY <2>3, <3>1, <1>12
    <3> QED
      BY <2>1, <3>2, <1>13 DEF Held
  <2> QED
    BY <2>2, <2>3, <1>13 DEF Held
<1>14. Kept'
  BY <1>1, <1>11, <1>13, <1>t DEF Kept
<1>15. Published(r)
  BY <1>1, <1>2, <1>5, <1>6 DEF Published, e
<1> QED
  BY <1>7, <1>8, <1>9, <1>14, <1>15 DEF KeepInv

\* Socket and subscription stay in step.
LEMMA PublishStep ==
  ASSUME IInv, NEW r \in Rid, Publish(r) PROVE IInv'
<1> DEFINE e == Ev(r, pub[r] + 1)
<1>k. KeepInv' /\ Published(r)
  BY PublishKeeps DEF IInv
<1>t. /\ TypeOK /\ cli \in Telemetry /\ Phases /\ Kept
      /\ pub \in [Rid -> Nat] /\ sock \in Seq(Numbered)
  BY DEF IInv, KeepInv, TypeOK
<1>1. /\ UNCHANGED <<pc, after, cap, thr, hist>>
      /\ sock' = IF Listening THEN Append(sock, e) ELSE sock
  BY <1>k DEF Published
<1>2. pub[r] \in Nat /\ e \in Numbered /\ e.rid = r /\ e.seq = pub[r] + 1
  BY <1>k DEF Published
<1>3. cli.queue \in Seq(Numbered)
  BY <1>t DEF Telemetry
<1>4. /\ cli'.phase = cli.phase /\ cli'.subscribed = cli.subscribed /\ cli'.due = cli.due
      /\ cli'.queue = IF cli.subscribed THEN Append(cli.queue, e) ELSE cli.queue
  BY <1>k DEF Published
<1>5. /\ pub' \in [Rid -> Nat] /\ pub'[r] = pub[r] + 1 /\ \A x \in Rid \ {r} : pub'[x] = pub[x]
  BY <1>k DEF Published
<1> HIDE DEF e
<1>6. Phases'
  BY <1>1, <1>4, <1>t DEF Phases
<1>7. Handover'
  <2> SUFFICES ASSUME thr.at = "waiting", Preparing
               PROVE  LET d == Len(cli'.queue) - Len(sock') IN
                      /\ d >= 0
                      /\ cli'.phase = "prep" => d <= cli'.due
                      /\ \A i \in DOMAIN sock' : sock'[i] = cli'.queue[d + i]
    BY <1>1, <1>4 DEF Handover, Preparing
  <2>1. cli.subscribed /\ Listening
    BY <1>t DEF Phases, Preparing, Listening
  <2>2. sock' = Append(sock, e) /\ cli'.queue = Append(cli.queue, e)
    BY <2>1, <1>1, <1>4
  <2> DEFINE d == Len(cli.queue) - Len(sock)
  <2>3. /\ d >= 0 /\ (cli.phase = "prep" => d <= cli.due)
        /\ \A i \in DOMAIN sock : sock[i] = cli.queue[d + i]
    BY DEF IInv, Handover
  <2>4. /\ Len(sock) \in Nat /\ Len(cli.queue) \in Nat /\ Len(sock') = Len(sock) + 1
        /\ Len(cli'.queue) = Len(cli.queue) + 1 /\ DOMAIN sock = 1..Len(sock)
        /\ DOMAIN sock' = 1..(Len(sock) + 1)
        /\ \A i \in 1..Len(sock) : sock'[i] = sock[i]
        /\ \A i \in 1..Len(cli.queue) : cli'.queue[i] = cli.queue[i]
        /\ sock'[Len(sock) + 1] = e /\ cli'.queue[Len(cli.queue) + 1] = e
    BY <2>2, <1>2, <1>3, <1>t, SMT
  <2>5. Len(cli'.queue) - Len(sock') = d /\ d \in Nat /\ d + Len(sock) = Len(cli.queue)
    BY <2>3, <2>4, SMT
  <2> HIDE DEF d
  <2>6. ASSUME NEW i \in DOMAIN sock' PROVE sock'[i] = cli'.queue[d + i]
    <3>1. CASE i \in DOMAIN sock
      <4>1. d + i \in 1..Len(cli.queue)
        BY <3>1, <2>4, <2>5, SMT
      <4> QED
        BY <3>1, <4>1, <2>3, <2>4
    <3>2. CASE i \notin DOMAIN sock
      <4>1. i = Len(sock) + 1
        BY <3>2, <2>4, SMT
      <4>2. d + (Len(sock) + 1) = Len(cli.queue) + 1
        BY <2>4, <2>5, SMT
      <4> QED
        BY <4>1, <4>2, <2>4
    <3> QED
      BY <3>1, <3>2
  <2> QED
    BY <2>3, <2>5, <2>6, <1>4
<1>8. \A x \in Rid : hist.newest[x] \in Nat /\ hist.newest[x] <= pub[x]
  BY <1>t DEF Kept, TypeOK
<1>9. Ahead'
  <2> SUFFICES ASSUME Listening PROVE
        /\ \A x \in Rid : hist.newest[x] > 0 =>
             \A n \in (hist.newest[x] + 1)..pub'[x] :
                 \E i \in DOMAIN sock' : sock'[i] = Ev(x, n)
        /\ \A i \in DOMAIN sock' :
             \/ hist.newest[sock'[i].rid] = 0
             \/ sock'[i].seq > hist.newest[sock'[i].rid]
             \/ thr.state = "init" /\ sock'[i].rid \in DOMAIN cap.pre /\ i <= Left
    BY <1>1 DEF Ahead, Left, Listening
  <2>1. sock' = Append(sock, e)
    BY <1>1
  <2>2. /\ Len(sock) \in Nat /\ DOMAIN sock = 1..Len(sock) /\ DOMAIN sock' = 1..(Len(sock) + 1)
        /\ \A i \in 1..Len(sock) : sock'[i] = sock[i] /\ sock'[Len(sock) + 1] = e
        /\ sock'[Len(sock) + 1] = e
    BY <2>1, <1>2, <1>t, SMT
  <2>3. ASSUME NEW x \in Rid, hist.newest[x] > 0, NEW n \in (hist.newest[x] + 1)..pub'[x]
        PROVE  \E i \in DOMAIN sock' : sock'[i] = Ev(x, n)
    <3>1. CASE n <= pub[x]
      <4>1. n \in (hist.newest[x] + 1)..pub[x]
        BY <3>1, <2>3, <1>8, <1>t, SMT
      <4>2. PICK i \in DOMAIN sock : sock[i] = Ev(x, n)
        BY <4>1, <2>3 DEF IInv, Data, Ahead
      <4> QED
        BY <4>2, <2>2, SMT
    <3>2. CASE ~(n <= pub[x])
      <4>0. pub[x] \in Nat /\ pub[r] \in Nat /\ n \in Int /\ n <= pub'[x]
        BY <2>3, <1>5, <1>8, <1>t, SMT
      <4>1. x = r /\ n = pub[r] + 1
        BY <3>2, <4>0, <1>5, SMT
      <4>2. e = Ev(x, n)
        BY <4>1 DEF e
      <4>3. Len(sock) + 1 \in DOMAIN sock' /\ sock'[Len(sock) + 1] = e
        BY <2>2, SMT
      <4> HIDE DEF e
      <4> QED
        BY <4>2, <4>3
    <3> QED
      BY <3>1, <3>2
  <2>4. ASSUME NEW i \in DOMAIN sock'
        PROVE  \/ hist.newest[sock'[i].rid] = 0
               \/ sock'[i].seq > hist.newest[sock'[i].rid]
               \/ thr.state = "init" /\ sock'[i].rid \in DOMAIN cap.pre /\ i <= Left
    <3>1. CASE i \in DOMAIN sock
      <4>1. sock'[i] = sock[i]
        BY <3>1, <2>2
      <4> QED
        BY <3>1, <4>1 DEF IInv, Data, Ahead
    <3>2. CASE i \notin DOMAIN sock
      <4>1. sock'[i] = e
        BY <3>2, <2>2, SMT
      <4> QED
        BY <4>1, <1>2, <1>8, SMT
    <3> QED
      BY <3>1, <3>2
  <2> QED
    BY <2>3, <2>4
<1>10. Cached' /\ CacheContiguous'
  BY <1>1 DEF IInv, Data, Cached, CacheContiguous
<1> QED
  BY <1>k, <1>6, <1>7, <1>9, <1>10 DEF IInv, Data

-----------------------------------------------------------------------------
(* The store.                                                              *)

\* The newest event of each publisher after e was read.
NewestWith(e) ==
    [hist.newest EXCEPT ![e.rid] = IF e.seq > @ THEN e.seq ELSE @]

\* What a read of the socket does to the newest events.
LEMMA NewestAt ==
  ASSUME TypeOK, NEW e \in Numbered
  PROVE  /\ NewestWith(e) \in [Rid -> Nat]
         /\ \A r \in Rid \ {e.rid} : NewestWith(e)[r] = hist.newest[r]
         /\ NewestWith(e)[e.rid] = IF e.seq > hist.newest[e.rid] THEN e.seq ELSE hist.newest[e.rid]
         /\ NewestWith(e)[e.rid] >= e.seq /\ NewestWith(e)[e.rid] >= hist.newest[e.rid]
         /\ e.rid \in Rid /\ e.seq \in Nat /\ e.seq > 0 /\ \A r \in Rid : hist.newest[r] \in Nat
<1>1. hist.newest \in [Rid -> Nat]
  BY DEF TypeOK
<1>2. e.rid \in Rid /\ e.seq \in Nat /\ e.seq > 0
  BY EvOf
<1> QED
  BY <1>1, <1>2, SMT DEF NewestWith

\* What follows the newest event of a publisher in the socket follows it in
\* the publisher's numbering.
LEMMA HeadNext ==
  ASSUME IInv, Listening, sock # <<>>,
         hist.newest[Head(sock).rid] > 0, Head(sock).seq > hist.newest[Head(sock).rid]
  PROVE  Head(sock).seq = hist.newest[Head(sock).rid] + 1
<1> DEFINE e == Head(sock)
           m == hist.newest[e.rid]
<1>1. /\ sock \in Seq(Numbered) /\ pub \in [Rid -> Nat] /\ TypeOK /\ Flow(sock, pub) /\ Ahead
  BY DEF IInv, KeepInv, TypeOK, Flows, Data
<1>2. e = sock[1] /\ e \in Numbered /\ 1 \in DOMAIN sock /\ DOMAIN sock = 1..Len(sock) /\ Len(sock) \in Nat
  BY <1>1, TailAt, SMT
<1>3. e.rid \in Rid /\ e.seq \in Nat /\ m \in Nat
  BY <1>1, <1>2, NewestAt
<1> HIDE DEF e
<1>4. e.seq <= pub[e.rid] /\ pub[e.rid] \in Nat
  BY <1>1, <1>2, <1>3 DEF Flow
<1>5. m + 1 \in (m + 1)..pub[e.rid] /\ e.seq > m
  BY <1>3, <1>4, SMT DEF e
<1>6. PICK i \in DOMAIN sock : sock[i] = Ev(e.rid, m + 1)
  BY <1>5, <1>3, <1>1 DEF Ahead, e
<1>7. sock[i].rid = e.rid /\ sock[i].seq = m + 1
  BY <1>6, SMT DEF Ev
<1>8. i > 1 => e.seq < m + 1
  BY <1>1, <1>2, <1>7 DEF Flow
<1> QED
  BY <1>2, <1>3, <1>5, <1>7, <1>8, SMT DEF e

\* A read keeps cache and socket together, as long as the events the stock
\* still has to be compared with stay marked for it.
LEMMA ReadAhead ==
  ASSUME IInv, thr.at = "recv", sock # <<>>, sock' = Tail(sock), pub' = pub,
         hist'.newest = NewestWith(Head(sock)), thr'.at = "check",
         \A i \in 2..Len(sock) :
            thr.state = "init" /\ sock[i].rid \in DOMAIN cap.pre /\ i <= thr.initCnt =>
              \/ /\ thr'.state = "init" /\ i - 1 <= thr'.initCnt
                 /\ sock[i].rid \in DOMAIN cap'.pre
              \/ sock[i].rid = Head(sock).rid /\ Head(sock).seq >= hist.newest[Head(sock).rid]
  PROVE  Ahead'
<1> DEFINE e == Head(sock)
           w == NewestWith(e)
<1>1. /\ sock \in Seq(Numbered) /\ pub \in [Rid -> Nat] /\ TypeOK /\ Flow(sock, pub) /\ Ahead /\ Listening
  BY DEF IInv, KeepInv, TypeOK, Flows, Data, Listening
<1>2. /\ Len(sock) \in Nat \ {0} /\ DOMAIN Tail(sock) = 1..(Len(sock) - 1) /\ DOMAIN sock = 1..Len(sock)
      /\ \A i \in 1..(Len(sock) - 1) : Tail(sock)[i] = sock[i + 1]
      /\ e = sock[1] /\ e \in Numbered
  BY <1>1, TailAt
<1>3. /\ \A r \in Rid \ {e.rid} : w[r] = hist.newest[r]
      /\ w[e.rid] = (IF e.seq > hist.newest[e.rid] THEN e.seq ELSE hist.newest[e.rid])
      /\ w[e.rid] >= e.seq /\ w \in [Rid -> Nat]
      /\ e.rid \in Rid /\ e.seq \in Nat /\ e.seq > 0 /\ \A r \in Rid : hist.newest[r] \in Nat
  BY <1>1, <1>2, NewestAt
<1>4. \A i \in DOMAIN sock : /\ sock[i].rid \in Rid /\ sock[i].seq \in Nat
                             /\ sock[i] = Ev(sock[i].rid, sock[i].seq)
  BY <1>1, ListAt
<1>5. hist'.newest = w
  OBVIOUS
<1> HIDE DEF e, w
<1>6. ASSUME NEW x \in Rid, w[x] > 0, NEW n \in (w[x] + 1)..pub[x]
      PROVE  \E i \in DOMAIN Tail(sock) : Tail(sock)[i] = Ev(x, n)
  <2>0. n \in Nat /\ w[x] \in Nat /\ pub[x] \in Nat /\ n > w[x] /\ n <= pub[x]
    <3>1. w[x] \in Nat /\ pub[x] \in Nat
      BY <1>1, <1>3
    <3> QED
      BY <3>1, SMT
  <2>1. \E i \in DOMAIN sock : sock[i] = Ev(x, n)
    <3>1. CASE x = e.rid
      <4>1. n \in sock[1].seq..pub[sock[1].rid] /\ 1 \in DOMAIN sock
        <5>1. sock[1] = e /\ 1 \in DOMAIN sock
          BY <1>2, SMT
        <5>2. e.seq \in Nat /\ e.seq <= w[x]
          BY <1>3, <3>1
        <5>3. n \in e.seq..pub[x]
          BY <2>0, <5>2, SMT
        <5> QED
          BY <3>1, <5>1, <5>3
      <4>2. \E i \in DOMAIN sock : sock[i] = Ev(sock[1].rid, n)
        BY <4>1, <1>1 DEF Flow
      <4> QED
        BY <3>1, <4>2, <1>2
    <3>2. CASE x # e.rid
      <4>1. hist.newest[x] > 0 /\ n \in (hist.newest[x] + 1)..pub[x]
        BY <3>2, <1>3, <1>6
      <4> QED
        BY <4>1, <1>1 DEF Ahead
    <3> QED
      BY <3>1, <3>2
  <2>2. PICK i \in DOMAIN sock : sock[i] = Ev(x, n)
    BY <2>1
  <2>3. sock[i].rid = x /\ sock[i].seq = n
    BY <2>2, SMT DEF Ev
  <2>4. i # 1
    <3> SUFFICES ASSUME i = 1 PROVE FALSE
      OBVIOUS
    <3>1. e.rid = x /\ e.seq = n
      BY <2>3, <1>2
    <3>2. w[x] >= n
      BY <3>1, <1>3
    <3> QED
      BY <3>2, <2>0, SMT
  <2>5. i - 1 \in DOMAIN Tail(sock) /\ Tail(sock)[i - 1] = sock[i]
    <3>1. i \in 1..Len(sock) /\ Len(sock) \in Nat
      BY <1>2
    <3>2. i - 1 \in 1..(Len(sock) - 1) /\ (i - 1) + 1 = i
      BY <2>4, <3>1, SMT
    <3> QED
      BY <3>2, <1>2
  <2> QED
    BY <2>2, <2>5
<1>7. ASSUME NEW l \in DOMAIN Tail(sock)
      PROVE  \/ w[Tail(sock)[l].rid] = 0
             \/ Tail(sock)[l].seq > w[Tail(sock)[l].rid]
             \/ thr'.state = "init" /\ Tail(sock)[l].rid \in DOMAIN cap'.pre /\ l <= thr'.initCnt
  <2> DEFINE i == l + 1
             s == sock[i]
  <2>1. i \in DOMAIN sock /\ i \in 2..Len(sock) /\ Tail(sock)[l] = s /\ i > 1 /\ i - 1 = l /\ l \in Nat /\ 1 \in DOMAIN sock
    BY <1>2, <1>7, SMT
  <2>2. \/ hist.newest[s.rid] = 0
        \/ s.seq > hist.newest[s.rid]
        \/ thr.state = "init" /\ s.rid \in DOMAIN cap.pre /\ i <= thr.initCnt
    BY <2>1, <1>1 DEF Ahead, Left
  <2>3. s.rid = e.rid => s.seq > e.seq
    <3> SUFFICES ASSUME s.rid = e.rid PROVE s.seq > e.seq
      OBVIOUS
    <3>1. sock[1].seq < sock[i].seq
      BY <2>1, <1>1, <1>2 DEF Flow
    <3> QED
      BY <3>1, <1>2, <1>4, <2>1
  <2>4. s.rid \in Rid /\ s.seq \in Nat /\ hist.newest[s.rid] \in Nat
    BY <1>4, <1>3, <2>1
  <2>5. CASE thr.state = "init" /\ s.rid \in DOMAIN cap.pre /\ i <= thr.initCnt
    <3>1. \/ thr'.state = "init" /\ l <= thr'.initCnt /\ s.rid \in DOMAIN cap'.pre
          \/ s.rid = e.rid /\ e.seq >= hist.newest[e.rid]
      BY <2>5, <2>1 DEF e
    <3>2. s.rid = e.rid /\ e.seq >= hist.newest[e.rid] => s.seq > w[s.rid]
      <4>1. e.seq >= hist.newest[e.rid] => w[e.rid] = e.seq
        BY <1>3, SMT
      <4> HIDE DEF s
      <4> QED
        BY <4>1, <2>3
    <3> QED
      BY <3>1, <3>2, <2>1
  <2>6. CASE hist.newest[s.rid] = 0 \/ s.seq > hist.newest[s.rid]
    <3>1. CASE s.rid = e.rid
      BY <3>1, <2>6, <2>3, <2>4, <2>1, <1>3
    <3>2. CASE s.rid # e.rid
      BY <3>2, <2>6, <2>4, <2>1, <1>3
    <3> QED
      BY <3>1, <3>2
  <2> QED
    BY <2>2, <2>5, <2>6
<1>8. Left' = thr'.initCnt
  BY DEF Left
<1> QED
  BY <1>5, <1>6, <1>7, <1>8 DEF Ahead

\* What every read of the socket has in common; the rest is what the state of
\* the capture makes of the event.
ReadsHead ==
    /\ thr.at = "recv" /\ sock # <<>> /\ sock' = Tail(sock)
    /\ UNCHANGED <<pc, after, cli, pub>>
    /\ hist' \in [newest : [Rid -> Nat], stock : Nat]
    /\ hist'.newest = NewestWith(Head(sock))
    /\ thr' \in CaptureThread /\ thr'.at = "check"
    /\ cap' \in Capture /\ cap'.alive = cap.alive /\ cap'.ctrl = cap.ctrl /\ cap'.run = cap.run

\* The part of the invariant that no read disturbs.
LEMMA ReadKeeps ==
  ASSUME KeepInv, ReadsHead, thr'.state # "last" => ~cap'.lastInit, Kept'
  PROVE  KeepInv'
<1> USE DEF NEED_INIT, INIT_CAPTURE, START_CAPTURE, STOP_CAPTURE
<1>t. TypeOK /\ Stages /\ Flows /\ sock \in Seq(Numbered) /\ pub \in [Rid -> Nat]
  BY DEF KeepInv, TypeOK
<1>1. Tail(sock) \in Seq(Numbered) /\ Flow(Tail(sock), pub)
  <2>1. Flow(sock, pub) /\ sock # <<>>
    BY <1>t DEF Flows, ReadsHead
  <2>2. Tail(sock) \in Seq(Numbered)
    BY <1>t, <2>1, TailAt
  <2>3. Flow(Tail(sock), pub)
    BY <1>t, <2>1, FlowTail
  <2> QED
    BY <2>2, <2>3
<1>2. TypeOK'
  <2>1. sock' \in Seq(Numbered)
    BY <1>1 DEF ReadsHead
  <2>2. /\ pc' = pc /\ after' = after /\ cli' = cli /\ pub' = pub
        /\ cap' \in Capture /\ thr' \in CaptureThread
        /\ hist' \in [newest : [Rid -> Nat], stock : Nat]
    BY DEF ReadsHead
  <2> QED
    BY <2>1, <2>2, <1>t DEF TypeOK
<1>3. Stages'
  BY <1>t, SMT DEF Stages, ReadsHead
<1>4. Flows'
  BY <1>1, <1>t DEF Flows, ReadsHead, Listening
<1> QED
  BY <1>2, <1>3, <1>4 DEF KeepInv

\* The same for the part that needs the protocol.
LEMMA ReadStep ==
  ASSUME IInv, ReadsHead, KeepInv', Data' PROVE IInv'
<1>1. Phases' /\ Handover'
  BY DEF IInv, Phases, Handover, ReadsHead
<1> QED
  BY <1>1 DEF IInv

\* The event that is read: its publisher and number, the newest events with it,
\* and what the socket holds behind it.
LEMMA HeadFacts ==
  ASSUME KeepInv, sock # <<>>, NEW e, e = Head(sock)
  PROVE  /\ e \in Numbered /\ e = sock[1] /\ e = Ev(e.rid, e.seq)
         /\ e.rid \in Rid /\ e.seq \in Nat /\ e.seq > 0
         /\ \A r \in Rid : hist.newest[r] \in Nat
         /\ NewestWith(e) \in [Rid -> Nat]
         /\ \A r \in Rid \ {e.rid} : NewestWith(e)[r] = hist.newest[r]
         /\ NewestWith(e)[e.rid] = IF e.seq > hist.newest[e.rid] THEN e.seq ELSE hist.newest[e.rid]
         /\ \A r \in Rid : hist.newest[r] <= NewestWith(e)[r] /\ NewestWith(e)[r] <= pub[r]
         /\ \A i \in DOMAIN Tail(sock) : /\ Tail(sock)[i].rid = e.rid => Tail(sock)[i].seq > e.seq
                                         /\ i + 1 \in DOMAIN sock /\ Tail(sock)[i] = sock[i + 1]
<1>1. TypeOK /\ sock \in Seq(Numbered) /\ pub \in [Rid -> Nat] /\ Flow(sock, pub) /\ Kept
  BY DEF KeepInv, TypeOK, Flows
<1>2. /\ e \in Numbered /\ e = sock[1] /\ 1 \in DOMAIN sock /\ Len(sock) \in Nat /\ DOMAIN sock = 1..Len(sock)
      /\ DOMAIN Tail(sock) = 1..(Len(sock) - 1)
      /\ \A i \in 1..(Len(sock) - 1) : Tail(sock)[i] = sock[i + 1]
  BY <1>1, TailAt, SMT
<1>3. /\ NewestWith(e) \in [Rid -> Nat]
      /\ \A r \in Rid \ {e.rid} : NewestWith(e)[r] = hist.newest[r]
      /\ NewestWith(e)[e.rid] = IF e.seq > hist.newest[e.rid] THEN e.seq ELSE hist.newest[e.rid]
      /\ e.rid \in Rid /\ e.seq \in Nat /\ e.seq > 0 /\ \A r \in Rid : hist.newest[r] \in Nat
  BY <1>1, <1>2, NewestAt
<1>4. e = Ev(e.rid, e.seq)
  BY <1>2, EvOf
<1>5. e.seq <= pub[e.rid] /\ \A r \in Rid : hist.newest[r] <= pub[r] /\ pub[r] \in Nat
  BY <1>1, <1>2 DEF Flow, Kept
<1>6. \A r \in Rid : hist.newest[r] <= NewestWith(e)[r] /\ NewestWith(e)[r] <= pub[r]
  BY <1>3, <1>5, SMT
<1>7. ASSUME NEW i \in DOMAIN Tail(sock)
      PROVE  /\ Tail(sock)[i].rid = e.rid => Tail(sock)[i].seq > e.seq
             /\ i + 1 \in DOMAIN sock /\ Tail(sock)[i] = sock[i + 1]
  <2>1. i + 1 \in DOMAIN sock /\ Tail(sock)[i] = sock[i + 1] /\ 1 < i + 1
    BY <1>2, SMT
  <2>2. sock[1].rid = sock[i + 1].rid => sock[1].seq < sock[i + 1].seq
    BY <2>1, <1>1, <1>2 DEF Flow
  <2>3. sock[i + 1].seq \in Nat
    BY <2>1, <1>1, ListAt
  <2> QED
    BY <2>1, <2>2, <2>3, <1>2, <1>3, SMT
<1> QED
  BY <1>2, <1>3, <1>4, <1>6, <1>7

\* As long as nothing has overflowed the newest events are in m_events.
LEMMA NewestStored ==
  ASSUME KeepInv, cap.alive, thr.state # "last"
  PROVE  \A r \in Rid : hist.newest[r] > 0 => Ev(r, hist.newest[r]) \in Range(cap.events)
<1>1. ~cap.lastInit /\ Kept
  BY DEF KeepInv, Stages
<1> QED
  BY <1>1 DEF Kept, Held

\* An event that is added leaves them there.
LEMMA NewestAppended ==
  ASSUME KeepInv, cap.alive, thr.state # "last", sock # <<>>, NEW e, e = Head(sock)
  PROVE  /\ Append(cap.events, e) \in Seq(Numbered)
         /\ \A r \in Rid : NewestWith(e)[r] > 0 =>
                Ev(r, NewestWith(e)[r]) \in Range(Append(cap.events, e))
<1> DEFINE es == Append(cap.events, e)
           w == NewestWith(e)
<1>1. /\ e \in Numbered /\ e = Ev(e.rid, e.seq) /\ e.rid \in Rid /\ e.seq \in Nat
      /\ \A r \in Rid : hist.newest[r] \in Nat
      /\ \A r \in Rid \ {e.rid} : w[r] = hist.newest[r]
      /\ w[e.rid] = IF e.seq > hist.newest[e.rid] THEN e.seq ELSE hist.newest[e.rid]
  BY HeadFacts, SMT
<1>2. cap.events \in Seq(Numbered)
  BY DEF KeepInv, TypeOK, Capture
<1>3. /\ es \in Seq(Numbered) /\ DOMAIN es = 1..(Len(cap.events) + 1)
      /\ DOMAIN cap.events = 1..Len(cap.events) /\ Len(cap.events) \in Nat
      /\ es[Len(cap.events) + 1] = e /\ \A i \in DOMAIN cap.events : es[i] = cap.events[i]
  BY <1>1, <1>2, SMT
<1> HIDE DEF es, w
<1>4. e \in Range(es) /\ Range(cap.events) \subseteq Range(es)
  BY <1>3, SMT DEF Range
<1>5. ASSUME NEW r \in Rid, w[r] > 0 PROVE Ev(r, w[r]) \in Range(es)
  <2>1. CASE w[r] = hist.newest[r]
    BY <2>1, <1>4, <1>5, NewestStored
  <2>2. CASE w[r] # hist.newest[r]
    <3>1. r = e.rid /\ w[r] = e.seq
      BY <2>2, <1>1
    <3> QED
      BY <3>1, <1>1, <1>4
  <2> QED
    BY <2>1, <2>2
<1> QED
  BY <1>3, <1>5 DEF es, w

\* The cache with one more event, which is the next of its publisher.
LEMMA StoreNext ==
  ASSUME IInv, thr.at = "recv", sock # <<>>, thr.state # "last",
         NEW e, e = Head(sock),
         hist.newest[e.rid] = 0 \/ e.seq > hist.newest[e.rid]
  PROVE  LET es == Append(cap.events, e) IN
         /\ Contiguous(es)
         /\ \A i \in DOMAIN es : es[i].seq <= NewestWith(e)[es[i].rid]
<1> DEFINE es == Append(cap.events, e)
           m == hist.newest[e.rid]
           w == NewestWith(e)
<1>1. /\ KeepInv /\ cap \in Capture /\ Listening /\ cap.alive
  BY DEF IInv, KeepInv, TypeOK, Stages, Listening
<1>2. e \in Numbered /\ cap.events \in Seq(Numbered)
  BY <1>1, HeadFacts DEF Capture
<1>3. /\ w \in [Rid -> Nat] /\ e.rid \in Rid /\ e.seq \in Nat /\ e.seq > 0 /\ m \in Nat
      /\ w[e.rid] = (IF e.seq > m THEN e.seq ELSE m)
      /\ \A r \in Rid : hist.newest[r] \in Nat /\ hist.newest[r] <= w[r]
  BY <1>1, HeadFacts
<1> HIDE DEF w
<1>4. m > 0 => e.seq = m + 1
  BY <1>1, <1>3, HeadNext
<1>5. \A i \in DOMAIN cap.events : cap.events[i].seq <= hist.newest[cap.events[i].rid]
  BY <1>1 DEF IInv, Data, Cached
<1>6. m > 0 => Ev(e.rid, m) \in Range(cap.events)
  BY <1>1, <1>3, NewestStored
<1>7. Contiguous(es)
  <2>1. Contiguous(cap.events)
    BY DEF IInv, Data, CacheContiguous
  <2>2. \A i \in DOMAIN cap.events : cap.events[i].rid = e.rid => cap.events[i].seq <= m
    BY <1>5
  <2>3. m = 0 \/ e.seq = m + 1
    BY <1>3, <1>4, SMT
  <2>4. m \in Nat
    BY <1>3
  <2> HIDE DEF m
  <2> QED
    BY <2>1, <2>2, <2>3, <2>4, <1>2, <1>6, ContiguousAppend
<1>8. /\ DOMAIN es = 1..(Len(cap.events) + 1)
      /\ DOMAIN cap.events = 1..Len(cap.events) /\ Len(cap.events) \in Nat
      /\ es[Len(cap.events) + 1] = e /\ \A i \in DOMAIN cap.events : es[i] = cap.events[i]
  BY <1>2, SMT
<1> HIDE DEF es
<1>9. ASSUME NEW i \in DOMAIN es PROVE es[i].seq <= w[es[i].rid]
  <2>1. CASE i \in DOMAIN cap.events
    <3>1. es[i] = cap.events[i] /\ es[i].rid \in Rid /\ es[i].seq \in Nat
      BY <2>1, <1>8, <1>2, ListAt
    <3>2. es[i].seq <= hist.newest[es[i].rid]
      BY <2>1, <3>1, <1>5
    <3> QED
      BY <3>1, <3>2, <1>3, SMT
  <2>2. CASE i \notin DOMAIN cap.events
    <3>1. es[i] = e
      BY <2>2, <1>8, SMT
    <3>2. e.seq <= w[e.rid]
      BY <1>3, SMT
    <3> QED
      BY <3>1, <3>2
  <2> QED
    BY <2>1, <2>2
<1> QED
  BY <1>7, <1>9 DEF es, w

\* What CAP_STATE_INIT makes of an event: it is dropped when the stock covers
\* it, and a publisher is compared until an event is as new as its stock.
InitStored(e) ==
    /\ cap'.events = IF e.rid \in DOMAIN cap.pre /\ e.seq <= cap.pre[e.rid]
                       THEN cap.events ELSE Append(cap.events, e)
    /\ \A r \in DOMAIN cap'.pre : /\ r \in DOMAIN cap.pre /\ cap'.pre[r] = cap.pre[r]
                                  /\ ~(r = e.rid /\ e.seq >= cap.pre[r])
    /\ \A r \in DOMAIN cap.pre :
          \/ thr.initCnt <= 1
          \/ r = e.rid /\ e.seq >= cap.pre[r]
          \/ thr'.state = "init" /\ r \in DOMAIN cap'.pre
    /\ thr'.state \in {"init", "active"}
    /\ thr.initCnt \in Int /\ thr'.initCnt = thr.initCnt - 1
    /\ cap'.lastInit = cap.lastInit

\* CAP_STATE_INIT does that.
LEMMA InitStoredFacts ==
  ASSUME KeepInv, thr.at = "recv", sock # <<>>, thr.state = "init", NEW e, e = Head(sock),
         StoreInit(e), sock' = Tail(sock), UNCHANGED <<pc, after, cli, pub>>,
         hist' = [hist EXCEPT !.newest[e.rid] = IF e.seq > @ THEN e.seq ELSE @]
  PROVE  ReadsHead /\ InitStored(e)
<1> DEFINE known   == e.rid \in DOMAIN cap.pre
           dup     == known /\ e.seq <= cap.pre[e.rid]
           settled == IF known /\ e.seq >= cap.pre[e.rid] THEN {e.rid} ELSE {}
           left    == DOMAIN cap.pre \ settled
           leave   == left = {} \/ thr.initCnt - 1 <= 0
           es      == IF dup THEN cap.events ELSE Append(cap.events, e)
           pre     == IF leave THEN NoMap ELSE [r \in left |-> cap.pre[r]]
<1>1. /\ cap \in Capture /\ thr \in CaptureThread /\ Stages
      /\ hist \in [newest : [Rid -> Nat], stock : Nat]
  BY DEF KeepInv, TypeOK
<1>2. e \in Numbered /\ e.rid \in Rid /\ NewestWith(e) \in [Rid -> Nat]
  BY HeadFacts
<1>3. cap.events \in Seq(Numbered) /\ cap.pre \in SeqMap
  BY <1>1 DEF Capture
<1>4. DOMAIN cap.pre \in SUBSET Rid /\ \A r \in DOMAIN cap.pre : cap.pre[r] \in Nat /\ cap.pre[r] > 0
  BY <1>3, SeqMapAt
<1>5. /\ cap' = [cap EXCEPT !.events = es, !.pre = pre]
      /\ thr' = [thr EXCEPT !.at = "check", !.initCnt = thr.initCnt - 1,
                            !.state = IF leave THEN "active" ELSE "init"]
  BY DEF StoreInit
<1>6. pre \in SeqMap
  <2>1. left \in SUBSET Rid /\ [r \in left |-> cap.pre[r]] \in [left -> Nat \ {0}]
    BY <1>4, SMT
  <2>2. [r \in left |-> cap.pre[r]] \in SeqMap
    <3> HIDE DEF left
    <3> QED
      BY <2>1, SeqMapType
  <2> QED
    BY <2>2, NoMapType
<1>7. es \in Seq(Numbered)
  BY <1>2, <1>3, SMT
<1>8. \A r \in DOMAIN pre : r \in left /\ pre[r] = cap.pre[r]
  BY NoMapType
<1>9. ~leave => DOMAIN pre = left
  OBVIOUS
<1>10. \A r \in left : r \in DOMAIN cap.pre /\ ~(r = e.rid /\ e.seq >= cap.pre[r])
  OBVIOUS
<1>11. \A r \in DOMAIN cap.pre : r \in left \/ (r = e.rid /\ e.seq >= cap.pre[r])
  OBVIOUS
<1>12. leave => left = {} \/ thr.initCnt - 1 <= 0
  OBVIOUS
<1> HIDE DEF es, pre, left, leave
<1>13. /\ cap' \in Capture /\ cap'.events = es /\ cap'.pre = pre
       /\ cap'.lastInit = cap.lastInit /\ cap'.alive = cap.alive /\ cap'.ctrl = cap.ctrl /\ cap'.run = cap.run
  BY <1>5, <1>6, <1>7, <1>1 DEF Capture
<1>14. /\ thr' \in CaptureThread /\ thr'.at = "check" /\ thr'.initCnt = thr.initCnt - 1
       /\ thr.initCnt \in Int /\ (leave => thr'.state = "active") /\ (~leave => thr'.state = "init")
  <2> DEFINE st == IF leave THEN "active" ELSE "init"
             cnt == thr.initCnt - 1
  <2>1. thr' = [thr EXCEPT !.at = "check", !.initCnt = cnt, !.state = st]
    BY <1>5
  <2>2. st \in {"active", "init"} /\ thr.initCnt \in Int /\ cnt \in Int /\ cnt = thr.initCnt - 1
    BY <1>1, SMT DEF CaptureThread
  <2>3. (leave => st = "active") /\ (~leave => st = "init")
    OBVIOUS
  <2> HIDE DEF st, cnt
  <2>4. thr' \in CaptureThread /\ thr'.at = "check" /\ thr'.initCnt = cnt /\ thr'.state = st
    BY <2>1, <2>2, <1>1 DEF CaptureThread
  <2> QED
    BY <2>2, <2>3, <2>4
<1>15. hist' \in [newest : [Rid -> Nat], stock : Nat] /\ hist'.newest = NewestWith(e)
  BY <1>1, <1>2 DEF NewestWith
<1>16. ReadsHead
  BY <1>13, <1>14, <1>15 DEF ReadsHead
<1>17. \A r \in DOMAIN cap'.pre : /\ r \in DOMAIN cap.pre /\ cap'.pre[r] = cap.pre[r]
                                  /\ ~(r = e.rid /\ e.seq >= cap.pre[r])
  BY <1>8, <1>10, <1>13
<1>18. ASSUME NEW r \in DOMAIN cap.pre
       PROVE  \/ thr.initCnt <= 1
              \/ r = e.rid /\ e.seq >= cap.pre[r]
              \/ thr'.state = "init" /\ r \in DOMAIN cap'.pre
  <2>1. CASE leave
    BY <2>1, <1>11, <1>12, <1>14, SMT
  <2>2. CASE ~leave
    BY <2>2, <1>9, <1>11, <1>13, <1>14
  <2> QED
    BY <2>1, <2>2
<1>19. thr'.state \in {"init", "active"}
  BY <1>14
<1> QED
  BY <1>13, <1>14, <1>16, <1>17, <1>18, <1>19 DEF InitStored, es

\* An event that is dropped is not newer than the newest one.
LEMMA InitKeeps ==
  ASSUME KeepInv, ReadsHead, thr.state = "init", InitStored(Head(sock)) PROVE KeepInv'
<1> DEFINE e == Head(sock)
           w == NewestWith(e)
<1>1. cap.alive /\ ~cap.lastInit /\ Kept
  BY DEF KeepInv, Stages, ReadsHead
<1>2. sock # <<>> /\ hist'.newest = w /\ pub' = pub /\ cap'.alive = cap.alive
  BY DEF ReadsHead
<1>3. /\ e.rid \in Rid /\ e.seq \in Nat /\ \A r \in Rid : hist.newest[r] \in Nat
      /\ \A r \in Rid \ {e.rid} : w[r] = hist.newest[r] /\ w \in [Rid -> Nat]
      /\ w[e.rid] = IF e.seq > hist.newest[e.rid] THEN e.seq ELSE hist.newest[e.rid]
      /\ \A r \in Rid : hist.newest[r] <= w[r] /\ w[r] <= pub[r]
  BY <1>2, HeadFacts, SMT
<1>4. /\ DOMAIN cap.pre \in SUBSET Rid
      /\ \A r \in DOMAIN cap.pre : cap.pre[r] \in Nat /\ cap.pre[r] <= hist.newest[r]
  <2>1. cap.pre \in SeqMap
    BY DEF KeepInv, TypeOK, Capture
  <2> QED
    BY <2>1, <1>1, SeqMapAt DEF Kept
<1>5. /\ cap'.events = IF e.rid \in DOMAIN cap.pre /\ e.seq <= cap.pre[e.rid]
                         THEN cap.events ELSE Append(cap.events, e)
      /\ \A r \in DOMAIN cap'.pre : r \in DOMAIN cap.pre /\ cap'.pre[r] = cap.pre[r]
      /\ cap'.lastInit = cap.lastInit
  BY DEF InitStored
<1> HIDE DEF e, w
<1>6. ASSUME NEW r \in Rid, w[r] > 0 PROVE Ev(r, w[r]) \in Range(cap'.events)
  <2>1. CASE e.rid \in DOMAIN cap.pre /\ e.seq <= cap.pre[e.rid]
    <3>1. e.seq <= hist.newest[e.rid]
      BY <2>1, <1>3, <1>4, SMT
    <3>2. w[r] = hist.newest[r]
      BY <3>1, <1>3, SMT
    <3> QED
      BY <2>1, <3>2, <1>1, <1>5, <1>6, NewestStored
  <2>2. CASE ~(e.rid \in DOMAIN cap.pre /\ e.seq <= cap.pre[e.rid])
    BY <2>2, <1>1, <1>2, <1>5, <1>6, NewestAppended DEF e, w
  <2> QED
    BY <2>1, <2>2
<1>7. ASSUME NEW r \in DOMAIN cap'.pre PROVE cap'.pre[r] <= w[r]
  <2>1. r \in Rid /\ cap'.pre[r] = cap.pre[r] /\ cap.pre[r] \in Nat /\ cap.pre[r] <= hist.newest[r]
    BY <1>4, <1>5
  <2> QED
    BY <2>1, <1>3, SMT
<1>8. Kept'
  BY <1>2, <1>3, <1>6, <1>7 DEF Kept, Held
<1> QED
  BY <1>1, <1>5, <1>8, ReadKeeps

\* With a client that keeps to the protocol it drops just what is stored.
LEMMA InitStep ==
  ASSUME IInv, ReadsHead, thr.state = "init", InitStored(Head(sock)) PROVE IInv'
<1> DEFINE e == Head(sock)
           w == NewestWith(e)
           m == hist.newest[e.rid]
<1>1. KeepInv /\ KeepInv' /\ cap.alive /\ Listening /\ Ahead /\ Cached /\ cap \in Capture
  BY InitKeeps DEF IInv, Data, KeepInv, Stages, ReadsHead, Listening, TypeOK
<1>2. /\ thr.at = "recv" /\ sock # <<>> /\ sock' = Tail(sock) /\ hist'.newest = w /\ pub' = pub
      /\ thr'.at = "check" /\ cap'.alive = cap.alive
  BY DEF ReadsHead
<1>3. /\ e = sock[1] /\ e.rid \in Rid /\ e.seq \in Nat /\ e.seq > 0 /\ m \in Nat
      /\ \A r \in Rid : hist.newest[r] \in Nat
      /\ \A r \in Rid \ {e.rid} : w[r] = hist.newest[r]
      /\ w[e.rid] = IF e.seq > m THEN e.seq ELSE m
  <2>1. KeepInv /\ sock # <<>>
    BY <1>1, <1>2
  <2> QED
    BY <2>1, HeadFacts
<1>4. sock \in Seq(Numbered) /\ Len(sock) \in Nat /\ 1 \in DOMAIN sock /\ DOMAIN sock = 1..Len(sock)
  <2>1. sock \in Seq(Numbered)
    BY <1>1 DEF KeepInv, TypeOK
  <2> QED
    BY <2>1, <1>2, TailAt, SMT
<1>5. /\ DOMAIN cap.pre \in SUBSET Rid
      /\ \A r \in DOMAIN cap.pre : cap.pre[r] \in Nat /\ cap.pre[r] > 0 /\ cap.pre[r] = hist.newest[r]
  <2>1. cap.pre \in SeqMap
    BY <1>1 DEF Capture
  <2> QED
    BY <2>1, <1>1, SeqMapAt DEF Cached
<1>6. /\ cap'.events = IF e.rid \in DOMAIN cap.pre /\ e.seq <= cap.pre[e.rid]
                         THEN cap.events ELSE Append(cap.events, e)
      /\ \A r \in DOMAIN cap'.pre : /\ r \in DOMAIN cap.pre /\ cap'.pre[r] = cap.pre[r]
                                    /\ ~(r = e.rid /\ e.seq >= cap.pre[r])
      /\ \A r \in DOMAIN cap.pre :
            \/ thr.initCnt <= 1
            \/ r = e.rid /\ e.seq >= cap.pre[r]
            \/ thr'.state = "init" /\ r \in DOMAIN cap'.pre
      /\ thr.initCnt \in Int /\ thr'.initCnt = thr.initCnt - 1
  BY DEF InitStored
<1> HIDE DEF e, w
<1>7. Contiguous(cap'.events) /\ \A i \in DOMAIN cap'.events : cap'.events[i].seq <= w[cap'.events[i].rid]
  <2>1. CASE e.rid \in DOMAIN cap.pre /\ e.seq <= cap.pre[e.rid]
    <3>1. cap'.events = cap.events /\ \A r \in Rid : w[r] = hist.newest[r]
      <4>1. cap'.events = cap.events
        BY <2>1, <1>6
      <4>2. e.seq <= m
        BY <2>1, <1>5
      <4>3. w[e.rid] = m
        BY <4>2, <1>3, SMT
      <4> QED
        BY <4>1, <4>3, <1>3
    <3>2. cap.events \in Seq(Numbered)
      BY <1>1 DEF Capture
    <3>3. \A i \in DOMAIN cap.events : /\ cap.events[i].seq <= hist.newest[cap.events[i].rid]
                                       /\ cap.events[i].rid \in Rid
      BY <3>2, <1>1, ListAt DEF Cached
    <3>4. Contiguous(cap.events)
      BY DEF IInv, Data, CacheContiguous
    <3> QED
      BY <3>1, <3>3, <3>4
  <2>2. CASE ~(e.rid \in DOMAIN cap.pre /\ e.seq <= cap.pre[e.rid])
    <3>1. m = 0 \/ e.seq > m \/ e.rid \in DOMAIN cap.pre
      BY <1>1, <1>3, <1>4 DEF Ahead
    <3>2. m = 0 \/ e.seq > m
      <4>1. e.rid \in DOMAIN cap.pre => cap.pre[e.rid] = m /\ ~(e.seq <= m)
        BY <2>2, <1>5
      <4>2. e.seq \in Nat /\ m \in Nat
        BY <1>3
      <4> QED
        BY <3>1, <4>1, <4>2, SMT
    <3>3. cap'.events = Append(cap.events, e)
      BY <2>2, <1>6
    <3> QED
      BY <3>2, <3>3, <1>2, StoreNext DEF e, w
  <2> QED
    BY <2>1, <2>2
<1>8. ASSUME NEW i \in 2..Len(sock), sock[i].rid \in DOMAIN cap.pre, i <= thr.initCnt
      PROVE  \/ /\ thr'.state = "init" /\ i - 1 <= thr'.initCnt /\ sock[i].rid \in DOMAIN cap'.pre
             \/ sock[i].rid = e.rid /\ e.seq >= m
  <2>1. ~(thr.initCnt <= 1) /\ i - 1 <= thr'.initCnt
    BY <1>4, <1>6, <1>8, SMT
  <2> QED
    BY <2>1, <1>5, <1>6, <1>8
<1>9. Ahead'
  BY <1>2, <1>8, ReadAhead DEF e, w
<1>10. ASSUME NEW r \in DOMAIN cap'.pre PROVE cap'.pre[r] = w[r]
  <2>1. /\ r \in Rid /\ cap'.pre[r] = cap.pre[r] /\ ~(r = e.rid /\ e.seq >= cap.pre[r])
        /\ cap.pre[r] \in Nat /\ cap.pre[r] = hist.newest[r]
    BY <1>5, <1>6
  <2> QED
    BY <2>1, <1>3, SMT
<1>11. Data'
  BY <1>2, <1>7, <1>9, <1>10 DEF Data, Cached, CacheContiguous
<1> QED
  BY <1>1, <1>11, ReadStep

\* What CAP_STATE_ACTIVE makes of an event.
ActiveStored(e) ==
    /\ cap'.events = Append(cap.events, e) /\ cap'.pre = cap.pre
    /\ thr'.state \in {"active", "last"}
    /\ thr'.state # "last" => ~cap'.lastInit

\* CAP_STATE_ACTIVE does that.
LEMMA ActiveStoredFacts ==
  ASSUME KeepInv, thr.at = "recv", sock # <<>>, thr.state = "active", NEW e, e = Head(sock),
         StoreActive(e), sock' = Tail(sock), UNCHANGED <<pc, after, cli, pub>>,
         hist' = [hist EXCEPT !.newest[e.rid] = IF e.seq > @ THEN e.seq ELSE @]
  PROVE  ReadsHead /\ ActiveStored(e)
<1> DEFINE full == Len(cap.events) + 1 >= CacheMax
           es   == Append(cap.events, e)
           last == IF full THEN NoMap ELSE cap.last
           init == cap.lastInit \/ full
<1>1. /\ cap \in Capture /\ thr \in CaptureThread /\ ~cap.lastInit
      /\ hist \in [newest : [Rid -> Nat], stock : Nat]
  BY DEF KeepInv, TypeOK, Stages
<1>2. e \in Numbered /\ e.rid \in Rid /\ NewestWith(e) \in [Rid -> Nat]
  BY HeadFacts
<1>3. cap.events \in Seq(Numbered) /\ es \in Seq(Numbered)
  BY <1>1, <1>2, SMT DEF Capture
<1>4. last \in EventMap
  BY <1>1, NoMapType DEF Capture
<1>5. /\ cap' = [cap EXCEPT !.events = es, !.last = last, !.lastInit = init]
      /\ thr' = [thr EXCEPT !.at = "check", !.state = IF full THEN "last" ELSE "active"]
  BY DEF StoreActive
<1>6. init \in BOOLEAN /\ (init <=> full)
  BY <1>1
<1> HIDE DEF es, last, full, init
<1>7. /\ cap' \in Capture /\ cap'.events = es /\ cap'.lastInit = init
      /\ cap'.pre = cap.pre /\ cap'.alive = cap.alive /\ cap'.ctrl = cap.ctrl /\ cap'.run = cap.run
  BY <1>5, <1>3, <1>4, <1>6, <1>1 DEF Capture
<1>8. /\ thr' \in CaptureThread /\ thr'.at = "check"
      /\ (full => thr'.state = "last") /\ (~full => thr'.state = "active")
  <2> DEFINE st == IF full THEN "last" ELSE "active"
  <2>1. thr' = [thr EXCEPT !.at = "check", !.state = st]
    BY <1>5
  <2>2. st \in {"active", "last"} /\ (full => st = "last") /\ (~full => st = "active")
    OBVIOUS
  <2> HIDE DEF st
  <2>3. thr' \in CaptureThread /\ thr'.at = "check" /\ thr'.state = st
    BY <2>1, <2>2, <1>1 DEF CaptureThread
  <2> QED
    BY <2>2, <2>3
<1>9. hist' \in [newest : [Rid -> Nat], stock : Nat] /\ hist'.newest = NewestWith(e)
  BY <1>1, <1>2 DEF NewestWith
<1>10. ReadsHead
  BY <1>7, <1>8, <1>9 DEF ReadsHead
<1>11. thr'.state \in {"active", "last"} /\ (thr'.state # "last" => ~cap'.lastInit)
  BY <1>6, <1>7, <1>8
<1> QED
  BY <1>7, <1>10, <1>11 DEF ActiveStored, es

\* The newest events stay in m_events.
LEMMA ActiveKeeps ==
  ASSUME KeepInv, ReadsHead, thr.state = "active", ActiveStored(Head(sock)) PROVE KeepInv'
<1> DEFINE e == Head(sock)
           w == NewestWith(e)
<1>1. cap.alive /\ sock # <<>> /\ hist'.newest = w /\ pub' = pub
  BY DEF KeepInv, Stages, ReadsHead
<1>2. \A r \in Rid : w[r] <= pub[r]
  BY <1>1, HeadFacts
<1>3. cap'.events = Append(cap.events, e) /\ thr'.state # "init" /\ (thr'.state # "last" => ~cap'.lastInit)
  BY DEF ActiveStored
<1>4. \A r \in Rid : w[r] > 0 => Ev(r, w[r]) \in Range(cap'.events)
  BY <1>1, <1>3, NewestAppended
<1> HIDE DEF e, w
<1>5. Kept'
  BY <1>1, <1>2, <1>3, <1>4 DEF Kept, Held
<1> QED
  BY <1>3, <1>5, ReadKeeps

\* With a client that keeps to the protocol the event is the next one of its
\* publisher.
LEMMA ActiveStep ==
  ASSUME IInv, ReadsHead, thr.state = "active", ActiveStored(Head(sock)) PROVE IInv'
<1> DEFINE e == Head(sock)
           w == NewestWith(e)
           m == hist.newest[e.rid]
<1>1. KeepInv /\ KeepInv' /\ Listening /\ Ahead
  BY ActiveKeeps DEF IInv, Data, ReadsHead, Listening
<1>2. /\ thr.at = "recv" /\ sock # <<>> /\ sock' = Tail(sock) /\ hist'.newest = w /\ pub' = pub
      /\ thr'.at = "check"
  BY DEF ReadsHead
<1>3. e = sock[1] /\ 1 \in DOMAIN sock
  <2>1. sock \in Seq(Numbered)
    BY <1>1 DEF KeepInv, TypeOK
  <2> QED
    BY <2>1, <1>2, TailAt, SMT
<1>4. m = 0 \/ e.seq > m
  BY <1>1, <1>3 DEF Ahead
<1>5. cap'.events = Append(cap.events, e) /\ thr'.state # "init"
  BY DEF ActiveStored
<1>6. Contiguous(cap'.events) /\ \A i \in DOMAIN cap'.events : cap'.events[i].seq <= w[cap'.events[i].rid]
  BY <1>2, <1>4, <1>5, StoreNext
<1>7. Ahead'
  BY <1>2, ReadAhead
<1> HIDE DEF e, w
<1>8. Data'
  BY <1>2, <1>5, <1>6, <1>7 DEF Data, Cached, CacheContiguous
<1> QED
  BY <1>1, <1>8, ReadStep

\* What CAP_STATE_LAST makes of an event.
LastStored(e) ==
    /\ cap'.events = cap.events /\ cap'.lastInit = cap.lastInit /\ thr'.state = "last"
    /\ e.rid \in DOMAIN cap'.last /\ cap'.last[e.rid] = e
    /\ \A r \in DOMAIN cap.last \ {e.rid} : r \in DOMAIN cap'.last /\ cap'.last[r] = cap.last[r]

\* CAP_STATE_LAST does that, and a bad_alloc of CAP_STATE_ACTIVE.
LEMMA LastStoredFacts ==
  ASSUME KeepInv, thr.at = "recv", sock # <<>>, NEW e, e = Head(sock),
         StoreLast(e), sock' = Tail(sock), UNCHANGED <<pc, after, cli, pub>>,
         hist' = [hist EXCEPT !.newest[e.rid] = IF e.seq > @ THEN e.seq ELSE @]
  PROVE  ReadsHead /\ LastStored(e)
<1> DEFINE held == DOMAIN cap.last \union {e.rid}
           last == [r \in held |-> IF r = e.rid THEN e ELSE cap.last[r]]
           size == Cardinality(held) + IF cap.lastInit THEN 0 ELSE MaxPublishers
           miss == IF thr.overflow + 1 > size THEN cap.missed + 1 ELSE cap.missed
           over == thr.overflow + 1
<1>1. /\ cap \in Capture /\ thr \in CaptureThread
      /\ hist \in [newest : [Rid -> Nat], stock : Nat]
  BY DEF KeepInv, TypeOK
<1>2. e \in Numbered /\ e.rid \in Rid /\ NewestWith(e) \in [Rid -> Nat]
  BY HeadFacts
<1>3. DOMAIN cap.last \in SUBSET Rid /\ \A r \in DOMAIN cap.last : cap.last[r] \in Numbered
  <2>1. cap.last \in EventMap
    BY <1>1 DEF Capture
  <2> QED
    BY <2>1, EventMapAt
<1>4. /\ last \in EventMap /\ e.rid \in DOMAIN last /\ last[e.rid] = e
      /\ \A q \in DOMAIN cap.last \ {e.rid} : q \in DOMAIN last /\ last[q] = cap.last[q]
  <2>1. held \in SUBSET Rid /\ last \in [held -> Numbered]
    BY <1>2, <1>3
  <2>2. last \in EventMap
    <3> HIDE DEF held, last
    <3> QED
      BY <2>1, EventMapType
  <2> QED
    BY <2>2, <1>3
<1>5. miss \in Nat /\ over \in Nat
  BY <1>1, SMT DEF Capture, CaptureThread
<1>6. /\ cap' = [cap EXCEPT !.last = last, !.missed = miss]
      /\ thr' = [thr EXCEPT !.at = "check", !.state = "last", !.overflow = over]
  BY DEF StoreLast
<1> HIDE DEF last, miss, over
<1>7. /\ cap' \in Capture /\ cap'.events = cap.events /\ cap'.last = last /\ cap'.lastInit = cap.lastInit
      /\ cap'.alive = cap.alive /\ cap'.ctrl = cap.ctrl /\ cap'.run = cap.run
  BY <1>6, <1>4, <1>5, <1>1 DEF Capture
<1>8. thr' \in CaptureThread /\ thr'.at = "check" /\ thr'.state = "last"
  BY <1>6, <1>5, <1>1 DEF CaptureThread
<1>9. hist' \in [newest : [Rid -> Nat], stock : Nat] /\ hist'.newest = NewestWith(e)
  BY <1>1, <1>2 DEF NewestWith
<1>10. ReadsHead
  BY <1>7, <1>8, <1>9 DEF ReadsHead
<1> QED
  BY <1>4, <1>7, <1>8, <1>10 DEF LastStored

\* The event replaces an older one of its publisher: one that is not newer than
\* the newest would have been read before it.
LEMMA LastKeeps ==
  ASSUME KeepInv, ReadsHead, LastStored(Head(sock)) PROVE KeepInv'
<1> DEFINE e == Head(sock)
           w == NewestWith(e)
           m == hist.newest[e.rid]
<1>1. /\ cap.alive /\ sock # <<>> /\ sock' = Tail(sock) /\ hist'.newest = w /\ pub' = pub
      /\ cap'.alive = cap.alive /\ Kept /\ (thr.state # "last" => ~cap.lastInit)
  BY DEF KeepInv, Stages, ReadsHead
<1>2. /\ e = sock[1] /\ e = Ev(e.rid, e.seq) /\ e.rid \in Rid /\ e.seq \in Nat /\ e.seq > 0
      /\ \A r \in Rid : hist.newest[r] \in Nat
      /\ \A r \in Rid \ {e.rid} : w[r] = hist.newest[r]
      /\ w[e.rid] = IF e.seq > m THEN e.seq ELSE m
      /\ \A r \in Rid : w[r] <= pub[r]
      /\ \A i \in DOMAIN Tail(sock) : /\ Tail(sock)[i].rid = e.rid => Tail(sock)[i].seq > e.seq
                                      /\ i + 1 \in DOMAIN sock /\ Tail(sock)[i] = sock[i + 1]
  BY <1>1, HeadFacts, SMT
<1>3. 1 \in DOMAIN sock
  <2>1. sock \in Seq(Numbered)
    BY DEF KeepInv, TypeOK
  <2> QED
    BY <2>1, <1>1, TailAt, SMT
<1>4. /\ cap'.events = cap.events /\ cap'.lastInit = cap.lastInit /\ thr'.state = "last"
      /\ e.rid \in DOMAIN cap'.last /\ cap'.last[e.rid] = e
      /\ \A r \in DOMAIN cap.last \ {e.rid} : r \in DOMAIN cap'.last /\ cap'.last[r] = cap.last[r]
  BY DEF LastStored
<1> HIDE DEF e, w
<1>5. ASSUME cap.lastInit, NEW r \in Rid, w[r] > 0
      PROVE  \/ Ev(r, w[r]) \in Range(cap.events)
             \/ /\ r \in DOMAIN cap'.last /\ cap'.last[r] = Ev(r, w[r])
                /\ \A i \in DOMAIN Tail(sock) : Tail(sock)[i].rid = r => Tail(sock)[i].seq > w[r]
  <2>1. hist.newest[r] > 0 => Held(r)
    BY <1>1, <1>5 DEF Kept
  <2>2. CASE r # e.rid
    <3>1. w[r] = hist.newest[r] /\ Held(r)
      BY <2>1, <2>2, <1>2, <1>5
    <3>2. \/ Ev(r, w[r]) \in Range(cap.events)
          \/ /\ r \in DOMAIN cap.last /\ cap.last[r] = Ev(r, w[r])
             /\ \A i \in DOMAIN sock : sock[i].rid = r => sock[i].seq > w[r]
      BY <3>1 DEF Held
    <3>3. r \in DOMAIN cap.last => r \in DOMAIN cap'.last /\ cap'.last[r] = cap.last[r]
      BY <2>2, <1>4
    <3>4. (\A i \in DOMAIN sock : sock[i].rid = r => sock[i].seq > w[r])
            => \A i \in DOMAIN Tail(sock) : Tail(sock)[i].rid = r => Tail(sock)[i].seq > w[r]
      BY <1>2, SMT
    <3> QED
      BY <3>2, <3>3, <3>4
  <2>3. CASE r = e.rid /\ e.seq > m
    BY <2>3, <1>2, <1>4
  <2>4. CASE r = e.rid /\ ~(e.seq > m)
    <3>1. w[r] = m /\ m > 0 /\ Held(r)
      BY <2>1, <2>4, <1>2, SMT
    <3>2. ~(\A i \in DOMAIN sock : sock[i].rid = r => sock[i].seq > m)
      BY <2>4, <1>2, <1>3
    <3> QED
      BY <2>4, <3>1, <3>2 DEF Held
  <2> QED
    BY <2>2, <2>3, <2>4
<1>6. Kept'
  <2>1. hist'.newest = w /\ sock' = Tail(sock) /\ pub' = pub
    BY <1>1 DEF w
  <2>2. cap'.lastInit => \A r \in Rid : w[r] > 0 => Held(r)'
    <3> SUFFICES ASSUME cap.lastInit, NEW r \in Rid, w[r] > 0
                 PROVE  Held(r)'
      BY <1>4
    <3> QED
      BY <1>4, <1>5, <2>1 DEF Held
  <2> QED
    BY <1>2, <1>4, <2>1, <2>2 DEF Kept
<1> QED
  BY <1>4, <1>6, ReadKeeps

\* m_events is left alone.
LEMMA LastStep ==
  ASSUME IInv, ReadsHead, thr.state # "init", LastStored(Head(sock)) PROVE IInv'
<1>1. KeepInv'
  BY LastKeeps DEF IInv
<1>2. Ahead'
  BY ReadAhead DEF ReadsHead
<1>3. Data'
  BY <1>2 DEF IInv, Data, Cached, CacheContiguous, LastStored
<1> QED
  BY <1>1, <1>3, ReadStep

\* The three states of the capture loop.
LEMMA ThreadReadFacts ==
  ASSUME KeepInv, ThreadRead
  PROVE  /\ ReadsHead
         /\ \/ thr.state = "init" /\ InitStored(Head(sock))
            \/ thr.state = "active" /\ ActiveStored(Head(sock))
            \/ thr.state # "init" /\ LastStored(Head(sock))
BY InitStoredFacts, ActiveStoredFacts, LastStoredFacts DEF ThreadRead

-----------------------------------------------------------------------------
(* The theorems.                                                           *)

\* Every step keeps what holds whatever the client sends.
LEMMA NextKeepInv ==
  ASSUME KeepInv, [Next]_vars PROVE KeepInv'
<1>1. CASE Main
  BY <1>1, QuietKeeps, RecreateKeeps, JoinedStopKeeps
     DEF Main, QuietStep, JoinedInit
<1>2. CASE Client
  BY <1>2, QuietKeeps, RecreateKeeps, CacheStartKeeps, ConsumeKeeps
     DEF Client, QuietStep, CacheInitFresh
<1>3. CASE Thread
  <2>1. CASE ThreadStop \/ ThreadTerm
    BY <2>1, ThreadOutKeeps DEF ThreadStop, ThreadTerm
  <2>2. CASE ThreadRead
    BY <2>2, ThreadReadFacts, InitKeeps, ActiveKeeps, LastKeeps
  <2> QED
    BY <1>3, <2>1, <2>2, ThreadUpKeeps, LoopKeeps DEF Thread
<1>4. CASE ThreadError
  BY <1>4, ThreadOutKeeps DEF ThreadError
<1>5. CASE \E r \in Rid : Publish(r)
  BY <1>5, PublishKeeps
<1>6. CASE Exited \/ UNCHANGED vars
  BY <1>6, Stutter DEF Exited
<1> QED
  BY <1>1, <1>2, <1>3, <1>4, <1>5, <1>6 DEF Next

\* The inductive invariant of the capture service for requests in any order.
THEOREM CaptureInvariant == Spec => []KeepInv
<1>1. Init => KeepInv
  BY InitIInv DEF IInv
<1>2. KeepInv /\ [Next]_vars => KeepInv'
  BY NextKeepInv
<1> QED
  BY <1>1, <1>2, PTL DEF Spec

\* An overflow costs no publisher its newest event, for any CacheMax and
\* whatever the client sends, and when, unless a bad_alloc ended
\* CAP_STATE_ACTIVE.
THEOREM LatestKeptAlways == Spec => []LatestKept
<1>1. KeepInv => LatestKept
  <2> SUFFICES ASSUME KeepInv, cap.alive, thr.state = "last" => cap.lastInit,
                      NEW r \in Rid, hist.newest[r] > 0
               PROVE  Ev(r, hist.newest[r]) \in
                         Range(cap.events) \union
                             IF cap.lastInit THEN {cap.last[q] : q \in DOMAIN cap.last} ELSE {}
    BY DEF LatestKept, Ev
  <2>1. Held(r)
    BY DEF KeepInv, Kept
  <2> QED
    BY <2>1 DEF Held
<1> QED
  BY <1>1, CaptureInvariant, PTL

\* run_eventd_service's lists are there, as fields of svc.
Lists == {"fifo", "last"} \subseteq DOMAIN svc

\* No step takes the lists away.
LEMMA NextLists == ASSUME Lists, [Next]_vars PROVE Lists'
<1>1. ASSUME svc' = svc PROVE Lists'
  BY <1>1 DEF Lists
<1>2. CASE PollGiveUp
  BY <1>1, <1>2 DEF PollGiveUp, Lists
<1>3. CASE CacheInitFresh \/ JoinedInit
  BY <1>3 DEF CacheInitFresh, JoinedInit, Recreate, Lists
<1>4. CASE JoinedStop \/ JoinedDrop
  BY <1>4 DEF JoinedStop, JoinedDrop, Lists
<1>5. CASE CacheStart
  BY <1>5 DEF CacheStart, Lists
<1>6. CASE CacheRead
  BY <1>1, <1>6 DEF CacheRead, Lists
<1>7. CASE Main
  BY <1>1, <1>2, <1>3, <1>4, <1>7
     DEF Main, PollDone, BootEnds, DrainEnds, Terminated
<1>8. CASE Client
  BY <1>1, <1>3, <1>5, <1>6, <1>8
     DEF Client, CacheInit, CacheStop, Echo, Exit, Consume
<1>9. CASE Thread \/ ThreadError
  BY <1>1, <1>9
     DEF Thread, ThreadError, ThreadUp, ThreadGo, ThreadCheck, ThreadStop,
         ThreadTerm, ThreadTimeout, ThreadRead, ThreadOut
<1>10. CASE Exited \/ UNCHANGED vars \/ \E r \in Rid : Publish(r)
  BY <1>1, <1>10 DEF Exited, vars, Publish
<1> QED
  BY <1>7, <1>8, <1>9, <1>10 DEF Next

\* The capture thread is in its loop, and the main thread knows.
AtWork ==
    /\ cap.alive /\ cap \in Capture /\ thr \in CaptureThread
    /\ pc # "polling" /\ ~ThreadGone /\ cap.ctrl # INIT_CAPTURE
    /\ thr.at # "starting" /\ thr.at # "waiting"

\* What the two threads have agreed on while the capture thread is in its loop.
LEMMA WhileCapturing ==
  ASSUME KeepInv, thr.at \in {"check", "recv"} PROVE AtWork
<1>1. /\ cap \in Capture /\ thr \in CaptureThread /\ cap.alive
      /\ cap.ctrl \in {START_CAPTURE, STOP_CAPTURE}
  BY DEF KeepInv, TypeOK, Stages
<1>2. cap.ctrl # NEED_INIT /\ cap.ctrl # INIT_CAPTURE
  BY <1>1, SMT DEF START_CAPTURE, STOP_CAPTURE, NEED_INIT, INIT_CAPTURE
<1> QED
  BY <1>1, <1>2 DEF KeepInv, Stages, ThreadGone, AtWork

\* A new value of m_ctrl touches nothing of the cache.
LEMMA CtrlOnly ==
  ASSUME cap \in Capture, cap.alive, NEW v, cap' = [cap EXCEPT !.ctrl = v]
  PROVE  cap'.alive /\ cap'.events = cap.events /\ cap'.pre = cap.pre
         /\ cap'.last = cap.last
BY SMT DEF Capture

\* An event the thread reads is the first its socket holds, and stays so until
\* it is stored.
LEMMA ReadCapturing ==
  ASSUME KeepInv, ThreadRead, thr.at \in {"check", "recv"} PROVE CapturingStep
<1>w. AtWork
  BY WhileCapturing
<1>1. sock # <<>> /\ sock' = Tail(sock) /\ svc' = svc
  BY DEF ThreadRead
<1>2. \/ StoreInit(Head(sock)) \/ StoreActive(Head(sock)) \/ StoreLast(Head(sock))
  BY DEF ThreadRead
<1>3. thr'.at = "check" /\ cap'.alive
  <2>1. CASE StoreInit(Head(sock))
    BY <1>w, <2>1, SMT DEF AtWork, StoreInit, Capture, CaptureThread
  <2>2. CASE StoreActive(Head(sock))
    BY <1>w, <2>2, SMT DEF AtWork, StoreActive, Capture, CaptureThread
  <2>3. CASE StoreLast(Head(sock))
    BY <1>w, <2>3, SMT DEF AtWork, StoreLast, Capture, CaptureThread
  <2> QED
    BY <1>2, <2>1, <2>2, <2>3
<1> QED
  BY <1>1, <1>3 DEF CapturingStep

\* No step of another party disturbs the capture thread at work.
LEMMA NextCapturing ==
  ASSUME KeepInv, Lists, [Next]_vars PROVE CapturingStep
<1> SUFFICES ASSUME thr.at \in {"check", "recv"} PROVE CapturingStep
  BY DEF CapturingStep
<1>w. AtWork
  BY WhileCapturing
<1>1. ASSUME thr' = thr, cap' = cap, svc' = svc PROVE CapturingStep
  BY <1>w, <1>1 DEF AtWork, CapturingStep
<1>2. ASSUME thr' = thr, NEW v, cap' = [cap EXCEPT !.ctrl = v], svc' = svc
      PROVE  CapturingStep
  BY <1>w, <1>2, CtrlOnly DEF AtWork, CapturingStep
<1>3. CASE Main
  BY <1>w, <1>1, <1>2, <1>3
     DEF AtWork, Main, PollDone, BootEnds, PollGiveUp, DrainEnds, JoinedInit, JoinedStop,
         JoinedDrop, Terminated
<1>4. CASE CacheStart
  <2>1. thr' = thr /\ cap' = cap /\ svc' = [svc EXCEPT !.paused = @ \/ cap.alive]
    BY <1>w, <1>4 DEF AtWork, CacheStart
  <2>2. svc'.fifo = svc.fifo /\ svc'.last = svc.last
    BY <2>1, SMT DEF Lists
  <2> QED
    BY <1>w, <2>1, <2>2 DEF AtWork, CapturingStep
<1>5. CASE Client
  BY <1>w, <1>1, <1>2, <1>4, <1>5
     DEF AtWork, Client, CacheInit, CacheInitFresh, CacheStop, CacheRead, Echo, Exit, Consume
<1>6. CASE ThreadRead
  BY <1>6, ReadCapturing
<1>7. CASE ThreadStop \/ ThreadTerm \/ ThreadError
  <2>1. /\ svc' = svc /\ thr' = [thr EXCEPT !.at = "done"]
        /\ cap' = [cap EXCEPT !.run = FALSE]
    BY <1>7 DEF ThreadStop, ThreadTerm, ThreadError, ThreadOut
  <2>2. /\ thr'.at = "done" /\ cap'.alive /\ cap'.events = cap.events
        /\ cap'.pre = cap.pre /\ cap'.last = cap.last
    BY <1>w, <2>1, SMT DEF AtWork, Capture, CaptureThread
  <2> QED
    BY <1>w, <2>1, <2>2 DEF AtWork, CapturingStep
<1>8. CASE ThreadCheck \/ ThreadTimeout
  <2>1. /\ svc' = svc /\ cap' = cap
        /\ \E a \in {"check", "recv"} : thr' = [thr EXCEPT !.at = a]
    BY <1>8 DEF ThreadCheck, ThreadTimeout
  <2>2. thr'.at \in {"check", "recv"}
    BY <1>w, <2>1, SMT DEF AtWork, CaptureThread
  <2> QED
    BY <1>w, <2>1, <2>2 DEF AtWork, CapturingStep
<1>9. CASE Thread \/ ThreadError
  BY <1>w, <1>6, <1>7, <1>8, <1>9 DEF AtWork, Thread, ThreadUp, ThreadGo
<1>10. CASE Exited \/ UNCHANGED vars \/ \E r \in Rid : Publish(r)
  BY <1>1, <1>10 DEF Exited, vars, Publish
<1> QED
  BY <1>3, <1>5, <1>9, <1>10 DEF Next

\* While the capture thread is in its loop nobody replaces it, destroys or
\* fills its cache, or reads from it, whatever the client sends, and when: the
\* object that m_ctrl and the join protect needs no lock.
THEOREM UntouchedWhileCapturingAlways == Spec => UntouchedWhileCapturing
<1>1. Init => Lists
  BY DEF Init, Lists
<1>2. Lists /\ [Next]_vars => Lists'
  BY NextLists
<1>3. KeepInv /\ Lists /\ [Next]_vars => [CapturingStep]_vars
  BY NextCapturing
<1> QED
  BY <1>1, <1>2, <1>3, CaptureInvariant, PTL DEF Spec, UntouchedWhileCapturing

\* Every step keeps the invariant, as long as the client keeps to the protocol.
LEMMA NextIInv ==
  ASSUME ~AnyOrder, IInv, [Next]_vars PROVE IInv'
<1>1. CASE Main
  <2>1. CASE JoinedInit
    BY <2>1, RecreateStep DEF JoinedInit, IInv, Phases
  <2> QED
    BY <1>1, <2>1, QuietSteps, JoinedStopStep DEF Main, QuietStep
<1>2. CASE Client
  <2>1. CASE CacheInitFresh
    BY <2>1, RecreateStep DEF CacheInitFresh, Request
  <2> QED
    BY <1>2, <2>1, QuietSteps, CacheStartStep, ConsumeStep
       DEF Client, QuietStep
<1>3. CASE Thread
  <2>1. CASE ThreadStop \/ ThreadTerm
    BY <2>1, ThreadOutStep DEF ThreadStop, ThreadTerm
  <2>2. CASE ThreadRead
    BY <2>2, ThreadReadFacts, InitStep, ActiveStep, LastStep DEF IInv
  <2> QED
    BY <1>3, <2>1, <2>2, ThreadUpStep, LoopSteps DEF Thread
<1>4. CASE ThreadError
  BY <1>4, ThreadOutStep DEF ThreadError
<1>5. CASE \E r \in Rid : Publish(r)
  BY <1>5, PublishStep
<1>6. CASE Exited \/ UNCHANGED vars
  BY <1>6, Stutter DEF Exited, IInv
<1> QED
  BY <1>1, <1>2, <1>3, <1>4, <1>5, <1>6 DEF Next

\* With a client that keeps to the protocol, the cache has no hole and no
\* repetition: the hand-over between the subscription and CAP_STATE_INIT
\* neither loses nor doubles an event, however many publishers there are and
\* however the capture thread is delayed.
THEOREM CacheContiguousAlways == ~AnyOrder => (Spec => []CacheContiguous)
<1> SUFFICES ASSUME ~AnyOrder PROVE Spec => []CacheContiguous
  OBVIOUS
<1>1. IInv /\ [Next]_vars => IInv'
  BY NextIInv
<1>2. IInv => CacheContiguous
  BY DEF IInv, Data
<1> QED
  BY <1>1, <1>2, InitIInv, PTL DEF Spec
=============================================================================

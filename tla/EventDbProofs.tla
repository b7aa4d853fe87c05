---------------------------- MODULE EventDbProofs ----------------------------
(***************************************************************************)
(* EVENT_DB: how far the counters may be from the tables, that the history *)
(* is bounded, and that no sequence id or alarm is mixed up, for any number*)
(* of events, reloads, and restarts after any write.                       *)
(***************************************************************************)
EXTENDS EventDbProps, FiniteSetTheorems, TLAPS

\* A leaf is left to Zenon unless it names a prover: SMT where arithmetic is
\* needed, PTL for temporal logic.
USE Zenon

-----------------------------------------------------------------------------
(* Finite sets.                                                            *)

\* A set of sequence ids is finite, and one element changes its size by one.
LEMMA Counting ==
  ASSUME NEW S, S \subseteq 1..MaxSeq, NEW x
  PROVE  /\ Cardinality(S) \in Nat
         /\ Cardinality(S \union {x}) = Cardinality(S) + IF x \in S THEN 0 ELSE 1
         /\ Cardinality(S \ {x}) = Cardinality(S) - IF x \in S THEN 1 ELSE 0
<1>0. MaxSeq \in Int /\ 1 \in Int
  BY BoundAssumption, SMT
<1>1. IsFiniteSet(1..MaxSeq)
  BY <1>0, FS_Interval
<1>2. IsFiniteSet(S)
  BY <1>1, FS_Subset
<1>3. Cardinality(S) \in Nat
  BY <1>2, FS_CardinalityType
<1>4. Cardinality(S \union {x}) = IF x \in S THEN Cardinality(S) ELSE Cardinality(S) + 1
  BY <1>2, FS_AddElement
<1>5. Cardinality(S \ {x}) = IF x \in S THEN Cardinality(S) - 1 ELSE Cardinality(S)
  BY <1>2, FS_RemoveElement
<1> QED
  BY <1>3, <1>4, <1>5, SMT

\* A non-empty set of numbers has a smallest one, which Min returns.
LEMMA Smallest ==
  ASSUME NEW S, S \subseteq Nat, S # {}
  PROVE  Min(S) \in S /\ \A y \in S : Min(S) <= y
<1>1. PICK x \in S : \A y \in S : ~(<<y, x>> \in OpToRel(<, Nat))
  BY NatLessThanWellFounded, WFMin
<1>2. \A y \in S : ~(y < x)
  BY <1>1 DEF OpToRel
<1>3. \A y \in S : x =< y
  BY <1>2, SMT
<1> QED
  BY <1>3 DEF Min

\* A non-empty bounded set of numbers has a largest one, which Max returns.
LEMMA Largest ==
  ASSUME NEW S, S \subseteq 1..MaxSeq, S # {}
  PROVE  Max(S) \in S /\ \A y \in S : y <= Max(S)
<1> DEFINE T == {n \in Nat : \E y \in S : n = MaxSeq - y}
<1>1. PICK n \in T : \A m \in T : n <= m
  <2>1. PICK y \in S : TRUE
    OBVIOUS
  <2>2. MaxSeq - y \in T
    BY BoundAssumption, SMT
  <2>3. T \subseteq Nat /\ T # {}
    BY <2>2
  <2> QED
    BY <2>3, Smallest
<1>2. PICK x \in S : n = MaxSeq - x
  BY <1>1
<1>3. \A y \in S : x >= y
  <2> SUFFICES ASSUME NEW y \in S PROVE x >= y
    OBVIOUS
  <2>1. MaxSeq - y \in T
    BY BoundAssumption, SMT
  <2>2. n <= MaxSeq - y
    BY <1>1, <2>1
  <2> QED
    BY <1>2, <2>2, BoundAssumption, SMT
<1>4. Max(S) \in S /\ \A y \in S : Max(S) >= y
  BY <1>3 DEF Max
<1> QED
  BY <1>4, BoundAssumption, SMT

-----------------------------------------------------------------------------
(* Tables and types.                                                       *)

\* A table of rows V with keys in D.
IsTable(f, D, V) == f \in [DOMAIN f -> V] /\ DOMAIN f \subseteq D

\* What a table is with a row set, and with rows deleted.
PutFacts(f, D, V, k, v) ==
    /\ IsTable(Put(f, k, v), D, V)
    /\ DOMAIN Put(f, k, v) = DOMAIN f \union {k}
    /\ Put(f, k, v)[k] = v
    /\ \A x \in DOMAIN f : x # k => Put(f, k, v)[x] = f[x]

DelFacts(f, D, V, ks) ==
    /\ IsTable(Del(f, ks), D, V)
    /\ DOMAIN Del(f, ks) = DOMAIN f \ ks
    /\ \A x \in DOMAIN f \ ks : Del(f, ks)[x] = f[x]

\* A row is set.
LEMMA PutRow ==
  ASSUME NEW f, NEW D, NEW V, IsTable(f, D, V), NEW k \in D, NEW v \in V
  PROVE  PutFacts(f, D, V, k, v)
<1>1. DOMAIN Put(f, k, v) = DOMAIN f \union {k}
  BY DEF Put
<1>2. \A x \in DOMAIN f \union {k} : Put(f, k, v)[x] = IF x = k THEN v ELSE f[x]
  BY DEF Put
<1>3. \A x \in DOMAIN f \union {k} : Put(f, k, v)[x] \in V
  BY <1>2 DEF IsTable
<1>4. Put(f, k, v) \in [DOMAIN Put(f, k, v) -> V]
  BY <1>1, <1>3 DEF Put
<1>5. IsTable(Put(f, k, v), D, V)
  BY <1>1, <1>4 DEF IsTable
<1> QED
  BY <1>1, <1>2, <1>5 DEF PutFacts

\* Rows are deleted.
LEMMA DelRow ==
  ASSUME NEW f, NEW D, NEW V, IsTable(f, D, V), NEW ks
  PROVE  DelFacts(f, D, V, ks)
<1>1. DOMAIN Del(f, ks) = DOMAIN f \ ks
  BY DEF Del
<1>2. \A x \in DOMAIN f \ ks : Del(f, ks)[x] = f[x]
  BY DEF Del
<1>3. Del(f, ks) \in [DOMAIN Del(f, ks) -> V]
  BY <1>1, <1>2 DEF Del, IsTable
<1>4. IsTable(Del(f, ks), D, V)
  BY <1>1, <1>3 DEF IsTable
<1> QED
  BY <1>1, <1>2, <1>4 DEF DelFacts

\* The handler at work, by stage: an ACK or UNACK names a row, an id is left for
\* the record until it is given out, and only the step that is about to count an
\* alarm has something to count.
StageInv ==
    /\ job.at \in {"alarm_stats", "ack_alarm", "ack_event"} =>
         seq < MaxSeq /\ job.act # "load"
    /\ job.at \in {"ack_alarm", "ack_event"} => job.n \in 1..MaxSeq
    /\ job.at = "ack_alarm" => job.n \in DOMAIN alarms
    /\ job.at \in {"purge", "delete", "event_stats"} /\ job.act # "load" => seq >= 1
    /\ job.at = "event_stats" => job.act # "load"
    /\ job.at # "alarm_stats" => job.by = NoDelta
    /\ job.at = "delete" => heap # {}

JobType == [at : Stage, act : Action \union {"load"}, n : 0..MaxSeq,
            by : [sev : Severity \union {Absent}, d : -1..1, k : -1..1]]

TInv == TypeOK /\ StageInv

\* A handler, field by field.
JobIs(j, at, act, n, by) ==
    j \in JobType /\ j.at = at /\ j.act = act /\ j.n = n /\ j.by = by

\* The handlers that notifications set up.
LEMMA NewJob ==
  ASSUME NEW at \in Stage, NEW act \in Action, NEW n \in 0..MaxSeq,
         NEW by \in [sev : Severity \union {Absent}, d : -1..1, k : -1..1]
  PROVE  JobIs(Handler(at, act, n, by), at, act, n, by)
BY DEF Handler, JobType, JobIs

\* The differences of the alarm statistics.
LEMMA Deltas ==
  /\ \A s \in Severity \union {Absent}, d, k \in -1..1 :
       /\ Delta(s, d, k) \in [sev : Severity \union {Absent}, d : -1..1, k : -1..1]
       /\ Delta(s, d, k).sev = s /\ Delta(s, d, k).d = d /\ Delta(s, d, k).k = k
  /\ NoDelta \in [sev : Severity \union {Absent}, d : -1..1, k : -1..1]
  /\ NoDelta.sev = Absent /\ NoDelta.d = 0 /\ NoDelta.k = 0
  /\ 0 \in -1..1 /\ 1 \in -1..1 /\ -1 \in -1..1
<1>1. 0 \in -1..1 /\ 1 \in -1..1 /\ -1 \in -1..1
  BY SMT
<1>2. \A s \in Severity \union {Absent}, d, k \in -1..1 :
       /\ Delta(s, d, k) \in [sev : Severity \union {Absent}, d : -1..1, k : -1..1]
       /\ Delta(s, d, k).sev = s /\ Delta(s, d, k).d = d /\ Delta(s, d, k).k = k
  BY DEF Delta
<1>3. /\ NoDelta \in [sev : Severity \union {Absent}, d : -1..1, k : -1..1]
      /\ NoDelta.sev = Absent /\ NoDelta.d = 0 /\ NoDelta.k = 0
  BY <1>1 DEF NoDelta, Delta
<1> QED
  BY <1>1, <1>2, <1>3

\* The two handlers without a notification.
LEMMA IdleType ==
  /\ Idle \in JobType /\ Idle.at = "idle" /\ Idle.by = NoDelta /\ Idle.act = ""
  /\ Load \in JobType /\ Load.at = "purge" /\ Load.by = NoDelta /\ Load.act = "load"
  /\ Absent \in Severity \union {Absent} /\ 0 \in -1..1 /\ 1 \in -1..1 /\ -1 \in -1..1
  /\ 0 \in 0..MaxSeq /\ NoDelta = Delta(Absent, 0, 0)
  /\ NoDelta.sev = Absent /\ NoDelta.d = 0 /\ NoDelta.k = 0
<1>1. 0 \in -1..1 /\ 1 \in -1..1 /\ -1 \in -1..1 /\ 0 \in 0..MaxSeq
  BY BoundAssumption, SMT
<1>2. "idle" \in Stage /\ "purge" \in Stage /\ "" \in Action
  BY DEF Stage, Action
<1> QED
  BY <1>1, <1>2 DEF Idle, Load, Handler, JobType, NoDelta, Delta

\* A handler that moves on to another stage.
LEMMA MoveType ==
  ASSUME NEW j \in JobType, NEW at \in Stage
  PROVE  /\ [j EXCEPT !.at = at] \in JobType
         /\ [j EXCEPT !.at = at].at = at /\ [j EXCEPT !.at = at].act = j.act
         /\ [j EXCEPT !.at = at].n = j.n /\ [j EXCEPT !.at = at].by = j.by
BY DEF JobType

\* The alarm statistics keep their type.
LEMMA AlarmStatsType ==
  ASSUME ast \in [alarms : Int, acknowledged : Int, sev : [Severity -> Int]],
         NEW b \in [sev : Severity \union {Absent}, d : -1..1, k : -1..1]
  PROVE  /\ AlarmStats(b) \in [alarms : Int, acknowledged : Int, sev : [Severity -> Int]]
         /\ AlarmStats(b).alarms = ast.alarms + b.d
         /\ AlarmStats(b).acknowledged = ast.acknowledged + b.k
         /\ \A s \in Severity :
              AlarmStats(b).sev[s] = ast.sev[s] + IF s = b.sev THEN b.d ELSE 0
<1>1. b.d \in Int /\ b.k \in Int /\ ast.alarms \in Int /\ ast.acknowledged \in Int
      /\ ast.sev \in [Severity -> Int]
  BY SMT
<1>2. \A s \in Severity : ast.sev[s] + (IF s = b.sev THEN b.d ELSE 0) \in Int
  BY <1>1, SMT
<1>3. ast.alarms + b.d \in Int /\ ast.acknowledged + b.k \in Int
  BY <1>1, SMT
<1> QED
  BY <1>2, <1>3 DEF AlarmStats

\* The event statistics keep their type.
LEMMA EventStatsType ==
  ASSUME est \in [events : Int, raised : Int, cleared : Int, acked : Int],
         NEW d \in -1..1, NEW act, NEW isAck \in BOOLEAN
  PROVE  /\ EventStats(d, act, isAck) \in [events : Int, raised : Int, cleared : Int, acked : Int]
         /\ EventStats(d, act, isAck).events = est.events + d
         /\ EventStats(d, act, isAck).raised = est.raised + IF act = "RAISE" THEN d ELSE 0
         /\ EventStats(d, act, isAck).cleared = est.cleared + IF act = "CLEAR" THEN d ELSE 0
         /\ EventStats(d, act, isAck).acked = est.acked + IF isAck THEN d ELSE 0
<1>1. d \in Int /\ est.events \in Int /\ est.raised \in Int /\ est.cleared \in Int
      /\ est.acked \in Int
  BY SMT
<1>2. /\ est.events + d \in Int
      /\ est.raised + (IF act = "RAISE" THEN d ELSE 0) \in Int
      /\ est.cleared + (IF act = "CLEAR" THEN d ELSE 0) \in Int
      /\ est.acked + (IF isAck THEN d ELSE 0) \in Int
  BY <1>1, SMT
<1> QED
  BY <1>2 DEF EventStats

\* The tables when a row is set or deleted.
LEMMA Tables ==
  ASSUME TInv
  PROVE  /\ IsTable(alarms, 1..MaxSeq, Alarm) /\ IsTable(history, 1..MaxSeq, Row)
         /\ IsTable(lookup, Key, 1..MaxSeq)
         /\ \A k \in 1..MaxSeq : \A v \in Alarm : PutFacts(alarms, 1..MaxSeq, Alarm, k, v)
         /\ \A k \in 1..MaxSeq : \A v \in Row : PutFacts(history, 1..MaxSeq, Row, k, v)
         /\ \A k \in Key : \A v \in 1..MaxSeq : PutFacts(lookup, Key, 1..MaxSeq, k, v)
         /\ \A K : DelFacts(alarms, 1..MaxSeq, Alarm, K)
         /\ \A K : DelFacts(history, 1..MaxSeq, Row, K)
         /\ \A K : DelFacts(lookup, Key, 1..MaxSeq, K)
<1>1. IsTable(alarms, 1..MaxSeq, Alarm) /\ IsTable(history, 1..MaxSeq, Row)
      /\ IsTable(lookup, Key, 1..MaxSeq)
  BY DEF TInv, TypeOK, IsTable
<1>2. /\ \A k \in 1..MaxSeq : \A v \in Alarm : PutFacts(alarms, 1..MaxSeq, Alarm, k, v)
      /\ \A k \in 1..MaxSeq : \A v \in Row : PutFacts(history, 1..MaxSeq, Row, k, v)
      /\ \A k \in Key : \A v \in 1..MaxSeq : PutFacts(lookup, Key, 1..MaxSeq, k, v)
  BY <1>1, PutRow
<1>3. /\ \A K : DelFacts(alarms, 1..MaxSeq, Alarm, K)
      /\ \A K : DelFacts(history, 1..MaxSeq, Row, K)
      /\ \A K : DelFacts(lookup, Key, 1..MaxSeq, K)
  BY <1>1, DelRow
<1> QED
  BY <1>1, <1>2, <1>3

\* The numbers.
LEMMA Numbers ==
  ASSUME TInv
  PROVE  slips \in Nat /\ torn \in Nat /\ seq \in 0..MaxSeq /\ heap \subseteq 1..MaxSeq
BY DEF TInv, TypeOK

\* A count that may go up by one.
LEMMA OneMore ==
  ASSUME NEW m \in Nat, NEW n, n = m + 1 \/ n = m + 0
  PROVE  n \in Nat
BY SMT

\* The ids that are given out are within the bound.
LEMMA NextId ==
  ASSUME TInv, seq < MaxSeq
  PROVE  seq + 1 \in 1..MaxSeq /\ seq + 1 \in 0..MaxSeq /\ seq + 1 >= 1
BY Numbers, BoundAssumption, SMT

\* The tables and the handler keep their types in the steps of a notification
\* that arrives.
LEMMA ArriveType ==
  ASSUME TInv, NEW t \in Type, NEW x \in Source,
         \/ Plain(t, x) \/ Raise(t, x) \/ Clear(t, x) \/ ClearUnknown(t, x)
         \/ \E act \in {"", "RAISE", "CLEAR"} : Discard(t, x, act)
  PROVE  TInv'
<1> DEFINE key == <<t, x>>
<1>0. key \in Key
  BY DEF Key
<1>j. JobType = [at : Stage, act : Action \union {"load"}, n : 0..MaxSeq,
                 by : [sev : Severity \union {Absent}, d : -1..1, k : -1..1]]
  BY DEF JobType
<1>s. 0 \in 0..MaxSeq /\ "purge" \in Stage /\ "alarm_stats" \in Stage /\ "" \in Action
      /\ "RAISE" \in Action /\ "CLEAR" \in Action
  BY IdleType DEF Stage, Action
<1>1. CASE Plain(t, x)
  <2>1. seq < MaxSeq /\ seq' = seq + 1 /\ job' = Handler("purge", "", 0, NoDelta)
        /\ UNCHANGED <<history, alarms, est, ast, lookup, heap, profile, count, slips, torn>>
    BY <1>1 DEF Plain, Receive, dbVars, cfgVars, histVars
  <2>2. JobIs(job', "purge", "", 0, NoDelta)
    BY <2>1, <1>s, NewJob, Deltas
  <2>3. seq' \in 0..MaxSeq /\ seq' >= 1
    BY <2>1, NextId
  <2> QED
    BY <2>1, <2>2, <2>3, <1>j DEF TInv, TypeOK, StageInv, IsTable, JobIs
<1>2. CASE Raise(t, x)
  <2>1. /\ seq < MaxSeq /\ profile[t] \in Severity
        /\ lookup' = IF key \in DOMAIN lookup THEN lookup ELSE Put(lookup, key, seq + 1)
        /\ alarms' = Put(alarms, seq + 1, [key |-> key, sev |-> profile[t], ack |-> FALSE])
        /\ job' = Handler("alarm_stats", "RAISE", 0, Delta(profile[t], 1, 0))
        /\ slips' = slips + IF seq + 1 \in DOMAIN alarms THEN 1 ELSE 0
        /\ UNCHANGED <<history, est, ast, heap, seq, profile, count, torn>>
    BY <1>2 DEF Raise, Receive, Known, cfgVars
  <2>2. JobIs(job', "alarm_stats", "RAISE", 0, Delta(profile[t], 1, 0))
    <3>1. Delta(profile[t], 1, 0) \in [sev : Severity \union {Absent}, d : -1..1, k : -1..1]
      BY <2>1, Deltas
    <3> QED
      BY <2>1, <3>1, <1>s, NewJob
  <2>3. [key |-> key, sev |-> profile[t], ack |-> FALSE] \in Alarm
    BY <2>1, <1>0 DEF Alarm
  <2>4. IsTable(alarms', 1..MaxSeq, Alarm)
    <3>1. seq + 1 \in 1..MaxSeq
      BY <2>1, NextId
    <3> QED
      BY <2>1, <2>3, <3>1, Tables DEF PutFacts, DelFacts
  <2>5. IsTable(lookup', Key, 1..MaxSeq)
    <3>1. seq + 1 \in 1..MaxSeq
      BY <2>1, NextId
    <3>2. CASE key \in DOMAIN lookup
      BY <2>1, <3>2, Tables DEF PutFacts, DelFacts
    <3>3. CASE key \notin DOMAIN lookup
      BY <2>1, <1>0, <3>1, <3>3, Tables DEF PutFacts, DelFacts
    <3> QED
      BY <3>2, <3>3
  <2>6. slips' \in Nat
    <3>1. slips' = slips + 1 \/ slips' = slips + 0
      BY <2>1
    <3> QED
      BY <3>1, Numbers, OneMore
  <2> QED
    BY <2>1, <2>2, <2>4, <2>5, <2>6, <1>j DEF TInv, TypeOK, StageInv, IsTable, JobIs
<1>3. CASE Clear(t, x)
  <2> DEFINE ack == lookup[key] \in DOMAIN alarms /\ alarms[lookup[key]].ack
  <2>1. /\ seq < MaxSeq /\ profile[t] \in Severity
        /\ lookup' = Del(lookup, {key})
        /\ alarms' = Del(alarms, {lookup[key]})
        /\ \/ job' = Handler("alarm_stats", "CLEAR", 0, Delta(Absent, 0, -1))
           \/ job' = Handler("alarm_stats", "CLEAR", 0, Delta(profile[t], -1, 0))
        /\ slips' = slips + 0 \/ slips' = slips + 1
        /\ UNCHANGED <<history, est, ast, heap, seq, profile, count, torn>>
    BY <1>3 DEF Clear, Receive, Known, cfgVars
  <2>2. \/ JobIs(job', "alarm_stats", "CLEAR", 0, Delta(Absent, 0, -1))
        \/ JobIs(job', "alarm_stats", "CLEAR", 0, Delta(profile[t], -1, 0))
    <3>1. /\ Delta(profile[t], -1, 0) \in [sev : Severity \union {Absent}, d : -1..1, k : -1..1]
          /\ Delta(Absent, 0, -1) \in [sev : Severity \union {Absent}, d : -1..1, k : -1..1]
      BY <2>1, Deltas
    <3> QED
      BY <2>1, <3>1, <1>s, NewJob
  <2>4. IsTable(alarms', 1..MaxSeq, Alarm)
    BY <2>1, Tables DEF PutFacts, DelFacts
  <2>5. IsTable(lookup', Key, 1..MaxSeq)
    BY <2>1, Tables DEF PutFacts, DelFacts
  <2>6. slips' \in Nat
    <3>1. slips' = slips + 1 \/ slips' = slips + 0
      BY <2>1
    <3> QED
      BY <3>1, Numbers, OneMore
  <2> QED
    BY <2>1, <2>2, <2>4, <2>5, <2>6, <1>j DEF TInv, TypeOK, StageInv, IsTable, JobIs
<1>4. CASE ClearUnknown(t, x) \/ \E act \in {"", "RAISE", "CLEAR"} : Discard(t, x, act)
  <2>1. UNCHANGED <<history, alarms, est, ast, lookup, heap, seq, job, profile, count,
                    slips, torn>>
    BY <1>4 DEF ClearUnknown, Discard, dbVars, cfgVars, histVars
  <2> QED
    BY <2>1 DEF TInv, TypeOK, StageInv, IsTable
<1> QED
  BY <1>1, <1>2, <1>3, <1>4

\* Also when it names an alarm by its id.
LEMMA AckType ==
  ASSUME TInv, NEW t \in Type, NEW n \in 1..MaxSeq,
         \/ Acknowledge(t, n) \/ Unacknowledge(t, n)
         \/ \E act \in {"ACK", "UNACK"} : Discard(t, n, act)
  PROVE  TInv'
<1>j. JobType = [at : Stage, act : Action \union {"load"}, n : 0..MaxSeq,
                 by : [sev : Severity \union {Absent}, d : -1..1, k : -1..1]]
  BY DEF JobType
<1>s. "ack_alarm" \in Stage /\ "ACK" \in Action /\ "UNACK" \in Action /\ n \in 0..MaxSeq
  BY BoundAssumption, SMT DEF Stage, Action
<1>1. UNCHANGED <<history, alarms, est, lookup, heap, seq, profile, count, slips, torn>>
  BY DEF Acknowledge, Unacknowledge, Discard, dbVars, cfgVars, histVars
<1>2. \/ UNCHANGED <<ast, job>>
      \/ /\ n \in DOMAIN alarms /\ seq < MaxSeq
         /\ \/ /\ ast' = AlarmStats(Delta(alarms[n].sev, -1, 1))
               /\ job' = Handler("ack_alarm", "ACK", n, NoDelta)
            \/ /\ ast' = AlarmStats(Delta(alarms[n].sev, 1, -1))
               /\ job' = Handler("ack_alarm", "UNACK", n, NoDelta)
  BY DEF Acknowledge, Unacknowledge, Discard, Receive, dbVars
<1>3. CASE UNCHANGED <<ast, job>>
  BY <1>1, <1>3 DEF TInv, TypeOK, StageInv, IsTable
<1>4. CASE n \in DOMAIN alarms /\ seq < MaxSeq
         /\ \/ /\ ast' = AlarmStats(Delta(alarms[n].sev, -1, 1))
               /\ job' = Handler("ack_alarm", "ACK", n, NoDelta)
            \/ /\ ast' = AlarmStats(Delta(alarms[n].sev, 1, -1))
               /\ job' = Handler("ack_alarm", "UNACK", n, NoDelta)
  <2>1. alarms[n].sev \in Severity \union {Absent}
    BY <1>4 DEF TInv, TypeOK, Alarm
  <2>2. \/ JobIs(job', "ack_alarm", "ACK", n, NoDelta)
        \/ JobIs(job', "ack_alarm", "UNACK", n, NoDelta)
    <3>1. NoDelta \in [sev : Severity \union {Absent}, d : -1..1, k : -1..1]
      BY Deltas
    <3> QED
      BY <1>4, <3>1, <1>s, NewJob
  <2>3. ast' \in [alarms : Int, acknowledged : Int, sev : [Severity -> Int]]
    <3>1. /\ Delta(alarms[n].sev, -1, 1) \in [sev : Severity \union {Absent}, d : -1..1, k : -1..1]
          /\ Delta(alarms[n].sev, 1, -1) \in [sev : Severity \union {Absent}, d : -1..1, k : -1..1]
      BY <2>1, Deltas
    <3>2. ast \in [alarms : Int, acknowledged : Int, sev : [Severity -> Int]]
      BY DEF TInv, TypeOK
    <3>3. /\ AlarmStats(Delta(alarms[n].sev, -1, 1)) \in
               [alarms : Int, acknowledged : Int, sev : [Severity -> Int]]
          /\ AlarmStats(Delta(alarms[n].sev, 1, -1)) \in
               [alarms : Int, acknowledged : Int, sev : [Severity -> Int]]
      BY <3>1, <3>2, AlarmStatsType
    <3> QED
      BY <1>4, <3>3
  <2> QED
    BY <1>1, <1>4, <2>2, <2>3, <1>j DEF TInv, TypeOK, StageInv, IsTable, JobIs
<1> QED
  BY <1>2, <1>3, <1>4

\* And in the steps that follow.
LEMMA WorkType ==
  ASSUME TInv, CountAlarm \/ AckAlarm \/ AckEvent
  PROVE  TInv'
<1>j. JobType = [at : Stage, act : Action \union {"load"}, n : 0..MaxSeq,
                 by : [sev : Severity \union {Absent}, d : -1..1, k : -1..1]]
  BY DEF JobType
<1>s. 0 \in 0..MaxSeq /\ "purge" \in Stage /\ "ack_event" \in Stage
  BY IdleType DEF Stage
<1>t. job \in JobType /\ job.act \in Action \union {"load"}
  BY <1>j DEF TInv, TypeOK
<1>1. CASE CountAlarm
  <2>1. /\ job.at = "alarm_stats" /\ ast' = AlarmStats(job.by) /\ seq' = seq + 1
        /\ job' = Handler("purge", job.act, 0, NoDelta)
        /\ UNCHANGED <<history, alarms, est, lookup, heap, profile, count, slips, torn>>
    BY <1>1 DEF CountAlarm, cfgVars, histVars
  <2>2. JobIs(job', "purge", job.act, 0, NoDelta)
    <3>1. job.act \in Action
      BY <2>1, <1>t DEF TInv, StageInv
    <3> QED
      BY <2>1, <1>s, <3>1, NewJob, Deltas
  <2>3. seq' \in 0..MaxSeq /\ seq' >= 1
    BY <2>1, NextId DEF TInv, StageInv
  <2>4. ast' \in [alarms : Int, acknowledged : Int, sev : [Severity -> Int]]
    BY <2>1, AlarmStatsType DEF TInv, TypeOK
  <2> QED
    BY <2>1, <2>2, <2>3, <2>4, <1>j DEF TInv, TypeOK, StageInv, IsTable, JobIs
<1>2. CASE AckAlarm
  <2>1. /\ job.at = "ack_alarm" /\ alarms' = [alarms EXCEPT ![job.n].ack = (job.act = "ACK")]
        /\ job' = [job EXCEPT !.at = "ack_event"]
        /\ UNCHANGED <<history, est, ast, lookup, heap, seq, profile, count, slips, torn>>
    BY <1>2 DEF AckAlarm, memVars, cfgVars, histVars
  <2>2. job' \in JobType /\ job'.at = "ack_event" /\ job'.by = job.by /\ job'.n = job.n
        /\ job'.act = job.act
    BY <2>1, <1>s, <1>t, MoveType
  <2>3. alarms' \in [DOMAIN alarms' -> Alarm] /\ DOMAIN alarms' = DOMAIN alarms
    <3>1. \A a \in Alarm, b \in BOOLEAN : [a EXCEPT !.ack = b] \in Alarm
      BY DEF Alarm
    <3>2. (job.act = "ACK") \in BOOLEAN
      OBVIOUS
    <3>3. alarms' \in [DOMAIN alarms -> Alarm]
      BY <2>1, <3>1, <3>2 DEF TInv, TypeOK
    <3> QED
      BY <3>3, <2>1
  <2> QED
    BY <2>1, <2>2, <2>3, <1>j DEF TInv, TypeOK, StageInv, IsTable, JobIs
<1>3. CASE AckEvent
  <2> DEFINE n == job.n
             row == [timed |-> n \in DOMAIN history /\ history[n].timed,
                     act   |-> IF n \in DOMAIN history THEN history[n].act ELSE "",
                     ack   |-> IF job.act = "ACK" THEN "true" ELSE "false"]
  <2>1. /\ job.at = "ack_event" /\ history' = Put(history, n, row) /\ seq' = seq + 1
        /\ job' = Handler("purge", job.act, 0, NoDelta)
        /\ UNCHANGED <<alarms, est, ast, lookup, heap, profile, count, slips, torn>>
    BY <1>3 DEF AckEvent, cfgVars, histVars
  <2>2. JobIs(job', "purge", job.act, 0, NoDelta)
    <3>1. job.act \in Action
      BY <2>1, <1>t DEF TInv, StageInv
    <3> QED
      BY <2>1, <1>s, <3>1, NewJob, Deltas
  <2>3. seq' \in 0..MaxSeq /\ seq' >= 1
    BY <2>1, NextId DEF TInv, StageInv
  <2>4. row \in Row
    <3>1. \A r \in Row : r.timed \in BOOLEAN /\ r.act \in Action
      BY DEF Row
    <3>2. "" \in Action
      BY DEF Action
    <3> QED
      BY <3>1, <3>2 DEF Row, TInv, TypeOK
  <2>5. n \in 1..MaxSeq
    BY <2>1 DEF TInv, StageInv
  <2> HIDE DEF row, n
  <2>6. IsTable(history', 1..MaxSeq, Row)
    BY <2>1, <2>4, <2>5, Tables DEF PutFacts, DelFacts
  <2> QED
    BY <2>1, <2>2, <2>3, <2>6, <1>j DEF TInv, TypeOK, StageInv, IsTable, JobIs
<1> QED
  BY <1>1, <1>2, <1>3

\* And in the purge and at the end of a notification.
LEMMA EndType ==
  ASSUME TInv, PurgeStats \/ PurgeDelete \/ Loaded \/ Store \/ CountEvent
  PROVE  TInv'
<1>j. JobType = [at : Stage, act : Action \union {"load"}, n : 0..MaxSeq,
                 by : [sev : Severity \union {Absent}, d : -1..1, k : -1..1]]
  BY DEF JobType
<1>s. "purge" \in Stage /\ "delete" \in Stage /\ "event_stats" \in Stage
  BY DEF Stage
<1>t. job \in JobType /\ job.act \in Action \union {"load"}
  BY <1>j DEF TInv, TypeOK
<1>e. est \in [events : Int, raised : Int, cleared : Int, acked : Int]
  BY DEF TInv, TypeOK
<1>1. CASE PurgeStats
  <2> DEFINE rec == history[Oldest]
  <2>1. /\ job.at = "purge" /\ heap # {} /\ est' = EventStats(-1, rec.act, rec.ack = "true")
        /\ job' = [job EXCEPT !.at = "delete"]
        /\ UNCHANGED <<history, alarms, ast, lookup, heap, seq, profile, count, slips, torn>>
    BY <1>1 DEF PurgeStats, memVars, cfgVars, histVars
  <2>2. JobIs(job', "delete", job.act, job.n, job.by)
    BY <2>1, <1>s, <1>t, MoveType DEF JobIs
  <2>3. est' \in [events : Int, raised : Int, cleared : Int, acked : Int]
    BY <2>1, <1>e, EventStatsType, Deltas
  <2> QED
    BY <2>1, <2>2, <2>3, <1>j DEF TInv, TypeOK, StageInv, JobIs
<1>2. CASE PurgeDelete
  <2>1. /\ job.at = "delete" /\ history' = Del(history, {Oldest}) /\ heap' = heap \ {Oldest}
        /\ job' = [job EXCEPT !.at = "purge"]
        /\ UNCHANGED <<alarms, est, ast, lookup, seq, profile, count, slips, torn>>
    BY <1>2 DEF PurgeDelete, cfgVars, histVars
  <2>2. JobIs(job', "purge", job.act, job.n, job.by)
    BY <2>1, <1>s, <1>t, MoveType DEF JobIs
  <2>3. IsTable(history', 1..MaxSeq, Row)
    BY <2>1, Tables DEF DelFacts
  <2>4. heap' \subseteq 1..MaxSeq
    BY <2>1, Numbers
  <2> QED
    BY <2>1, <2>2, <2>3, <2>4, <1>j DEF TInv, TypeOK, StageInv, JobIs, IsTable
<1>3. CASE Loaded
  <2>1. /\ job' = Idle
        /\ UNCHANGED <<history, alarms, est, ast, lookup, heap, seq, profile, count, slips, torn>>
    BY <1>3 DEF Loaded, dbVars, memVars, cfgVars, histVars
  <2> QED
    BY <2>1, <1>j, IdleType DEF TInv, TypeOK, StageInv
<1>4. CASE Store
  <2> DEFINE old == IF seq \in DOMAIN history THEN history[seq].ack ELSE "none"
             row == [timed |-> TRUE, act |-> job.act,
                     ack |-> IF job.act = "RAISE" THEN "false" ELSE old]
  <2>1. /\ job.at = "purge" /\ job.act # "load" /\ history' = Put(history, seq, row)
        /\ heap' = heap \union {seq} /\ job' = [job EXCEPT !.at = "event_stats"]
        /\ UNCHANGED <<alarms, est, ast, lookup, seq, profile, count, slips, torn>>
    BY <1>4 DEF Store, cfgVars, histVars
  <2>2. JobIs(job', "event_stats", job.act, job.n, job.by)
    BY <2>1, <1>s, <1>t, MoveType DEF JobIs
  <2>3. seq \in 1..MaxSeq
    <3>1. seq >= 1
      BY <2>1 DEF TInv, StageInv
    <3> QED
      BY <3>1, Numbers, BoundAssumption, SMT
  <2>4. row \in Row
    <3>1. \A r \in Row : r.ack \in {"none", "true", "false"}
      BY DEF Row
    <3>2. old \in {"none", "true", "false"}
      BY <3>1 DEF TInv, TypeOK
    <3>3. job.act \in Action
      BY <2>1, <1>t
    <3> QED
      BY <3>2, <3>3 DEF Row
  <2> HIDE DEF row
  <2>5. IsTable(history', 1..MaxSeq, Row)
    BY <2>1, <2>3, <2>4, Tables DEF PutFacts
  <2>6. heap' \subseteq 1..MaxSeq
    BY <2>1, <2>3, Numbers
  <2> QED
    BY <2>1, <2>2, <2>5, <2>6, <1>j DEF TInv, TypeOK, StageInv, JobIs, IsTable
<1>5. CASE CountEvent
  <2>1. /\ est' = EventStats(1, job.act, job.act = "ACK") /\ job' = Idle
        /\ UNCHANGED <<history, alarms, ast, lookup, heap, seq, profile, count, slips, torn>>
    BY <1>5 DEF CountEvent, memVars, cfgVars, histVars
  <2>3. est' \in [events : Int, raised : Int, cleared : Int, acked : Int]
    BY <2>1, <1>e, EventStatsType, Deltas
  <2> QED
    BY <2>1, <2>3, <1>j, IdleType DEF TInv, TypeOK, StageInv
<1> QED
  BY <1>1, <1>2, <1>3, <1>4, <1>5

\* And with a reload or a restart.
LEMMA LoadType ==
  ASSUME TInv, NEW c \in Records, NEW p \in Profiles, Reload(c, p) \/ Restart(c, p)
  PROVE  TInv'
<1>j. JobType = [at : Stage, act : Action \union {"load"}, n : 0..MaxSeq,
                 by : [sev : Severity \union {Absent}, d : -1..1, k : -1..1]]
  BY DEF JobType
<1>1. CASE Reload(c, p)
  <2>1. /\ job' = Load /\ count' = c /\ profile' = p
        /\ UNCHANGED <<history, alarms, est, ast, lookup, heap, seq, slips, torn>>
    BY <1>1 DEF Reload, dbVars, memVars, histVars
  <2> QED
    BY <2>1, <1>j, IdleType DEF TInv, TypeOK, StageInv
<1>2. CASE Restart(c, p)
  <2>1. /\ job' = Load /\ count' = c /\ profile' = p /\ lookup' = NoMap /\ heap' = Stored
        /\ seq' = IF Stored = {} THEN 0 ELSE Max(Stored)
        /\ slips' = slips + 1 \/ slips' = slips + 0
        /\ torn' = torn + 1 \/ torn' = torn + 0
        /\ UNCHANGED <<history, alarms, est, ast>>
    BY <1>2 DEF Restart, dbVars
  <2>2. Stored \subseteq 1..MaxSeq
    BY Tables DEF Stored, IsTable
  <2>3. seq' \in 0..MaxSeq
    <3>1. CASE Stored = {}
      BY <2>1, <3>1, IdleType
    <3>2. CASE Stored # {}
      <4>1. Max(Stored) \in 1..MaxSeq
        BY <2>2, <3>2, Largest
      <4>2. Max(Stored) \in 0..MaxSeq
        BY <4>1, BoundAssumption, SMT
      <4> QED
        BY <2>1, <3>2, <4>2
    <3> QED
      BY <3>1, <3>2
  <2>4. slips' \in Nat /\ torn' \in Nat
    BY <2>1, Numbers, OneMore
  <2>5. IsTable(lookup', Key, 1..MaxSeq)
    BY <2>1 DEF NoMap, IsTable
  <2> QED
    BY <2>1, <2>2, <2>3, <2>4, <2>5, <1>j, IdleType DEF TInv, TypeOK, StageInv, IsTable
<1> QED
  BY <1>1, <1>2

\* The initial state.
LEMMA InitType == Init => TInv
<1> SUFFICES ASSUME Init PROVE TInv
  OBVIOUS
<1>1. /\ IsTable(history, 1..MaxSeq, Row) /\ IsTable(alarms, 1..MaxSeq, Alarm)
      /\ IsTable(lookup, Key, 1..MaxSeq)
  BY DEF Init, NoMap, IsTable
<1>2. job = Idle /\ heap = {} /\ seq = 0 /\ slips = 0 /\ torn = 0 /\ profile \in Profiles
      /\ count \in Records
      /\ est = [events |-> 0, raised |-> 0, cleared |-> 0, acked |-> 0]
      /\ ast = [alarms |-> 0, acknowledged |-> 0, sev |-> [s \in Severity |-> 0]]
  BY DEF Init
<1>3. 0 \in Int /\ 0 \in Nat
  BY SMT
<1>4. /\ est \in [events : Int, raised : Int, cleared : Int, acked : Int]
      /\ ast \in [alarms : Int, acknowledged : Int, sev : [Severity -> Int]]
  BY <1>2, <1>3
<1>5. JobType = [at : Stage, act : Action \union {"load"}, n : 0..MaxSeq,
                 by : [sev : Severity \union {Absent}, d : -1..1, k : -1..1]]
  BY DEF JobType
<1> QED
  BY <1>1, <1>2, <1>3, <1>4, <1>5, IdleType DEF TInv, TypeOK, StageInv, IsTable

\* Every step.
LEMMA NextType == TInv /\ [Next]_vars => TInv'
<1> SUFFICES ASSUME TInv, [Next]_vars PROVE TInv'
  OBVIOUS
<1>1. ASSUME NEW t \in Type, NEW x \in Source,
             \/ Plain(t, x) \/ Raise(t, x) \/ Clear(t, x) \/ ClearUnknown(t, x)
             \/ \E act \in {"", "RAISE", "CLEAR"} : Discard(t, x, act)
      PROVE  TInv'
  BY <1>1, ArriveType
<1>2. ASSUME NEW t \in Type, NEW n \in 1..MaxSeq,
             \/ Acknowledge(t, n) \/ Unacknowledge(t, n)
             \/ \E act \in {"ACK", "UNACK"} : Discard(t, n, act)
      PROVE  TInv'
  BY <1>2, AckType
<1>3. ASSUME CountAlarm \/ AckAlarm \/ AckEvent PROVE TInv'
  BY <1>3, WorkType
<1>4. ASSUME PurgeStats \/ PurgeDelete \/ Loaded \/ Store \/ CountEvent PROVE TInv'
  BY <1>4, EndType
<1>5. ASSUME NEW c \in Records, NEW p \in Profiles, Reload(c, p) \/ Restart(c, p) PROVE TInv'
  BY <1>5, LoadType
<1>6. CASE UNCHANGED vars
  <2>1. UNCHANGED <<history, alarms, est, ast, lookup, heap, seq, job, profile, count, slips, torn>>
    BY <1>6 DEF vars, dbVars, memVars, cfgVars, histVars
  <2> QED
    BY <2>1 DEF TInv, TypeOK, StageInv
<1> QED
  BY <1>1, <1>2, <1>3, <1>4, <1>5, <1>6 DEF Next

\* The types are invariant.
LEMMA TypeAlways == Spec => []TInv
<1>1. Init => TInv
  BY InitType
<1>2. TInv /\ [Next]_vars => TInv'
  BY NextType
<1> QED
  BY <1>1, <1>2, PTL DEF Spec

-----------------------------------------------------------------------------
(* The history.                                                            *)

\* The heap has the stored records and no id to come; a record that is being
\* stored has an id above them all; and when its counters are next, it is there.
HistInv ==
    /\ heap = Stored
    /\ IdsPast
    /\ job.at \in {"purge", "delete"} /\ job.act # "load" => \A n \in heap : n < seq
    /\ job.at \notin {"purge", "delete"} => Cardinality(heap) <= count
    /\ job.at = "event_stats" => seq \in heap /\ history[seq].act = job.act

\* The steps before a notification comes to the history: at most the sequence id
\* is given out.
QuietStep ==
    /\ UNCHANGED <<history, heap, count, est, torn>>
    /\ job.at \in {"idle", "alarm_stats", "ack_alarm"}
    /\ \/ seq' = seq /\ job'.at \in {"idle", "alarm_stats", "ack_alarm", "ack_event"}
       \/ seq' = seq + 1 /\ job'.at = "purge"

\* What a step does to the history.
HistStep ==
    \/ QuietStep \/ AckEvent \/ PurgeStats \/ PurgeDelete \/ Loaded \/ Store \/ CountEvent
    \/ \E c \in Records, p \in Profiles : Reload(c, p) \/ Restart(c, p)
    \/ UNCHANGED vars

\* The steps of Next, as the history sees them.
LEMMA NextHist ==
  ASSUME TInv, [Next]_vars
  PROVE  HistStep
<1>1. ASSUME NEW t \in Type, NEW x \in Source,
             \/ Plain(t, x) \/ Raise(t, x) \/ Clear(t, x) \/ ClearUnknown(t, x)
             \/ \E act \in {"", "RAISE", "CLEAR"} : Discard(t, x, act)
      PROVE  QuietStep
  <2>1. CASE Plain(t, x)
    BY <2>1 DEF Plain, Receive, QuietStep, Handler, dbVars, cfgVars, histVars
  <2>2. CASE Raise(t, x)
    BY <2>2 DEF Raise, Receive, QuietStep, Handler, cfgVars
  <2>3. CASE Clear(t, x)
    BY <2>3 DEF Clear, Receive, QuietStep, Handler, cfgVars
  <2>4. CASE ClearUnknown(t, x) \/ \E act \in {"", "RAISE", "CLEAR"} : Discard(t, x, act)
    BY <2>4 DEF ClearUnknown, Discard, Receive, QuietStep, dbVars, cfgVars, histVars
  <2> QED
    BY <1>1, <2>1, <2>2, <2>3, <2>4
<1>2. ASSUME NEW t \in Type, NEW n \in 1..MaxSeq,
             \/ Acknowledge(t, n) \/ Unacknowledge(t, n)
             \/ \E act \in {"ACK", "UNACK"} : Discard(t, n, act)
      PROVE  QuietStep
  <2>1. CASE Acknowledge(t, n)
    <3>1. /\ job.at = "idle" /\ UNCHANGED <<history, heap, count, est, torn, seq>>
          /\ job' = Handler("ack_alarm", "ACK", n, NoDelta) \/ UNCHANGED job
      BY <2>1 DEF Acknowledge, Receive, cfgVars, histVars
    <3>2. Handler("ack_alarm", "ACK", n, NoDelta).at = "ack_alarm"
      BY DEF Handler
    <3> QED
      BY <3>1, <3>2 DEF QuietStep
  <2>2. CASE Unacknowledge(t, n)
    <3>1. /\ job.at = "idle" /\ UNCHANGED <<history, heap, count, est, torn, seq>>
          /\ job' = Handler("ack_alarm", "UNACK", n, NoDelta) \/ UNCHANGED job
      BY <2>2 DEF Unacknowledge, Receive, cfgVars, histVars
    <3>2. Handler("ack_alarm", "UNACK", n, NoDelta).at = "ack_alarm"
      BY DEF Handler
    <3> QED
      BY <3>1, <3>2 DEF QuietStep
  <2>3. CASE \E act \in {"ACK", "UNACK"} : Discard(t, n, act)
    BY <2>3 DEF Discard, Receive, QuietStep, dbVars, cfgVars, histVars
  <2> QED
    BY <1>2, <2>1, <2>2, <2>3
<1>3. CASE CountAlarm
  BY <1>3 DEF CountAlarm, QuietStep, HistStep, Handler, cfgVars, histVars
<1>4. CASE AckAlarm
  <2>1. job'.at = "ack_event"
    BY <1>4 DEF AckAlarm, TInv, TypeOK
  <2> QED
    BY <1>4, <2>1 DEF AckAlarm, QuietStep, HistStep, memVars, cfgVars, histVars
<1> QED
  BY <1>1, <1>2, <1>3, <1>4 DEF Next, HistStep

\* A stage that a handler moves to, with what the handler keeps.
LEMMA Moved ==
  ASSUME TInv, NEW at \in Stage, job' = [job EXCEPT !.at = at]
  PROVE  job'.at = at /\ job'.act = job.act
BY DEF TInv, TypeOK

\* The oldest record is one of the heap.
LEMMA OldestKept ==
  ASSUME TInv, heap # {}
  PROVE  Oldest \in heap
<1>1. heap \subseteq Nat
  BY Numbers, SMT
<1> QED
  BY <1>1, Smallest DEF Oldest

\* The numbers of the history.
LEMMA HistNumbers ==
  ASSUME TInv
  PROVE  /\ count \in Nat \ {0} /\ Cardinality(heap) \in Nat /\ seq \in Nat
         /\ heap \subseteq Nat /\ DOMAIN history \subseteq 1..MaxSeq
<1>1. count \in Records
  BY DEF TInv, TypeOK
<1>2. Cardinality(heap) \in Nat
  BY Numbers, Counting
<1>3. seq \in Nat /\ heap \subseteq Nat
  BY Numbers, BoundAssumption, SMT
<1> QED
  BY <1>1, <1>2, <1>3, RecordsAssumption, Tables DEF IsTable

\* An id above those of the heap is given out.
LEMMA Above ==
  ASSUME NEW h \in SUBSET Nat, NEW m \in Nat, \A n \in h : n <= m
  PROVE  \A n \in h : n <= m + 1 /\ n < m + 1
BY SMT

\* The history keeps its invariant in every step.
LEMMA HistNext ==
  ASSUME TInv, HistInv, HistStep
  PROVE  HistInv'
<1>s. "purge" \in Stage /\ "delete" \in Stage /\ "event_stats" \in Stage
  BY DEF Stage
<1>1. CASE QuietStep
  <2>1. /\ UNCHANGED <<history, heap, count>> /\ Stored' = Stored
        /\ job.at \notin {"purge", "delete"}
    BY <1>1 DEF QuietStep, Stored
  <2>2. CASE seq' = seq /\ job'.at \in {"idle", "alarm_stats", "ack_alarm", "ack_event"}
    BY <2>1, <2>2 DEF HistInv, IdsPast
  <2>3. CASE seq' = seq + 1 /\ job'.at = "purge"
    <3>1. \A n \in heap : n <= seq + 1 /\ n < seq + 1
      BY HistNumbers, Above DEF HistInv, IdsPast
    <3> QED
      BY <2>1, <2>3, <3>1 DEF HistInv, IdsPast
  <2> QED
    BY <1>1, <2>2, <2>3 DEF QuietStep
<1>2. CASE AckEvent
  <2> DEFINE n == job.n
             row == [timed |-> n \in DOMAIN history /\ history[n].timed,
                     act   |-> IF n \in DOMAIN history THEN history[n].act ELSE "",
                     ack   |-> IF job.act = "ACK" THEN "true" ELSE "false"]
  <2>1. /\ job.at = "ack_event" /\ history' = Put(history, n, row) /\ seq' = seq + 1
        /\ job' = Handler("purge", job.act, 0, NoDelta) /\ UNCHANGED <<heap, count>>
    BY <1>2 DEF AckEvent, cfgVars
  <2>2. job'.at = "purge"
    BY <2>1 DEF Handler
  <2>3. \A m \in heap : m <= seq + 1 /\ m < seq + 1
    BY HistNumbers, Above DEF HistInv, IdsPast
  <2>4. Stored' = Stored
    <3>1. DOMAIN history' = DOMAIN history \union {n}
      BY <2>1 DEF Put
    <3>2. \A m \in DOMAIN history' : history'[m] = IF m = n THEN row ELSE history[m]
      BY <2>1 DEF Put
    <3>3. row.timed <=> n \in DOMAIN history /\ history[n].timed
      OBVIOUS
    <3> HIDE DEF row, n
    <3> QED
      BY <3>1, <3>2, <3>3 DEF Stored
  <2> QED
    BY <2>1, <2>2, <2>3, <2>4 DEF HistInv, IdsPast
<1>3. CASE PurgeStats
  <2>1. /\ job.at = "purge" /\ job' = [job EXCEPT !.at = "delete"]
        /\ UNCHANGED <<history, heap, seq, count>>
    BY <1>3 DEF PurgeStats, memVars, cfgVars
  <2>2. job'.at = "delete" /\ job'.act = job.act
    BY <2>1, <1>s, Moved
  <2> QED
    BY <2>1, <2>2 DEF HistInv, IdsPast, Stored
<1>4. CASE PurgeDelete
  <2>1. /\ job.at = "delete" /\ job' = [job EXCEPT !.at = "purge"]
        /\ history' = Del(history, {Oldest}) /\ heap' = heap \ {Oldest}
        /\ UNCHANGED <<seq, count>>
    BY <1>4 DEF PurgeDelete, cfgVars
  <2>2. job'.at = "purge" /\ job'.act = job.act
    BY <2>1, <1>s, Moved
  <2>3. Stored' = Stored \ {Oldest}
    BY <2>1 DEF Stored, Del
  <2> QED
    BY <2>1, <2>2, <2>3 DEF HistInv, IdsPast
<1>5. CASE Loaded
  <2>1. /\ Cardinality(heap) < count /\ job' = Idle /\ UNCHANGED <<history, heap, seq, count>>
    BY <1>5 DEF Loaded, CountKept, dbVars, memVars, cfgVars
  <2>2. Cardinality(heap) <= count
    BY <2>1, HistNumbers, SMT
  <2> QED
    BY <2>1, <2>2, IdleType DEF HistInv, IdsPast, Stored
<1>6. CASE Store
  <2> DEFINE row == [timed |-> TRUE, act |-> job.act,
                     ack |-> IF job.act = "RAISE" THEN "false"
                             ELSE IF seq \in DOMAIN history THEN history[seq].ack ELSE "none"]
  <2>1. /\ Cardinality(heap) < count /\ job.at = "purge" /\ job.act # "load"
        /\ history' = Put(history, seq, row) /\ heap' = heap \union {seq}
        /\ job' = [job EXCEPT !.at = "event_stats"] /\ UNCHANGED <<seq, count>>
    BY <1>6 DEF Store, CountKept, cfgVars
  <2>2. job'.at = "event_stats" /\ job'.act = job.act
    BY <2>1, <1>s, Moved
  <2>3. DOMAIN history' = DOMAIN history \union {seq} /\ history'[seq] = row
        /\ \A m \in DOMAIN history' : history'[m] = IF m = seq THEN row ELSE history[m]
    BY <2>1 DEF Put
  <2>4. row.timed = TRUE /\ row.act = job.act
    OBVIOUS
  <2> HIDE DEF row
  <2>5. Stored' = Stored \union {seq}
    BY <2>3, <2>4 DEF Stored
  <2>6. Cardinality(heap \union {seq}) <= count
    <3>1. Cardinality(heap \union {seq}) = Cardinality(heap) + IF seq \in heap THEN 0 ELSE 1
      BY Numbers, Counting
    <3>2. Cardinality(heap \union {seq}) = Cardinality(heap) + 0
          \/ Cardinality(heap \union {seq}) = Cardinality(heap) + 1
      BY <3>1
    <3> QED
      BY <3>2, <2>1, HistNumbers, SMT
  <2>7. \A n \in heap \union {seq} : n <= seq
    BY HistNumbers, SMT DEF HistInv, IdsPast
  <2> QED
    BY <2>1, <2>2, <2>3, <2>4, <2>5, <2>6, <2>7 DEF HistInv, IdsPast
<1>7. CASE CountEvent
  <2>1. /\ job.at = "event_stats" /\ job' = Idle /\ UNCHANGED <<history, heap, seq, count>>
    BY <1>7 DEF CountEvent, memVars, cfgVars
  <2> QED
    BY <2>1, IdleType DEF HistInv, IdsPast, Stored
<1>8. ASSUME NEW c \in Records, NEW p \in Profiles, Reload(c, p)
      PROVE  HistInv'
  <2>1. job' = Load /\ UNCHANGED <<history, heap, seq>>
    BY <1>8 DEF Reload, dbVars, memVars
  <2> QED
    BY <2>1, IdleType DEF HistInv, IdsPast, Stored
<1>9. ASSUME NEW c \in Records, NEW p \in Profiles, Restart(c, p)
      PROVE  HistInv'
  <2>1. /\ job' = Load /\ heap' = Stored /\ UNCHANGED history
        /\ seq' = IF Stored = {} THEN 0 ELSE Max(Stored)
    BY <1>9 DEF Restart, dbVars
  <2>2. \A n \in Stored : n <= seq'
    <3>1. CASE Stored = {}
      BY <3>1
    <3>2. CASE Stored # {}
      <4>1. Stored \subseteq 1..MaxSeq
        BY Tables DEF IsTable, Stored
      <4> QED
        BY <2>1, <3>2, <4>1, Largest
    <3> QED
      BY <3>1, <3>2
  <2> QED
    BY <2>1, <2>2, IdleType DEF HistInv, IdsPast, Stored
<1>10. CASE UNCHANGED vars
  BY <1>10 DEF HistInv, IdsPast, Stored, vars, dbVars, memVars, cfgVars
<1> QED
  BY <1>1, <1>2, <1>3, <1>4, <1>5, <1>6, <1>7, <1>8, <1>9, <1>10 DEF HistStep

\* At first the history is empty.
LEMMA InitHist == Init => TInv /\ HistInv
<1> SUFFICES ASSUME Init PROVE TInv /\ HistInv
  OBVIOUS
<1>1. TInv
  BY InitType
<1>2. heap = {} /\ history = NoMap /\ job = Idle
  BY DEF Init
<1>3. Stored = {}
  BY <1>2 DEF Stored, NoMap
<1>4. Cardinality(heap) <= count
  BY <1>1, <1>2, FS_EmptySet, HistNumbers, SMT
<1> QED
  BY <1>1, <1>2, <1>3, <1>4, IdleType DEF HistInv, IdsPast

\* The history is in order, always.
LEMMA HistAlways == Spec => [](TInv /\ HistInv)
<1>1. Init => TInv /\ HistInv
  BY InitHist
<1>2. TInv /\ HistInv /\ [Next]_vars => (TInv /\ HistInv)'
  BY NextType, NextHist, HistNext
<1> QED
  BY <1>1, <1>2, PTL DEF Spec

\* HistoryBound, for any bound, profile and number of restarts: the heap has the
\* records of the history with a time, at most max-records outside a purge.
THEOREM HistoryBoundAlways == Spec => []HistoryBound
<1>1. TInv /\ HistInv => HistoryBound
  BY DEF HistInv, HistoryBound
<1> QED
  BY <1>1, HistAlways, PTL

\* IdsPast: no record of the history has a sequence id that is still to come,
\* also when eventd restarts from whatever the purge or a crash left.
THEOREM IdsPastAlways == Spec => []IdsPast
<1>1. TInv /\ HistInv => IdsPast
  BY DEF HistInv
<1> QED
  BY <1>1, HistAlways, PTL

-----------------------------------------------------------------------------
(* The event counters.                                                     *)

\* A counter of a set that may lag by t.
Short(c, t, S) == c <= Cardinality(S) /\ Cardinality(S) <= c + t

\* A counter and its set lose an element together.
LEMMA ShortLess ==
  ASSUME NEW c \in Int, NEW t \in Nat, NEW S, S \subseteq 1..MaxSeq, NEW x, Short(c, t, S)
  PROVE  /\ x \in S => Short(c + (-1), t, S \ {x})
         /\ x \notin S => Short(c + 0, t, S \ {x})
<1>1. Cardinality(S) \in Nat
      /\ Cardinality(S \ {x}) = Cardinality(S) - IF x \in S THEN 1 ELSE 0
  BY Counting
<1>2. (x \in S => Cardinality(S \ {x}) = Cardinality(S) - 1)
      /\ (x \notin S => Cardinality(S \ {x}) = Cardinality(S) - 0)
  BY <1>1
<1> QED
  BY <1>1, <1>2, SMT DEF Short

\* They gain one.
LEMMA ShortMore ==
  ASSUME NEW c \in Int, NEW t \in Nat, NEW S, S \subseteq 1..MaxSeq, NEW x, x \notin S,
         Short(c, t, S)
  PROVE  Short(c + 1, t, S \union {x}) /\ Short(c + 0, t, S)
<1>1. Cardinality(S) \in Nat
      /\ Cardinality(S \union {x}) = Cardinality(S) + IF x \in S THEN 0 ELSE 1
  BY Counting
<1>2. Cardinality(S \union {x}) = Cardinality(S) + 1
  BY <1>1
<1> QED
  BY <1>1, <1>2, SMT DEF Short

\* One that was not counted is forgotten.
LEMMA ShortLapse ==
  ASSUME NEW c \in Int, NEW t \in Nat, NEW S, S \subseteq 1..MaxSeq, NEW x,
         Short(c, t, S \ {x})
  PROVE  Short(c, t + 1, S)
<1>1. Cardinality(S) \in Nat
      /\ Cardinality(S \ {x}) = Cardinality(S) - IF x \in S THEN 1 ELSE 0
  BY Counting
<1>2. Cardinality(S \ {x}) = Cardinality(S) - 1 \/ Cardinality(S \ {x}) = Cardinality(S) - 0
  BY <1>1
<1> QED
  BY <1>1, <1>2, SMT DEF Short

\* The record that the counters do not have: the one that is about to be deleted
\* is uncounted already, the one just stored is still to be counted.
Uncounted == IF job.at = "delete" THEN {Oldest}
             ELSE IF job.at = "event_stats" THEN {seq} ELSE {}
Going == IF job.at = "delete" THEN {Oldest} ELSE {}

\* An ACK has set the flag and is still to be counted.
AckDue == IF job.act = "ACK" /\ job.at \in {"purge", "delete", "event_stats"} THEN 1 ELSE 0

Of(S, act) == {n \in S : history[n].act = act}
Flagged == {n \in DOMAIN history : history[n].ack = "true"}

EventInv ==
    /\ Short(est.events, torn, heap \ Uncounted)
    /\ Short(est.raised, torn, Of(heap, "RAISE") \ Uncounted)
    /\ Short(est.cleared, torn, Of(heap, "CLEAR") \ Uncounted)
    /\ Cardinality(Flagged \ Going) <= est.acked + 2 * torn + AckDue

\* The sets and numbers of the event counters.
LEMMA EventNumbers ==
  ASSUME TInv
  PROVE  /\ est.events \in Int /\ est.raised \in Int /\ est.cleared \in Int /\ est.acked \in Int
         /\ torn \in Nat /\ AckDue \in {0, 1}
         /\ heap \subseteq 1..MaxSeq /\ Flagged \subseteq 1..MaxSeq
         /\ \A act : Of(heap, act) \subseteq 1..MaxSeq
<1>1. est \in [events : Int, raised : Int, cleared : Int, acked : Int] /\ torn \in Nat
      /\ heap \subseteq 1..MaxSeq
  BY DEF TInv, TypeOK
<1>2. Flagged \subseteq 1..MaxSeq
  BY HistNumbers DEF Flagged
<1> QED
  BY <1>1, <1>2 DEF AckDue, Of

\* A step that changes neither what is counted nor the counters.
LEMMA EventFrame ==
  ASSUME TInv, EventInv, UNCHANGED <<est, torn>>,
         heap' \ Uncounted' = heap \ Uncounted,
         \A act : Of(heap, act)' \ Uncounted' = Of(heap, act) \ Uncounted,
         Cardinality((Flagged \ Going)') <= Cardinality(Flagged \ Going) + (AckDue' - AckDue),
         Cardinality((Flagged \ Going)') \in Nat, AckDue' \in {0, 1}
  PROVE  EventInv'
<1>1. /\ Short(est.events, torn, heap \ Uncounted)'
      /\ Short(est.raised, torn, Of(heap, "RAISE") \ Uncounted)'
      /\ Short(est.cleared, torn, Of(heap, "CLEAR") \ Uncounted)'
  BY DEF EventInv, Short
<1>2. Cardinality(Flagged \ Going) \in Nat
  <2>1. Flagged \ Going \subseteq 1..MaxSeq
    BY EventNumbers
  <2> QED
    BY <2>1, Counting
<1>3. Cardinality(Flagged \ Going) <= est.acked + 2 * torn + AckDue
  BY DEF EventInv
<1>4. est.acked \in Int /\ torn \in Nat /\ AckDue \in {0, 1}
  BY EventNumbers
<1>5. Cardinality((Flagged \ Going)') <= est.acked + 2 * torn + AckDue'
  BY <1>2, <1>3, <1>4, SMT
<1>6. (Cardinality(Flagged \ Going) <= est.acked + 2 * torn + AckDue)'
  BY <1>5
<1> QED
  BY <1>1, <1>6 DEF EventInv

\* The flags, when a record is set or deleted.
LEMMA FlagCount ==
  ASSUME NEW S, S \subseteq 1..MaxSeq, NEW x
  PROVE  /\ Cardinality(S) \in Nat
         /\ Cardinality(S \union {x}) <= Cardinality(S) + 1
         /\ Cardinality(S \ {x}) <= Cardinality(S)
         /\ Cardinality(S) <= Cardinality(S \ {x}) + 1
         /\ Cardinality(S \ {x}) \in Nat /\ Cardinality(S \union {x}) \in Nat
<1>1. /\ Cardinality(S) \in Nat
      /\ Cardinality(S \union {x}) = Cardinality(S) + IF x \in S THEN 0 ELSE 1
      /\ Cardinality(S \ {x}) = Cardinality(S) - IF x \in S THEN 1 ELSE 0
  BY Counting
<1>2. Cardinality(S \ {x}) \in Nat
  <2>1. S \ {x} \subseteq 1..MaxSeq
    OBVIOUS
  <2> QED
    BY <2>1, Counting
<1>3. CASE x \in S
  <2>1. Cardinality(S \union {x}) = Cardinality(S) + 0 /\ Cardinality(S \ {x}) = Cardinality(S) - 1
    BY <1>1, <1>3
  <2> QED
    BY <1>1, <1>2, <2>1, SMT
<1>4. CASE x \notin S
  <2>1. Cardinality(S \union {x}) = Cardinality(S) + 1 /\ Cardinality(S \ {x}) = Cardinality(S) - 0
    BY <1>1, <1>4
  <2> QED
    BY <1>1, <1>2, <2>1, SMT
<1> QED
  BY <1>3, <1>4

\* The steps of a notification before its record.
LEMMA EventQuiet ==
  ASSUME TInv, HistInv, EventInv, QuietStep \/ AckEvent
  PROVE  EventInv'
<1>f. Flagged \subseteq 1..MaxSeq /\ Cardinality(Flagged) \in Nat
  BY EventNumbers, Counting
<1>1. CASE QuietStep
  <2>1. /\ UNCHANGED <<est, torn, heap, history>>
        /\ Uncounted = {} /\ Uncounted' = {} /\ Going = {} /\ Going' = {} /\ AckDue = 0
        /\ AckDue' \in {0, 1}
    BY <1>1 DEF QuietStep, Uncounted, Going, AckDue
  <2>2. Flagged' = Flagged /\ \A act : Of(heap, act)' = Of(heap, act)
    BY <2>1 DEF Flagged, Of
  <2>3. Flagged \ {} = Flagged
    OBVIOUS
  <2>4. Cardinality(Flagged) <= Cardinality(Flagged) + (AckDue' - 0)
    BY <1>f, <2>1, SMT
  <2>5. Cardinality((Flagged \ Going)') <= Cardinality(Flagged \ Going) + (AckDue' - AckDue)
        /\ Cardinality((Flagged \ Going)') \in Nat
    BY <1>f, <2>1, <2>2, <2>3, <2>4
  <2> QED
    BY <2>1, <2>2, <2>5, EventFrame
<1>2. CASE AckEvent
  <2> DEFINE n == job.n
             row == [timed |-> n \in DOMAIN history /\ history[n].timed,
                     act   |-> IF n \in DOMAIN history THEN history[n].act ELSE "",
                     ack   |-> IF job.act = "ACK" THEN "true" ELSE "false"]
  <2>1. /\ job.at = "ack_event" /\ history' = Put(history, n, row)
        /\ job' = Handler("purge", job.act, 0, NoDelta) /\ UNCHANGED <<heap, est, torn>>
    BY <1>2 DEF AckEvent, histVars
  <2>2. job'.at = "purge" /\ job'.act = job.act
    BY <2>1 DEF Handler
  <2>3. Uncounted = {} /\ Uncounted' = {} /\ Going = {} /\ Going' = {} /\ AckDue = 0
        /\ AckDue' = IF job.act = "ACK" THEN 1 ELSE 0
    BY <2>1, <2>2 DEF Uncounted, Going, AckDue
  <2>4. DOMAIN history' = DOMAIN history \union {n}
        /\ \A m \in DOMAIN history' : history'[m] = IF m = n THEN row ELSE history[m]
    BY <2>1 DEF Put
  <2>5. /\ n \in DOMAIN history => row.act = history[n].act
        /\ row.ack = IF job.act = "ACK" THEN "true" ELSE "false"
    OBVIOUS
  <2> HIDE DEF row, n
  <2>h. heap \subseteq DOMAIN history
    BY DEF HistInv, Stored
  <2>6. \A act : Of(heap, act)' = Of(heap, act)
    BY <2>1, <2>h, <2>4, <2>5 DEF Of
  <2>7. /\ job.act = "ACK" => Flagged' = Flagged \union {n}
        /\ job.act # "ACK" => Flagged' = Flagged \ {n}
    BY <2>4, <2>5 DEF Flagged
  <2>8. /\ Cardinality(Flagged') <= Cardinality(Flagged) + (AckDue' - 0)
        /\ Cardinality(Flagged') \in Nat
    <3>1. CASE job.act = "ACK"
      <4>1. AckDue' = 1 /\ Flagged' = Flagged \union {n}
        BY <2>3, <2>7, <3>1
      <4>2. Cardinality(Flagged \union {n}) <= Cardinality(Flagged) + 1
            /\ Cardinality(Flagged \union {n}) \in Nat
        BY <1>f, FlagCount
      <4>3. Cardinality(Flagged \union {n}) <= Cardinality(Flagged) + (1 - 0)
        BY <1>f, <4>2, SMT
      <4> QED
        BY <4>1, <4>2, <4>3
    <3>2. CASE job.act # "ACK"
      <4>1. AckDue' = 0 /\ Flagged' = Flagged \ {n}
        BY <2>3, <2>7, <3>2
      <4>2. Cardinality(Flagged \ {n}) <= Cardinality(Flagged)
            /\ Cardinality(Flagged \ {n}) \in Nat
        BY <1>f, FlagCount
      <4>3. Cardinality(Flagged \ {n}) <= Cardinality(Flagged) + (0 - 0)
        BY <1>f, <4>2, SMT
      <4> QED
        BY <4>1, <4>2, <4>3
    <3> QED
      BY <3>1, <3>2
  <2>9. Flagged \ {} = Flagged /\ Flagged' \ {} = Flagged'
    OBVIOUS
  <2>10. Cardinality((Flagged \ Going)') <= Cardinality(Flagged \ Going) + (AckDue' - AckDue)
         /\ Cardinality((Flagged \ Going)') \in Nat
    BY <2>3, <2>8, <2>9
  <2>11. AckDue' \in {0, 1}
    BY <2>3
  <2> QED
    BY <2>1, <2>3, <2>6, <2>10, <2>11, EventFrame
<1> QED
  BY <1>1, <1>2

\* A purged record is taken off the counters it was counted by.
LEMMA EventPurge ==
  ASSUME TInv, HistInv, EventInv, PurgeStats
  PROVE  EventInv'
<1> DEFINE o == Oldest
           rec == history[o]
<1>1. /\ job.at = "purge" /\ heap # {} /\ est' = EventStats(-1, rec.act, rec.ack = "true")
      /\ job' = [job EXCEPT !.at = "delete"] /\ UNCHANGED <<history, heap, torn>>
  BY DEF PurgeStats, memVars, histVars
<1>2. job'.at = "delete" /\ job'.act = job.act
  <2>1. "delete" \in Stage
    BY DEF Stage
  <2> QED
    BY <1>1, <2>1, Moved
<1>3. o \in heap /\ o \in DOMAIN history
  BY <1>1, OldestKept DEF HistInv, Stored
<1>4. Uncounted = {} /\ Going = {} /\ AckDue' = AckDue
  BY <1>1, <1>2 DEF Uncounted, Going, AckDue
<1>5. Uncounted' = {o} /\ Going' = {o}
  BY <1>1, <1>2 DEF Uncounted, Going, Oldest
<1>6. Flagged' = Flagged /\ \A act : Of(heap, act)' = Of(heap, act)
  BY <1>1 DEF Flagged, Of
<1>7. est \in [events : Int, raised : Int, cleared : Int, acked : Int]
  BY DEF TInv, TypeOK
<1>8. /\ est'.events = est.events + (-1)
      /\ est'.raised = est.raised + IF rec.act = "RAISE" THEN -1 ELSE 0
      /\ est'.cleared = est.cleared + IF rec.act = "CLEAR" THEN -1 ELSE 0
      /\ est'.acked = est.acked + IF rec.ack = "true" THEN -1 ELSE 0
  BY <1>1 DEF EventStats
<1>9. \A S : S \ {} = S
  OBVIOUS
<1>10. /\ Short(est.events, torn, heap) /\ Short(est.raised, torn, Of(heap, "RAISE"))
       /\ Short(est.cleared, torn, Of(heap, "CLEAR"))
       /\ Cardinality(Flagged) <= est.acked + 2 * torn + AckDue
  BY <1>4, <1>9 DEF EventInv
<1>11. /\ o \in Of(heap, "RAISE") <=> rec.act = "RAISE"
       /\ o \in Of(heap, "CLEAR") <=> rec.act = "CLEAR"
       /\ o \in Flagged <=> rec.ack = "true"
  BY <1>3 DEF Of, Flagged
<1> HIDE DEF o, rec
<1>12. Short(est'.events, torn, heap \ {o})
  <2>1. Short(est.events + (-1), torn, heap \ {o})
    BY <1>3, <1>10, EventNumbers, ShortLess
  <2> QED
    BY <1>8, <2>1
<1>13. Short(est'.raised, torn, Of(heap, "RAISE") \ {o})
  <2>1. /\ o \in Of(heap, "RAISE") => Short(est.raised + (-1), torn, Of(heap, "RAISE") \ {o})
        /\ o \notin Of(heap, "RAISE") => Short(est.raised + 0, torn, Of(heap, "RAISE") \ {o})
    BY <1>10, EventNumbers, ShortLess
  <2>2. CASE rec.act = "RAISE"
    BY <1>8, <1>11, <2>1, <2>2
  <2>3. CASE rec.act # "RAISE"
    BY <1>8, <1>11, <2>1, <2>3
  <2> QED
    BY <2>2, <2>3
<1>14. Short(est'.cleared, torn, Of(heap, "CLEAR") \ {o})
  <2>1. /\ o \in Of(heap, "CLEAR") => Short(est.cleared + (-1), torn, Of(heap, "CLEAR") \ {o})
        /\ o \notin Of(heap, "CLEAR") => Short(est.cleared + 0, torn, Of(heap, "CLEAR") \ {o})
    BY <1>10, EventNumbers, ShortLess
  <2>2. CASE rec.act = "CLEAR"
    BY <1>8, <1>11, <2>1, <2>2
  <2>3. CASE rec.act # "CLEAR"
    BY <1>8, <1>11, <2>1, <2>3
  <2> QED
    BY <2>2, <2>3
<1>15. Cardinality(Flagged \ {o}) <= est'.acked + 2 * torn + AckDue
  <2>1. Cardinality(Flagged) \in Nat
        /\ Cardinality(Flagged \ {o}) = Cardinality(Flagged) - IF o \in Flagged THEN 1 ELSE 0
    BY EventNumbers, Counting
  <2>2. CASE o \in Flagged
    <3>1. est'.acked = est.acked + (-1) /\ Cardinality(Flagged \ {o}) = Cardinality(Flagged) - 1
      BY <1>8, <1>11, <2>1, <2>2
    <3>2. est.acked \in Int /\ torn \in Nat /\ AckDue \in {0, 1}
      BY EventNumbers
    <3> QED
      BY <1>10, <2>1, <3>1, <3>2, SMT
  <2>3. CASE o \notin Flagged
    <3>1. est'.acked = est.acked + 0 /\ Cardinality(Flagged \ {o}) = Cardinality(Flagged) - 0
      BY <1>8, <1>11, <2>1, <2>3
    <3>2. est.acked \in Int /\ torn \in Nat /\ AckDue \in {0, 1}
      BY EventNumbers
    <3> QED
      BY <1>10, <2>1, <3>1, <3>2, SMT
  <2> QED
    BY <2>2, <2>3
<1>16. /\ Short(est.events, torn, heap \ Uncounted)'
       /\ Short(est.raised, torn, Of(heap, "RAISE") \ Uncounted)'
       /\ Short(est.cleared, torn, Of(heap, "CLEAR") \ Uncounted)'
  BY <1>1, <1>5, <1>6, <1>12, <1>13, <1>14 DEF Short
<1>17. (Cardinality(Flagged \ Going) <= est.acked + 2 * torn + AckDue)'
  BY <1>1, <1>4, <1>5, <1>6, <1>15
<1> QED
  BY <1>16, <1>17 DEF EventInv

\* The deletion of a record that was taken off; the end of a load; a reload.
LEMMA EventDelete ==
  ASSUME TInv, HistInv, EventInv, NEW c, NEW p, PurgeDelete \/ Loaded \/ Reload(c, p)
  PROVE  EventInv'
<1>9. \A S : S \ {} = S
  OBVIOUS
<1>0. Cardinality(Flagged \ Going) \in Nat
  <2>1. Flagged \ Going \subseteq 1..MaxSeq
    BY EventNumbers
  <2> QED
    BY <2>1, Counting
<1>1. CASE PurgeDelete
  <2>1. /\ job.at = "delete" /\ job' = [job EXCEPT !.at = "purge"]
        /\ history' = Del(history, {Oldest}) /\ heap' = heap \ {Oldest}
        /\ UNCHANGED <<est, torn>>
    BY <1>1 DEF PurgeDelete, histVars
  <2>2. job'.at = "purge" /\ job'.act = job.act
    <3>1. "purge" \in Stage
      BY DEF Stage
    <3> QED
      BY <2>1, <3>1, Moved
  <2>3. /\ Uncounted = {Oldest} /\ Going = {Oldest} /\ Uncounted' = {} /\ Going' = {}
        /\ AckDue' = AckDue
    BY <2>1, <2>2 DEF Uncounted, Going, AckDue
  <2>4. heap \subseteq DOMAIN history
    BY DEF HistInv, Stored
  <2>5. DOMAIN history' = DOMAIN history \ {Oldest}
        /\ \A m \in DOMAIN history \ {Oldest} : history'[m] = history[m]
    BY <2>1 DEF Del
  <2>6. Flagged' = Flagged \ {Oldest}
    BY <2>5 DEF Flagged
  <2>7. \A act : Of(heap, act)' = Of(heap, act) \ {Oldest}
    BY <2>1, <2>4, <2>5 DEF Of
  <2>8. (Flagged \ Going)' = Flagged \ Going
    BY <2>3, <2>6
  <2>9. AckDue \in {0, 1} /\ AckDue' \in {0, 1}
    BY <2>3, EventNumbers
  <2>10. Cardinality(Flagged \ Going) <= Cardinality(Flagged \ Going) + (AckDue' - AckDue)
    BY <1>0, <2>3, <2>9, SMT
  <2> QED
    BY <1>0, <2>1, <2>3, <2>7, <2>8, <2>9, <2>10, EventFrame
<1>2. CASE Loaded \/ Reload(c, p)
  <2>1. /\ UNCHANGED <<history, heap, est, torn>>
        /\ \/ job.at = "purge" /\ job.act = "load" /\ job' = Idle
           \/ job.at = "idle" /\ job' = Load
    BY <1>2 DEF Loaded, Reload, dbVars, memVars, histVars
  <2>2. /\ Uncounted = {} /\ Going = {} /\ Uncounted' = {} /\ Going' = {}
        /\ AckDue' = 0 /\ AckDue = 0
    BY <2>1, IdleType DEF Uncounted, Going, AckDue
  <2>3. Flagged' = Flagged /\ \A act : Of(heap, act)' = Of(heap, act)
    BY <2>1 DEF Flagged, Of
  <2>4. (Flagged \ Going)' = Flagged \ Going
    BY <2>2, <2>3
  <2>5. Cardinality(Flagged \ Going) <= Cardinality(Flagged \ Going) + (0 - 0)
    BY <1>0, SMT
  <2> QED
    BY <1>0, <2>1, <2>2, <2>3, <2>4, <2>5, EventFrame
<1> QED
  BY <1>1, <1>2

\* A record is stored, to be counted.
LEMMA EventStore ==
  ASSUME TInv, HistInv, EventInv, Store
  PROVE  EventInv'
<1> DEFINE row == [timed |-> TRUE, act |-> job.act,
                   ack |-> IF job.act = "RAISE" THEN "false"
                           ELSE IF seq \in DOMAIN history THEN history[seq].ack ELSE "none"]
<1>1. /\ job.at = "purge" /\ job.act # "load"
      /\ history' = Put(history, seq, row) /\ heap' = heap \union {seq}
      /\ job' = [job EXCEPT !.at = "event_stats"] /\ UNCHANGED <<seq, est, torn>>
  BY DEF Store, histVars
<1>2. job'.at = "event_stats" /\ job'.act = job.act
  <2>1. "event_stats" \in Stage
    BY DEF Stage
  <2> QED
    BY <1>1, <2>1, Moved
<1>3. /\ Uncounted = {} /\ Going = {} /\ Uncounted' = {seq} /\ Going' = {}
      /\ AckDue' = AckDue
  BY <1>1, <1>2 DEF Uncounted, Going, AckDue
<1>4. heap \subseteq DOMAIN history /\ seq \notin heap
  <2>1. \A n \in heap : n < seq
    BY <1>1 DEF HistInv
  <2>2. seq \notin heap
    BY <2>1, HistNumbers, SMT
  <2> QED
    BY <2>2 DEF HistInv, Stored
<1>5. DOMAIN history' = DOMAIN history \union {seq}
      /\ \A m \in DOMAIN history' : history'[m] = IF m = seq THEN row ELSE history[m]
  BY <1>1 DEF Put
<1>6. row.ack = IF job.act = "RAISE" THEN "false"
                ELSE IF seq \in DOMAIN history THEN history[seq].ack ELSE "none"
  OBVIOUS
<1> HIDE DEF row
<1>7. heap' \ Uncounted' = heap \ Uncounted
      /\ \A act : Of(heap, act)' \ Uncounted' = Of(heap, act) \ Uncounted
  BY <1>1, <1>3, <1>4, <1>5 DEF Of
<1>8. Flagged' = Flagged \/ Flagged' = Flagged \ {seq}
  <2>1. CASE row.ack = "true"
    BY <1>5, <1>6, <2>1 DEF Flagged
  <2>2. CASE row.ack # "true"
    BY <1>5, <2>2 DEF Flagged
  <2> QED
    BY <2>1, <2>2
<1>9. Cardinality(Flagged') <= Cardinality(Flagged) /\ Cardinality(Flagged') \in Nat
      /\ Cardinality(Flagged) \in Nat
  <2>1. /\ Cardinality(Flagged) \in Nat /\ Cardinality(Flagged \ {seq}) \in Nat
        /\ Cardinality(Flagged \ {seq}) <= Cardinality(Flagged)
    BY EventNumbers, FlagCount
  <2>2. Cardinality(Flagged) <= Cardinality(Flagged)
    BY <2>1, SMT
  <2> QED
    BY <1>8, <2>1, <2>2
<1>10. AckDue \in {0, 1}
  BY EventNumbers
<1>11. Cardinality(Flagged') <= Cardinality(Flagged) + (AckDue' - AckDue)
  BY <1>3, <1>9, <1>10, SMT
<1>12. Flagged \ {} = Flagged /\ Flagged' \ {} = Flagged'
  OBVIOUS
<1>13. Cardinality((Flagged \ Going)') <= Cardinality(Flagged \ Going) + (AckDue' - AckDue)
       /\ Cardinality((Flagged \ Going)') \in Nat /\ AckDue' \in {0, 1}
  BY <1>3, <1>9, <1>10, <1>11, <1>12
<1> QED
  BY <1>1, <1>7, <1>13, EventFrame

\* It is counted as what it is.
LEMMA EventCount ==
  ASSUME TInv, HistInv, EventInv, CountEvent
  PROVE  EventInv'
<1>1. /\ job.at = "event_stats" /\ job' = Idle /\ UNCHANGED <<history, heap, torn>>
      /\ est' = EventStats(1, job.act, job.act = "ACK")
  BY DEF CountEvent, memVars, histVars
<1>3. seq \in heap /\ history[seq].act = job.act
  BY <1>1 DEF HistInv
<1>4. Uncounted = {seq} /\ Going = {} /\ AckDue = IF job.act = "ACK" THEN 1 ELSE 0
  BY <1>1 DEF Uncounted, Going, AckDue
<1>5. Uncounted' = {} /\ Going' = {} /\ AckDue' = 0
  BY <1>1, IdleType DEF Uncounted, Going, AckDue
<1>6. Flagged' = Flagged /\ \A act : Of(heap, act)' = Of(heap, act)
  BY <1>1 DEF Flagged, Of
<1>8. /\ est'.events = est.events + 1
      /\ est'.raised = est.raised + IF job.act = "RAISE" THEN 1 ELSE 0
      /\ est'.cleared = est.cleared + IF job.act = "CLEAR" THEN 1 ELSE 0
      /\ est'.acked = est.acked + IF job.act = "ACK" THEN 1 ELSE 0
  BY <1>1 DEF EventStats
<1>9. \A S : S \ {} = S
  OBVIOUS
<1>10. /\ Short(est.events, torn, heap \ {seq})
       /\ Short(est.raised, torn, Of(heap, "RAISE") \ {seq})
       /\ Short(est.cleared, torn, Of(heap, "CLEAR") \ {seq})
       /\ Cardinality(Flagged) <= est.acked + 2 * torn + AckDue
  BY <1>4, <1>9 DEF EventInv
<1>s. /\ heap \ {seq} \subseteq 1..MaxSeq /\ seq \notin heap \ {seq}
      /\ \A act : Of(heap, act) \ {seq} \subseteq 1..MaxSeq /\ seq \notin Of(heap, act) \ {seq}
  BY EventNumbers
<1>12. Short(est'.events, torn, heap)
  <2>1. Short(est.events + 1, torn, (heap \ {seq}) \union {seq})
    BY <1>10, <1>s, EventNumbers, ShortMore
  <2>2. (heap \ {seq}) \union {seq} = heap
    BY <1>3
  <2> QED
    BY <1>8, <2>1, <2>2
<1>13. Short(est'.raised, torn, Of(heap, "RAISE"))
  <2>1. Short(est.raised + 1, torn, (Of(heap, "RAISE") \ {seq}) \union {seq})
        /\ Short(est.raised + 0, torn, Of(heap, "RAISE") \ {seq})
    BY <1>10, <1>s, EventNumbers, ShortMore
  <2>2. CASE job.act = "RAISE"
    <3>1. (Of(heap, "RAISE") \ {seq}) \union {seq} = Of(heap, "RAISE")
      BY <1>3, <2>2 DEF Of
    <3> QED
      BY <1>8, <2>1, <2>2, <3>1
  <2>3. CASE job.act # "RAISE"
    <3>1. Of(heap, "RAISE") \ {seq} = Of(heap, "RAISE")
      BY <1>3, <2>3 DEF Of
    <3> QED
      BY <1>8, <2>1, <2>3, <3>1
  <2> QED
    BY <2>2, <2>3
<1>14. Short(est'.cleared, torn, Of(heap, "CLEAR"))
  <2>1. Short(est.cleared + 1, torn, (Of(heap, "CLEAR") \ {seq}) \union {seq})
        /\ Short(est.cleared + 0, torn, Of(heap, "CLEAR") \ {seq})
    BY <1>10, <1>s, EventNumbers, ShortMore
  <2>2. CASE job.act = "CLEAR"
    <3>1. (Of(heap, "CLEAR") \ {seq}) \union {seq} = Of(heap, "CLEAR")
      BY <1>3, <2>2 DEF Of
    <3> QED
      BY <1>8, <2>1, <2>2, <3>1
  <2>3. CASE job.act # "CLEAR"
    <3>1. Of(heap, "CLEAR") \ {seq} = Of(heap, "CLEAR")
      BY <1>3, <2>3 DEF Of
    <3> QED
      BY <1>8, <2>1, <2>3, <3>1
  <2> QED
    BY <2>2, <2>3
<1>15. Cardinality(Flagged) <= est'.acked + 2 * torn + 0
  <2>1. Cardinality(Flagged) \in Nat /\ est.acked \in Int /\ torn \in Nat
    BY EventNumbers, Counting
  <2>2. est'.acked = est.acked + AckDue /\ AckDue \in {0, 1}
    BY <1>4, <1>8
  <2> QED
    BY <1>10, <2>1, <2>2, SMT
<1>16. /\ Short(est.events, torn, heap \ Uncounted)'
       /\ Short(est.raised, torn, Of(heap, "RAISE") \ Uncounted)'
       /\ Short(est.cleared, torn, Of(heap, "CLEAR") \ Uncounted)'
  BY <1>1, <1>5, <1>6, <1>9, <1>12, <1>13, <1>14 DEF Short
<1>17. (Cardinality(Flagged \ Going) <= est.acked + 2 * torn + AckDue)'
  BY <1>1, <1>5, <1>6, <1>9, <1>15
<1> QED
  BY <1>16, <1>17 DEF EventInv

\* What the counters may be off by now: one more between a record and its count.
Off == torn + IF TearsEvent THEN 1 ELSE 0

\* The counters, whatever the stage: this is EventStatsMatch.
LEMMA EventBounds ==
  ASSUME TInv, EventInv
  PROVE  /\ Short(est.events, Off, heap) /\ Short(est.raised, Off, Of(heap, "RAISE"))
         /\ Short(est.cleared, Off, Of(heap, "CLEAR"))
         /\ Cardinality(Flagged) <= est.acked + 2 * Off
<1>9. \A S : S \ {} = S
  OBVIOUS
<1>t. torn \in Nat /\ torn + 0 = torn /\ est.acked \in Int
  BY EventNumbers, SMT
<1>f. Cardinality(Flagged) \in Nat
  BY EventNumbers, Counting
<1>1. CASE ~TearsEvent
  <2>1. Uncounted = {} /\ Going = {} /\ AckDue = 0 /\ Off = torn
    BY <1>1, <1>t DEF TearsEvent, Uncounted, Going, AckDue, Off
  <2>2. Cardinality(Flagged) <= est.acked + 2 * torn + 0
    BY <2>1, <1>9 DEF EventInv
  <2>3. Cardinality(Flagged) <= est.acked + 2 * torn
    BY <2>2, <1>t, <1>f, SMT
  <2> QED
    BY <2>1, <2>3, <1>9 DEF EventInv
<1>2. CASE TearsEvent
  <2>1. Off = torn + 1
    BY <1>2 DEF Off
  <2>2. PICK x : (Uncounted = {x} \/ Uncounted = {}) /\ (Going = {x} \/ Going = {})
    <3>1. CASE job.at = "delete"
      BY <3>1 DEF Uncounted, Going
    <3>2. CASE job.at # "delete"
      BY <3>2 DEF Uncounted, Going
    <3> QED
      BY <3>1, <3>2
  <2>3. ASSUME NEW c \in Int, NEW S, S \subseteq 1..MaxSeq, Short(c, torn, S \ Uncounted)
        PROVE  Short(c, Off, S)
    <3>1. CASE Uncounted = {x}
      BY <2>1, <2>3, <3>1, <1>t, ShortLapse
    <3>2. CASE Uncounted = {}
      <4>1. Short(c, torn, S) /\ Cardinality(S) \in Nat
        BY <2>3, <3>2, <1>9, Counting
      <4> QED
        BY <4>1, <2>1, <1>t, SMT DEF Short
    <3> QED
      BY <2>2, <3>1, <3>2
  <2>4. Cardinality(Flagged) <= Cardinality(Flagged \ Going) + 1 /\ Cardinality(Flagged \ Going) \in Nat
    <3>1. /\ Cardinality(Flagged) <= Cardinality(Flagged \ {x}) + 1
          /\ Cardinality(Flagged \ {x}) \in Nat
      BY EventNumbers, FlagCount
    <3>2. Cardinality(Flagged) <= Cardinality(Flagged) + 1
      BY <1>f, SMT
    <3> QED
      BY <1>9, <1>f, <2>2, <3>1, <3>2
  <2>5. Cardinality(Flagged \ Going) <= est.acked + 2 * torn + AckDue /\ AckDue \in {0, 1}
    BY EventNumbers DEF EventInv
  <2>6. Cardinality(Flagged) <= est.acked + 2 * Off
    <3>1. \A f, g, t \in Nat, a \in Int, d \in {0, 1} :
             f <= g + 1 /\ g <= a + 2 * t + d => f <= a + 2 * (t + 1)
      BY SMT
    <3>2. Cardinality(Flagged) <= est.acked + 2 * (torn + 1)
      BY <2>4, <2>5, <1>t, <1>f, <3>1
    <3> QED
      BY <2>1, <3>2
  <2>7. Short(est.events, Off, heap)
    BY <2>3, EventNumbers DEF EventInv
  <2>8. Short(est.raised, Off, Of(heap, "RAISE"))
    BY <2>3, EventNumbers DEF EventInv
  <2>9. Short(est.cleared, Off, Of(heap, "CLEAR"))
    BY <2>3, EventNumbers DEF EventInv
  <2> QED
    BY <2>6, <2>7, <2>8, <2>9
<1> QED
  BY <1>1, <1>2

\* The event counters keep their invariant in every step: a restart leaves what
\* EventBounds says.
LEMMA EventNext ==
  ASSUME TInv, HistInv, EventInv, HistStep
  PROVE  EventInv'
<1>1. CASE QuietStep \/ AckEvent
  BY <1>1, EventQuiet
<1>2. CASE PurgeStats
  BY <1>2, EventPurge
<1>3. CASE PurgeDelete \/ Loaded
  BY <1>3, EventDelete
<1>4. CASE Store
  BY <1>4, EventStore
<1>5. CASE CountEvent
  BY <1>5, EventCount
<1>6. ASSUME NEW c \in Records, NEW p \in Profiles, Reload(c, p)
      PROVE  EventInv'
  BY <1>6, EventDelete
<1>7. ASSUME NEW c \in Records, NEW p \in Profiles, Restart(c, p)
      PROVE  EventInv'
  <2>1. /\ job' = Load /\ heap' = Stored /\ torn' = Off /\ UNCHANGED <<history, est>>
    BY <1>7 DEF Restart, Off, dbVars
  <2>2. heap' = heap
    BY <2>1 DEF HistInv
  <2>3. Uncounted' = {} /\ Going' = {} /\ AckDue' = 0
    BY <2>1, IdleType DEF Uncounted, Going, AckDue
  <2>4. Flagged' = Flagged /\ \A act : Of(heap, act)' = Of(heap, act)
    BY <2>1, <2>2 DEF Flagged, Of
  <2>5. \A S : S \ {} = S
    OBVIOUS
  <2>6. /\ Short(est.events, Off, heap) /\ Short(est.raised, Off, Of(heap, "RAISE"))
        /\ Short(est.cleared, Off, Of(heap, "CLEAR"))
        /\ Cardinality(Flagged) <= est.acked + 2 * Off
    BY EventBounds
  <2>7. Cardinality(Flagged) <= est.acked + 2 * Off + 0
    <3>1. \A f, a \in Int, t \in Nat : f <= a + 2 * t => f <= a + 2 * t + 0
      BY SMT
    <3>2. Cardinality(Flagged) \in Int /\ est.acked \in Int /\ Off \in Nat
      <4>1. Cardinality(Flagged) \in Nat /\ torn \in Nat
        BY EventNumbers, Counting
      <4>2. torn + 1 \in Nat /\ torn + 0 \in Nat /\ Cardinality(Flagged) \in Int
        BY <4>1, SMT
      <4> QED
        BY <4>2, EventNumbers DEF Off
    <3> QED
      BY <2>6, <3>1, <3>2
  <2>8. /\ Short(est.events, torn, heap \ Uncounted)'
        /\ Short(est.raised, torn, Of(heap, "RAISE") \ Uncounted)'
        /\ Short(est.cleared, torn, Of(heap, "CLEAR") \ Uncounted)'
    BY <2>1, <2>2, <2>3, <2>4, <2>5, <2>6 DEF Short
  <2>9. (Cardinality(Flagged \ Going) <= est.acked + 2 * torn + AckDue)'
    BY <2>1, <2>3, <2>4, <2>5, <2>7
  <2> QED
    BY <2>8, <2>9 DEF EventInv
<1>8. CASE UNCHANGED vars
  BY <1>8 DEF EventInv, Short, Uncounted, Going, AckDue, Of, Flagged, Oldest,
              vars, dbVars, memVars, histVars
<1> QED
  BY <1>1, <1>2, <1>3, <1>4, <1>5, <1>6, <1>7, <1>8 DEF HistStep

\* EventStatsMatch, for any history, profile, bound and number of restarts: the
\* counters lag the records by at most the restarts that came between a write of
\* a record and the write of its counters, and never lead them.
THEOREM EventStatsMatchAlways == Spec => []EventStatsMatch
<1>1. Init => TInv /\ HistInv /\ EventInv
  <2> SUFFICES ASSUME Init PROVE TInv /\ HistInv /\ EventInv
    OBVIOUS
  <2>1. heap = {} /\ history = NoMap /\ job = Idle /\ torn = 0
        /\ est = [events |-> 0, raised |-> 0, cleared |-> 0, acked |-> 0]
    BY DEF Init
  <2>2. Uncounted = {} /\ Going = {} /\ AckDue = 0
    BY <2>1, IdleType DEF Uncounted, Going, AckDue
  <2>3. Flagged = {} /\ \A act : Of(heap, act) = {}
    BY <2>1 DEF Flagged, Of, NoMap
  <2>4. heap \ Uncounted = {} /\ Flagged \ Going = {}
        /\ \A act : Of(heap, act) \ Uncounted = {}
    BY <2>1, <2>3
  <2>5. est.events = 0 /\ est.raised = 0 /\ est.cleared = 0 /\ est.acked = 0
    BY <2>1
  <2>6. Short(0, 0, {}) /\ Cardinality({}) <= 0 + 2 * 0 + 0
    BY FS_EmptySet, SMT DEF Short
  <2>7. EventInv
    BY <2>1, <2>2, <2>4, <2>5, <2>6 DEF EventInv
  <2>8. TInv /\ HistInv
    BY InitHist
  <2> QED
    BY <2>7, <2>8
<1>2. TInv /\ HistInv /\ EventInv /\ [Next]_vars => (TInv /\ HistInv /\ EventInv)'
  BY NextType, NextHist, HistNext, EventNext
<1>3. TInv /\ HistInv /\ EventInv => EventStatsMatch
  BY EventBounds DEF EventStatsMatch, Off, Short, Of, Flagged
<1> QED
  BY <1>1, <1>2, <1>3, PTL DEF Spec

-----------------------------------------------------------------------------
(* The alarms.                                                             *)

\* Whether an alarm counts as acknowledged: an ACK or UNACK writes the counters
\* before the row.
AckOf(n) == IF job.at = "ack_alarm" /\ n = job.n THEN job.act = "ACK" ELSE alarms[n].ack
Un == {n \in DOMAIN alarms : ~AckOf(n)}
Ac == {n \in DOMAIN alarms : AckOf(n)}
UnOf(v) == {n \in DOMAIN alarms : ~AckOf(n) /\ alarms[n].sev = v}

\* A lookup entry has an id that was given out, or is being given out.
LookInv ==
    /\ LookupSound
    /\ \A k \in DOMAIN lookup : lookup[k] <= IF job.at = "alarm_stats" THEN seq + 1 ELSE seq

\* A counter is k or less off its set.
Near(k, c, S) == Within(k, c, Cardinality(S))

\* The counters with what the handler is still to add.
CountInv ==
    /\ Near(slips, ast.alarms + job.by.d, Un)
    /\ Near(slips, ast.acknowledged + job.by.k, Ac)
    /\ \A v \in Severity :
         Near(slips, ast.sev[v] + IF v = job.by.sev THEN job.by.d ELSE 0, UnOf(v))

\* A set gains or loses an element, with its counter, or without it at the price
\* of one more it may be off by.
LEMMA NearBy ==
  ASSUME NEW k \in Nat, NEW c \in Int, NEW S, S \subseteq 1..MaxSeq, NEW x, Near(k, c + 0, S)
  PROVE  /\ x \notin S => Near(k, c + 1, S \union {x}) /\ Near(k, c + 0, S \ {x})
         /\ x \in S => Near(k, c + (-1), S \ {x})
         /\ Near(k + 1, c + 1, S \union {x}) /\ Near(k + 1, c + (-1), S \ {x})
         /\ Near(k + 1, c + 0, S \ {x}) /\ Near(k + 1, c + 0, S)
<1>1. /\ Cardinality(S) \in Nat
      /\ Cardinality(S \union {x}) = Cardinality(S) + IF x \in S THEN 0 ELSE 1
      /\ Cardinality(S \ {x}) = Cardinality(S) - IF x \in S THEN 1 ELSE 0
  BY Counting
<1>2. CASE x \in S
  <2>1. /\ Cardinality(S \union {x}) = Cardinality(S) + 0
        /\ Cardinality(S \ {x}) = Cardinality(S) - 1
    BY <1>1, <1>2
  <2> QED
    BY <1>1, <1>2, <2>1, SMT DEF Near, Within
<1>3. CASE x \notin S
  <2>1. /\ Cardinality(S \union {x}) = Cardinality(S) + 1
        /\ Cardinality(S \ {x}) = Cardinality(S) - 0
    BY <1>1, <1>3
  <2> QED
    BY <1>1, <1>3, <2>1, SMT DEF Near, Within
<1> QED
  BY <1>2, <1>3

\* What was still to be added is forgotten.
LEMMA NearLapse ==
  ASSUME NEW k \in Nat, NEW c \in Int, NEW d \in -1..1, NEW S, S \subseteq 1..MaxSeq,
         Near(k, c + d, S)
  PROVE  Near(k + 1, c, S)
<1>1. Cardinality(S) \in Nat
  BY Counting
<1> QED
  BY <1>1, SMT DEF Near, Within

\* Nothing was.
LEMMA NearSame ==
  ASSUME NEW k \in Nat, NEW c \in Int, NEW S, S \subseteq 1..MaxSeq, Near(k, c + 0, S)
  PROVE  Near(k + 0, c, S) /\ Near(k + 0, c + 0, S) /\ Near(k, c, S)
<1>1. Cardinality(S) \in Nat
  BY Counting
<1> QED
  BY <1>1, SMT DEF Near, Within

\* One element is in another state than the counter has it.
LEMMA NearFlip ==
  ASSUME NEW k \in Nat, NEW c \in Int, NEW S, S \subseteq 1..MaxSeq,
         NEW T, T \subseteq 1..MaxSeq, NEW x, S \ {x} = T \ {x}, Near(k, c + 0, S)
  PROVE  Near(k + 1, c, T)
<1>1. /\ Cardinality(S) \in Nat /\ Cardinality(T) \in Nat
      /\ Cardinality(S \ {x}) = Cardinality(S) - IF x \in S THEN 1 ELSE 0
      /\ Cardinality(T \ {x}) = Cardinality(T) - IF x \in T THEN 1 ELSE 0
  BY Counting
<1>2. /\ Cardinality(S \ {x}) = Cardinality(S) - 1 \/ Cardinality(S \ {x}) = Cardinality(S) - 0
      /\ Cardinality(S \ {x}) = Cardinality(T) - 1 \/ Cardinality(S \ {x}) = Cardinality(T) - 0
  BY <1>1
<1>3. \A a, s, t \in Int : /\ a = s - 1 \/ a = s - 0
                           /\ a = t - 1 \/ a = t - 0
                           => t - s <= 1 /\ s - t <= 1
  BY SMT
<1>4. Cardinality(S \ {x}) \in Int /\ Cardinality(S) \in Int /\ Cardinality(T) \in Int
  <2>1. S \ {x} \subseteq 1..MaxSeq
    OBVIOUS
  <2>2. Cardinality(S \ {x}) \in Nat
    BY <2>1, Counting
  <2> QED
    BY <1>1, <2>2, SMT
<1>5. Cardinality(T) - Cardinality(S) <= 1 /\ Cardinality(S) - Cardinality(T) <= 1
  BY <1>2, <1>3, <1>4
<1> QED
  BY <1>1, <1>5, SMT DEF Near, Within

\* The sets and numbers of the alarm counters.
LEMMA AlarmNumbers ==
  ASSUME TInv
  PROVE  /\ ast.alarms \in Int /\ ast.acknowledged \in Int /\ \A v \in Severity : ast.sev[v] \in Int
         /\ slips \in Nat /\ seq \in Nat
         /\ job.by.d \in -1..1 /\ job.by.k \in -1..1
         /\ Un \subseteq 1..MaxSeq /\ Ac \subseteq 1..MaxSeq
         /\ \A v : UnOf(v) \subseteq 1..MaxSeq
         /\ Unacked \subseteq 1..MaxSeq /\ Acked \subseteq 1..MaxSeq
         /\ \A v : {n \in Unacked : alarms[n].sev = v} \subseteq 1..MaxSeq
<1>1. /\ ast \in [alarms : Int, acknowledged : Int, sev : [Severity -> Int]]
      /\ slips \in Nat
      /\ job.by \in [sev : Severity \union {Absent}, d : -1..1, k : -1..1]
      /\ DOMAIN alarms \subseteq 1..MaxSeq
  BY DEF TInv, TypeOK
<1>2. seq \in Nat
  BY HistNumbers
<1> QED
  BY <1>1, <1>2 DEF Un, Ac, UnOf, Unacked, Acked

\* A handler that is not about to count an alarm has nothing to add.
LEMMA NothingDue ==
  ASSUME TInv, job.at # "alarm_stats"
  PROVE  /\ job.by.d = 0 /\ job.by.k = 0
         /\ \A v : (IF v = job.by.sev THEN job.by.d ELSE 0) = 0
BY IdleType DEF TInv, StageInv

\* The steps that leave the alarms alone.
AlarmQuiet ==
    /\ UNCHANGED <<alarms, ast, lookup, slips>>
    /\ job.at \notin {"alarm_stats", "ack_alarm"}
    /\ job'.at \notin {"alarm_stats", "ack_alarm"}
    /\ seq' = seq + 0 \/ seq' = seq + 1

\* What a step does to the alarms.
AlarmStep ==
    \/ AlarmQuiet \/ UNCHANGED vars \/ CountAlarm \/ AckAlarm
    \/ \E t \in Type, x \in Source : Raise(t, x) \/ Clear(t, x)
    \/ \E t \in Type, n \in 1..MaxSeq : Acknowledge(t, n) \/ Unacknowledge(t, n)
    \/ \E c \in Records, p \in Profiles : Restart(c, p)

\* The steps of Next, as the alarms see them.
LEMMA NextAlarm ==
  ASSUME TInv, [Next]_vars
  PROVE  AlarmStep
<1>0. seq = seq + 0
  BY HistNumbers, SMT
<1>s. "purge" \in Stage /\ "delete" \in Stage /\ "event_stats" \in Stage
  BY DEF Stage
<1>1. ASSUME NEW t \in Type, NEW x, NEW act,
             Plain(t, x) \/ ClearUnknown(t, x) \/ Discard(t, x, act)
      PROVE  AlarmQuiet
  <2>1. CASE Plain(t, x)
    BY <2>1 DEF Plain, Receive, AlarmQuiet, Handler, dbVars, histVars
  <2>2. CASE ClearUnknown(t, x) \/ Discard(t, x, act)
    BY <1>0, <2>2 DEF ClearUnknown, Discard, Receive, AlarmQuiet, dbVars, histVars
  <2> QED
    BY <1>1, <2>1, <2>2
<1>2. CASE AckEvent
  BY <1>2 DEF AckEvent, AlarmQuiet, AlarmStep, Handler, histVars
<1>3. CASE PurgeStats
  <2>1. job'.at = "delete"
    BY <1>3, <1>s, Moved DEF PurgeStats
  <2> QED
    BY <1>0, <1>3, <2>1 DEF PurgeStats, AlarmQuiet, AlarmStep, memVars, histVars
<1>4. CASE PurgeDelete
  <2>1. job'.at = "purge"
    BY <1>4, <1>s, Moved DEF PurgeDelete
  <2> QED
    BY <1>0, <1>4, <2>1 DEF PurgeDelete, AlarmQuiet, AlarmStep, histVars
<1>5. CASE Loaded
  BY <1>0, <1>5, IdleType DEF Loaded, AlarmQuiet, AlarmStep, dbVars, memVars, histVars
<1>6. CASE Store
  <2>1. job'.at = "event_stats"
    BY <1>6, <1>s, Moved DEF Store
  <2> QED
    BY <1>0, <1>6, <2>1 DEF Store, AlarmQuiet, AlarmStep, histVars
<1>7. CASE CountEvent
  BY <1>0, <1>7, IdleType DEF CountEvent, AlarmQuiet, AlarmStep, memVars, histVars
<1>8. ASSUME NEW c \in Records, NEW p \in Profiles, Reload(c, p)
      PROVE  AlarmQuiet
  BY <1>0, <1>8, IdleType DEF Reload, AlarmQuiet, dbVars, memVars, histVars
<1> QED
  BY <1>1, <1>2, <1>3, <1>4, <1>5, <1>6, <1>7, <1>8 DEF Next, AlarmStep

\* Ids that were given out stay below the next.
LEMMA Later ==
  ASSUME NEW n \in 1..MaxSeq, NEW m \in Nat
  PROVE  /\ n <= m => n <= m + 0 /\ n <= m + 1 /\ n # m + 1
         /\ m + 1 <= m + 1
BY SMT

\* A RAISE: what it writes.
RaiseStep(key, sev) ==
    /\ job.at = "idle" /\ key \in Key /\ sev \in Severity
    /\ lookup' = IF key \in DOMAIN lookup THEN lookup ELSE Put(lookup, key, seq + 1)
    /\ alarms' = Put(alarms, seq + 1, [key |-> key, sev |-> sev, ack |-> FALSE])
    /\ job' = Handler("alarm_stats", "RAISE", 0, Delta(sev, 1, 0))
    /\ slips' = slips + IF seq + 1 \in DOMAIN alarms THEN 1 ELSE 0
    /\ UNCHANGED <<ast, seq>> /\ seq < MaxSeq

\* A CLEAR: what it writes.
ClearStep(key, sev) ==
    LET id  == lookup[key]
        ack == id \in DOMAIN alarms /\ alarms[id].ack
    IN
    /\ job.at = "idle" /\ key \in DOMAIN lookup /\ sev \in Severity
    /\ lookup' = Del(lookup, {key}) /\ alarms' = Del(alarms, {id})
    /\ job' = Handler("alarm_stats", "CLEAR", 0,
                      IF ack THEN Delta(Absent, 0, -1) ELSE Delta(sev, -1, 0))
    /\ slips' = slips + IF id \in DOMAIN alarms /\ ~ack /\ alarms[id].sev # sev THEN 1 ELSE 0
    /\ UNCHANGED <<ast, seq>>

\* They are the actions.
LEMMA RaiseClear ==
  ASSUME NEW t \in Type, NEW x \in Source
  PROVE  /\ Raise(t, x) => RaiseStep(<<t, x>>, profile[t])
         /\ Clear(t, x) => ClearStep(<<t, x>>, profile[t])
<1>1. <<t, x>> \in Key
  BY DEF Key
<1> QED
  BY <1>1 DEF Raise, Clear, Receive, Known, RaiseStep, ClearStep

\* The lookup map keeps naming the alarms' rows.
LEMMA LookNext ==
  ASSUME TInv, LookInv, AlarmStep
  PROVE  LookInv'
<1>n. seq \in Nat
  BY HistNumbers
<1>l. \A k \in DOMAIN lookup : lookup[k] \in 1..MaxSeq
  BY Tables DEF IsTable
<1>i. job.at # "alarm_stats" => \A k \in DOMAIN lookup : lookup[k] <= seq
  BY DEF LookInv
<1>1. CASE AlarmQuiet
  <2>1. \A k \in DOMAIN lookup : lookup[k] <= seq + 0 /\ lookup[k] <= seq + 1
    BY <1>1, <1>n, <1>l, <1>i, Later DEF AlarmQuiet
  <2> QED
    BY <1>1, <2>1 DEF AlarmQuiet, LookInv, LookupSound
<1>2. CASE UNCHANGED vars
  BY <1>2 DEF vars, dbVars, memVars, LookInv, LookupSound
<1>3. CASE CountAlarm
  <2>1. job.at = "alarm_stats" /\ seq' = seq + 1 /\ UNCHANGED <<alarms, lookup>>
        /\ job' = Handler("purge", job.act, 0, NoDelta)
    BY <1>3 DEF CountAlarm
  <2>2. job'.at = "purge"
    BY <2>1 DEF Handler
  <2> QED
    BY <2>1, <2>2 DEF LookInv, LookupSound
<1>4. CASE AckAlarm
  <2>1. /\ job.at = "ack_alarm" /\ alarms' = [alarms EXCEPT ![job.n].ack = (job.act = "ACK")]
        /\ job' = [job EXCEPT !.at = "ack_event"] /\ UNCHANGED <<lookup, seq>>
    BY <1>4 DEF AckAlarm, memVars
  <2>2. job'.at = "ack_event"
    BY <2>1 DEF TInv, TypeOK
  <2>3. DOMAIN alarms' = DOMAIN alarms
        /\ \A m \in DOMAIN alarms : alarms'[m].key = alarms[m].key
    <3>1. alarms \in [DOMAIN alarms -> Alarm]
      BY DEF TInv, TypeOK
    <3>2. \A a \in Alarm : \A b : [a EXCEPT !.ack = b].key = a.key
      BY DEF Alarm
    <3>3. DOMAIN alarms' = DOMAIN alarms
      BY <2>1
    <3>4. \A m \in DOMAIN alarms : alarms'[m] = alarms[m]
             \/ alarms'[m] = [alarms[m] EXCEPT !.ack = (job.act = "ACK")]
      <4> SUFFICES ASSUME NEW m \in DOMAIN alarms
                   PROVE  alarms'[m] = alarms[m]
                            \/ alarms'[m] = [alarms[m] EXCEPT !.ack = (job.act = "ACK")]
        OBVIOUS
      <4>1. CASE m = job.n
        BY <2>1, <3>1, <4>1
      <4>2. CASE m # job.n
        BY <2>1, <3>1, <4>2
      <4> QED
        BY <4>1, <4>2
    <3>5. \A m \in DOMAIN alarms :
             alarms[m] \in Alarm /\ [alarms[m] EXCEPT !.ack = (job.act = "ACK")].key = alarms[m].key
      BY <3>1, <3>2
    <3>6. \A m \in DOMAIN alarms : alarms'[m].key = alarms[m].key
      <4> SUFFICES ASSUME NEW m \in DOMAIN alarms PROVE alarms'[m].key = alarms[m].key
        OBVIOUS
      <4>1. CASE alarms'[m] = alarms[m]
        BY <4>1
      <4>2. CASE alarms'[m] = [alarms[m] EXCEPT !.ack = (job.act = "ACK")]
        BY <3>5, <4>2
      <4> QED
        BY <3>4, <4>1, <4>2
    <3> QED
      BY <3>3, <3>6
  <2> QED
    BY <2>1, <2>2, <2>3 DEF LookInv, LookupSound
<1>5. ASSUME NEW t \in Type, NEW x \in Source, Raise(t, x)
      PROVE  LookInv'
  <2> DEFINE key == <<t, x>>
             row == [key |-> key, sev |-> profile[t], ack |-> FALSE]
  <2>1. RaiseStep(key, profile[t])
    BY <1>5, RaiseClear
  <2>2. /\ job.at = "idle" /\ key \in Key /\ seq' = seq
        /\ lookup' = IF key \in DOMAIN lookup THEN lookup ELSE Put(lookup, key, seq + 1)
        /\ alarms' = Put(alarms, seq + 1, row) /\ job'.at = "alarm_stats"
    BY <2>1 DEF RaiseStep, Handler
  <2>3. row.key = key
    OBVIOUS
  <2> HIDE DEF row, key
  <2>4. /\ DOMAIN alarms' = DOMAIN alarms \union {seq + 1} /\ alarms'[seq + 1] = row
        /\ \A m \in DOMAIN alarms : m # seq + 1 => alarms'[m] = alarms[m]
    BY <2>2 DEF Put
  <2>5. \A k \in DOMAIN lookup : lookup[k] <= seq + 1 /\ lookup[k] # seq + 1
    BY <2>2, <1>n, <1>l, <1>i, Later
  <2>6. CASE key \in DOMAIN lookup
    BY <2>2, <2>4, <2>5, <2>6 DEF LookInv, LookupSound
  <2>7. CASE key \notin DOMAIN lookup
    <3>1. /\ DOMAIN lookup' = DOMAIN lookup \union {key} /\ lookup'[key] = seq + 1
          /\ \A k \in DOMAIN lookup : k # key => lookup'[k] = lookup[k]
      BY <2>2, <2>7 DEF Put
    <3>2. seq + 1 <= seq + 1
      BY <1>n, SMT
    <3>3. \A k \in DOMAIN lookup' : lookup'[k] <= seq + 1
      BY <2>5, <2>7, <3>1, <3>2
    <3>4. \A k \in DOMAIN lookup : lookup'[k] \in DOMAIN alarms' /\ alarms'[lookup'[k]].key = k
      BY <2>4, <2>5, <2>7, <3>1 DEF LookInv, LookupSound
    <3>5. lookup'[key] \in DOMAIN alarms' /\ alarms'[lookup'[key]].key = key
      BY <2>3, <2>4, <3>1
    <3>6. LookupSound'
      BY <3>1, <3>4, <3>5 DEF LookupSound
    <3> QED
      BY <2>2, <3>3, <3>6 DEF LookInv
  <2> QED
    BY <2>6, <2>7
<1>6. ASSUME NEW t \in Type, NEW x \in Source, Clear(t, x)
      PROVE  LookInv'
  <2> DEFINE key == <<t, x>>
  <2>1. ClearStep(key, profile[t])
    BY <1>6, RaiseClear
  <2>2. /\ job.at = "idle" /\ key \in DOMAIN lookup /\ seq' = seq /\ lookup' = Del(lookup, {key})
        /\ alarms' = Del(alarms, {lookup[key]}) /\ job'.at = "alarm_stats"
    BY <2>1 DEF ClearStep, Handler
  <2> HIDE DEF key
  <2>3. /\ DOMAIN lookup' = DOMAIN lookup \ {key} /\ DOMAIN alarms' = DOMAIN alarms \ {lookup[key]}
        /\ \A k \in DOMAIN lookup \ {key} : lookup'[k] = lookup[k]
        /\ \A m \in DOMAIN alarms \ {lookup[key]} : alarms'[m] = alarms[m]
    BY <2>2 DEF Del
  <2>4. \A k \in DOMAIN lookup \ {key} : lookup[k] # lookup[key]
    BY <2>2 DEF LookInv, LookupSound
  <2>5. \A k \in DOMAIN lookup : lookup[k] <= seq + 1
    BY <2>2, <1>n, <1>l, <1>i, Later
  <2>6. \A k \in DOMAIN lookup' : lookup'[k] <= seq + 1
    BY <2>3, <2>5
  <2>7. \A k \in DOMAIN lookup' : lookup'[k] \in DOMAIN alarms' /\ alarms'[lookup'[k]].key = k
    BY <2>3, <2>4 DEF LookInv, LookupSound
  <2> QED
    BY <2>2, <2>6, <2>7 DEF LookInv, LookupSound
<1>7. ASSUME NEW t \in Type, NEW n \in 1..MaxSeq, Acknowledge(t, n) \/ Unacknowledge(t, n)
      PROVE  LookInv'
  <2>1. /\ job.at = "idle" /\ UNCHANGED <<alarms, lookup, seq>>
        /\ \/ job' = Handler("ack_alarm", "ACK", n, NoDelta)
           \/ job' = Handler("ack_alarm", "UNACK", n, NoDelta) \/ UNCHANGED job
    BY <1>7 DEF Acknowledge, Unacknowledge, Receive
  <2>2. job'.at # "alarm_stats"
    <3>1. /\ Handler("ack_alarm", "ACK", n, NoDelta).at = "ack_alarm"
          /\ Handler("ack_alarm", "UNACK", n, NoDelta).at = "ack_alarm"
      BY DEF Handler
    <3>2. job'.at = "ack_alarm" \/ job'.at = "idle"
      BY <2>1, <3>1
    <3> QED
      BY <3>2
  <2> QED
    BY <2>1, <2>2 DEF LookInv, LookupSound
<1>8. ASSUME NEW c \in Records, NEW p \in Profiles, Restart(c, p)
      PROVE  LookInv'
  <2>1. DOMAIN lookup' = {}
    BY <1>8 DEF Restart, NoMap
  <2> QED
    BY <2>1 DEF LookInv, LookupSound
<1> QED
  BY <1>1, <1>2, <1>3, <1>4, <1>5, <1>6, <1>7, <1>8 DEF AlarmStep

\* LookupSound: a CLEAR finds the row of its own alarm, whatever ids a restart
\* gave out again.
THEOREM LookupSoundAlways == Spec => []LookupSound
<1>1. Init => TInv /\ LookInv
  <2> SUFFICES ASSUME Init PROVE TInv /\ LookInv
    OBVIOUS
  <2>1. DOMAIN lookup = {}
    BY DEF Init, NoMap
  <2> QED
    BY <2>1, InitType DEF LookInv, LookupSound
<1>2. TInv /\ LookInv /\ [Next]_vars => (TInv /\ LookInv)'
  BY NextType, NextAlarm, LookNext
<1>3. TInv /\ LookInv => LookupSound
  BY DEF LookInv
<1> QED
  BY <1>1, <1>2, <1>3, PTL DEF Spec

\* The counters of the alarms, one by one, when nothing is still to be added.
LEMMA Settled ==
  ASSUME TInv, CountInv, job.at # "alarm_stats"
  PROVE  /\ Near(slips, ast.alarms + 0, Un) /\ Near(slips, ast.acknowledged + 0, Ac)
         /\ \A v \in Severity : Near(slips, ast.sev[v] + 0, UnOf(v))
<1>1. /\ job.by.d = 0 /\ job.by.k = 0
      /\ \A v : (IF v = job.by.sev THEN job.by.d ELSE 0) = 0
  BY NothingDue
<1> QED
  BY <1>1 DEF CountInv

\* Outside an ACK the flags are those of the rows.
LEMMA PlainFlags ==
  ASSUME job.at # "ack_alarm"
  PROVE  /\ Un = {n \in DOMAIN alarms : ~alarms[n].ack}
         /\ Ac = {n \in DOMAIN alarms : alarms[n].ack}
         /\ \A v : UnOf(v) = {n \in DOMAIN alarms : ~alarms[n].ack /\ alarms[n].sev = v}
BY DEF Un, Ac, UnOf, AckOf

\* A RAISE adds an alarm; an id given out again may take one away.
LEMMA CountRaise ==
  ASSUME TInv, CountInv, NEW key, NEW sev, RaiseStep(key, sev)
  PROVE  CountInv'
<1> DEFINE id == seq + 1
           row == [key |-> key, sev |-> sev, ack |-> FALSE]
<1>1. /\ job.at = "idle" /\ sev \in Severity /\ ast' = ast
      /\ alarms' = Put(alarms, id, row)
      /\ job' = Handler("alarm_stats", "RAISE", 0, Delta(sev, 1, 0))
      /\ slips' = slips + IF id \in DOMAIN alarms THEN 1 ELSE 0
  BY DEF RaiseStep
<1>2. job'.at = "alarm_stats" /\ job'.by.d = 1 /\ job'.by.k = 0 /\ job'.by.sev = sev
  BY <1>1 DEF Handler, Delta
<1>3. row.ack = FALSE /\ row.sev = sev
  OBVIOUS
<1> HIDE DEF row, id
<1>4. DOMAIN alarms' = DOMAIN alarms \union {id}
      /\ \A m \in DOMAIN alarms' : alarms'[m] = IF m = id THEN row ELSE alarms[m]
  BY <1>1 DEF Put
<1>5. Un' = Un \union {id} /\ Ac' = Ac \ {id}
      /\ UnOf(sev)' = UnOf(sev) \union {id}
      /\ \A v : v # sev => UnOf(v)' = UnOf(v) \ {id}
  <2>1. /\ Un = {n \in DOMAIN alarms : ~alarms[n].ack}
        /\ Ac = {n \in DOMAIN alarms : alarms[n].ack}
        /\ \A v : UnOf(v) = {n \in DOMAIN alarms : ~alarms[n].ack /\ alarms[n].sev = v}
    BY <1>1, PlainFlags
  <2>2. /\ Un' = {n \in DOMAIN alarms' : ~alarms'[n].ack}
        /\ Ac' = {n \in DOMAIN alarms' : alarms'[n].ack}
        /\ \A v : UnOf(v)' = {n \in DOMAIN alarms' : ~alarms'[n].ack /\ alarms'[n].sev = v}
    BY <1>2 DEF Un, Ac, UnOf, AckOf
  <2>3. Un' = Un \union {id}
    BY <2>1, <2>2, <1>3, <1>4
  <2>4. Ac' = Ac \ {id}
    BY <2>1, <2>2, <1>3, <1>4
  <2>5. UnOf(sev)' = UnOf(sev) \union {id}
    <3>1. \A n : n \in UnOf(sev)' <=> n \in UnOf(sev) \union {id}
      BY <2>1, <2>2, <1>3, <1>4
    <3> QED
      BY <3>1
  <2>6. \A v : v # sev => UnOf(v)' = UnOf(v) \ {id}
    <3> SUFFICES ASSUME NEW v, v # sev PROVE \A n : n \in UnOf(v)' <=> n \in UnOf(v) \ {id}
      OBVIOUS
    <3> QED
      BY <2>1, <2>2, <1>3, <1>4
  <2> QED
    BY <2>3, <2>4, <2>5, <2>6
<1>6. /\ Near(slips, ast.alarms + 0, Un) /\ Near(slips, ast.acknowledged + 0, Ac)
      /\ \A v \in Severity : Near(slips, ast.sev[v] + 0, UnOf(v))
  BY <1>1, Settled
<1>7. id \notin DOMAIN alarms => id \notin Un /\ id \notin Ac /\ \A v : id \notin UnOf(v)
  BY DEF Un, Ac, UnOf
<1>8. ASSUME NEW c \in Int, NEW S, S \subseteq 1..MaxSeq, Near(slips, c + 0, S),
             id \notin DOMAIN alarms => id \notin S
      PROVE  Near(slips', c + 1, S \union {id}) /\ Near(slips', c + 0, S \ {id})
  <2>1. CASE id \in DOMAIN alarms
    <3>1. slips' = slips + 1
      BY <1>1, <2>1
    <3>2. Near(slips + 1, c + 1, S \union {id}) /\ Near(slips + 1, c + 0, S \ {id})
      BY <1>8, AlarmNumbers, NearBy
    <3> QED
      BY <3>1, <3>2
  <2>2. CASE id \notin DOMAIN alarms
    <3>1. slips' = slips
      <4>1. slips' = slips + 0 /\ slips \in Nat
        BY <1>1, <2>2, AlarmNumbers
      <4> QED
        BY <4>1, SMT
    <3>2. Near(slips, c + 1, S \union {id}) /\ Near(slips, c + 0, S \ {id})
      BY <1>8, <2>2, AlarmNumbers, NearBy
    <3> QED
      BY <3>1, <3>2
  <2> QED
    BY <2>1, <2>2
<1>9. Near(slips', ast.alarms + 1, Un \union {id})
  BY <1>6, <1>7, <1>8, AlarmNumbers
<1>10. Near(slips', ast.acknowledged + 0, Ac \ {id})
  BY <1>6, <1>7, <1>8, AlarmNumbers
<1>11. \A v \in Severity : /\ Near(slips', ast.sev[v] + 1, UnOf(v) \union {id})
                           /\ Near(slips', ast.sev[v] + 0, UnOf(v) \ {id})
  BY <1>6, <1>7, <1>8, AlarmNumbers
<1>12. Near(slips, ast.alarms + job.by.d, Un)' /\ Near(slips, ast.acknowledged + job.by.k, Ac)'
  BY <1>1, <1>2, <1>5, <1>9, <1>10 DEF Near
<1>13. ASSUME NEW v \in Severity
       PROVE  Near(slips', ast'.sev[v] + IF v = job'.by.sev THEN job'.by.d ELSE 0, UnOf(v)')
  <2>1. CASE v = sev
    BY <1>1, <1>2, <1>5, <1>11, <2>1
  <2>2. CASE v # sev
    BY <1>1, <1>2, <1>5, <1>11, <2>2
  <2> QED
    BY <2>1, <2>2
<1>14. (\A v \in Severity :
          Near(slips, ast.sev[v] + IF v = job.by.sev THEN job.by.d ELSE 0, UnOf(v)))'
  BY <1>13 DEF Near
<1> QED
  BY <1>12, <1>14 DEF CountInv

\* A CLEAR takes one away, and off the counters of its severity if that is still
\* the profile's.
LEMMA CountClear ==
  ASSUME TInv, LookInv, CountInv, NEW key, NEW sev, ClearStep(key, sev)
  PROVE  CountInv'
<1> DEFINE id == lookup[key]
           by == IF alarms[id].ack THEN Delta(Absent, 0, -1) ELSE Delta(sev, -1, 0)
<1>1. /\ job.at = "idle" /\ sev \in Severity /\ ast' = ast /\ id \in DOMAIN alarms
      /\ alarms' = Del(alarms, {id}) /\ job' = Handler("alarm_stats", "CLEAR", 0, by)
      /\ slips' = slips + IF ~alarms[id].ack /\ alarms[id].sev # sev THEN 1 ELSE 0
  BY DEF ClearStep, LookInv, LookupSound
<1>2. job'.at = "alarm_stats" /\ job'.by = by
  BY <1>1 DEF Handler
<1>3. /\ alarms[id].ack => by.d = 0 /\ by.k = -1 /\ by.sev = Absent
      /\ ~alarms[id].ack => by.d = -1 /\ by.k = 0 /\ by.sev = sev
  BY DEF Delta
<1> HIDE DEF by, id
<1>4. DOMAIN alarms' = DOMAIN alarms \ {id}
      /\ \A m \in DOMAIN alarms \ {id} : alarms'[m] = alarms[m]
  BY <1>1 DEF Del
<1>5. /\ Un = {n \in DOMAIN alarms : ~alarms[n].ack}
      /\ Ac = {n \in DOMAIN alarms : alarms[n].ack}
      /\ \A v : UnOf(v) = {n \in DOMAIN alarms : ~alarms[n].ack /\ alarms[n].sev = v}
  BY <1>1, PlainFlags
<1>6. Un' = Un \ {id} /\ Ac' = Ac \ {id} /\ \A v : UnOf(v)' = UnOf(v) \ {id}
  <2>1. /\ Un' = {n \in DOMAIN alarms' : ~alarms'[n].ack}
        /\ Ac' = {n \in DOMAIN alarms' : alarms'[n].ack}
        /\ \A v : UnOf(v)' = {n \in DOMAIN alarms' : ~alarms'[n].ack /\ alarms'[n].sev = v}
    BY <1>2 DEF Un, Ac, UnOf, AckOf
  <2>2. Un' = Un \ {id}
    <3>1. \A n : n \in Un' <=> n \in Un \ {id}
      BY <1>4, <1>5, <2>1
    <3> QED
      BY <3>1
  <2>3. Ac' = Ac \ {id}
    <3>1. \A n : n \in Ac' <=> n \in Ac \ {id}
      BY <1>4, <1>5, <2>1
    <3> QED
      BY <3>1
  <2>4. \A v : UnOf(v)' = UnOf(v) \ {id}
    <3> SUFFICES ASSUME NEW v PROVE \A n : n \in UnOf(v)' <=> n \in UnOf(v) \ {id}
      OBVIOUS
    <3> QED
      BY <1>4, <1>5, <2>1
  <2> QED
    BY <2>2, <2>3, <2>4
<1>7. /\ id \in Un <=> ~alarms[id].ack
      /\ id \in Ac <=> alarms[id].ack
      /\ \A v : id \in UnOf(v) <=> ~alarms[id].ack /\ alarms[id].sev = v
  BY <1>1, <1>5
<1>8. /\ Near(slips, ast.alarms + 0, Un) /\ Near(slips, ast.acknowledged + 0, Ac)
      /\ \A v \in Severity : Near(slips, ast.sev[v] + 0, UnOf(v))
  BY <1>1, Settled
<1>s. slips + 0 = slips
  BY AlarmNumbers, SMT
<1> DEFINE Good == /\ Near(slips', ast.alarms + by.d, Un \ {id})
                   /\ Near(slips', ast.acknowledged + by.k, Ac \ {id})
                   /\ \A v \in Severity :
                        Near(slips', ast.sev[v] + IF v = by.sev THEN by.d ELSE 0, UnOf(v) \ {id})
<1>9. ASSUME alarms[id].ack PROVE Good
  <2>1. slips' = slips
    BY <1>1, <1>9, <1>s
  <2>2. Near(slips, ast.alarms + 0, Un \ {id})
    BY <1>7, <1>8, <1>9, AlarmNumbers, NearBy
  <2>3. Near(slips, ast.acknowledged + (-1), Ac \ {id})
    BY <1>7, <1>8, <1>9, AlarmNumbers, NearBy
  <2>4. \A v \in Severity : Near(slips, ast.sev[v] + 0, UnOf(v) \ {id})
    BY <1>7, <1>8, <1>9, AlarmNumbers, NearBy
  <2>5. \A v \in Severity : (IF v = by.sev THEN by.d ELSE 0) = 0
    BY <1>3, <1>9
  <2> QED
    BY <1>3, <1>9, <2>1, <2>2, <2>3, <2>4, <2>5
<1>10. ASSUME ~alarms[id].ack, alarms[id].sev = sev PROVE Good
  <2>1. slips' = slips
    BY <1>1, <1>10, <1>s
  <2>2. Near(slips, ast.alarms + (-1), Un \ {id})
    BY <1>7, <1>8, <1>10, AlarmNumbers, NearBy
  <2>3. Near(slips, ast.acknowledged + 0, Ac \ {id})
    BY <1>7, <1>8, <1>10, AlarmNumbers, NearBy
  <2>4. \A v \in Severity :
          Near(slips, ast.sev[v] + IF v = by.sev THEN by.d ELSE 0, UnOf(v) \ {id})
    <3> SUFFICES ASSUME NEW v \in Severity
                 PROVE  Near(slips, ast.sev[v] + IF v = by.sev THEN by.d ELSE 0, UnOf(v) \ {id})
      OBVIOUS
    <3>1. CASE v = sev
      <4>1. Near(slips, ast.sev[v] + (-1), UnOf(v) \ {id})
        BY <1>7, <1>8, <1>10, <3>1, AlarmNumbers, NearBy
      <4> QED
        BY <1>3, <1>10, <3>1, <4>1
    <3>2. CASE v # sev
      <4>1. Near(slips, ast.sev[v] + 0, UnOf(v) \ {id})
        BY <1>7, <1>8, <1>10, <3>2, AlarmNumbers, NearBy
      <4> QED
        BY <1>3, <1>10, <3>2, <4>1
    <3> QED
      BY <3>1, <3>2
  <2> QED
    BY <1>3, <1>10, <2>1, <2>2, <2>3, <2>4
<1>11. ASSUME ~alarms[id].ack, alarms[id].sev # sev PROVE Good
  <2>1. slips' = slips + 1
    BY <1>1, <1>11
  <2>2. Near(slips + 1, ast.alarms + (-1), Un \ {id})
    BY <1>8, AlarmNumbers, NearBy
  <2>3. Near(slips + 1, ast.acknowledged + 0, Ac \ {id})
    BY <1>8, AlarmNumbers, NearBy
  <2>4. \A v \in Severity : /\ Near(slips + 1, ast.sev[v] + (-1), UnOf(v) \ {id})
                            /\ Near(slips + 1, ast.sev[v] + 0, UnOf(v) \ {id})
    BY <1>8, AlarmNumbers, NearBy
  <2>5. \A v \in Severity :
          Near(slips + 1, ast.sev[v] + IF v = by.sev THEN by.d ELSE 0, UnOf(v) \ {id})
    BY <1>3, <1>11, <2>4
  <2> QED
    BY <1>3, <1>11, <2>1, <2>2, <2>3, <2>5
<1>12. Good
  BY <1>9, <1>10, <1>11
<1>13. Near(slips, ast.alarms + job.by.d, Un)' /\ Near(slips, ast.acknowledged + job.by.k, Ac)'
  BY <1>1, <1>2, <1>6, <1>12 DEF Near
<1>14. (\A v \in Severity :
          Near(slips, ast.sev[v] + IF v = job.by.sev THEN job.by.d ELSE 0, UnOf(v)))'
  BY <1>1, <1>2, <1>6, <1>12 DEF Near
<1> QED
  BY <1>13, <1>14 DEF CountInv

\* A step after which nothing is to be added, and the counters are near their
\* sets.
LEMMA Settles ==
  ASSUME TInv', job'.by = NoDelta,
         Near(slips', ast'.alarms, Un'), Near(slips', ast'.acknowledged, Ac'),
         \A v \in Severity : Near(slips', ast'.sev[v], UnOf(v)')
  PROVE  CountInv'
<1>1. ast' \in [alarms : Int, acknowledged : Int, sev : [Severity -> Int]]
  BY DEF TInv, TypeOK
<1>2. /\ ast'.alarms + 0 = ast'.alarms /\ ast'.acknowledged + 0 = ast'.acknowledged
      /\ \A v \in Severity : ast'.sev[v] + 0 = ast'.sev[v]
  <2>1. /\ ast'.alarms \in Int /\ ast'.acknowledged \in Int
        /\ \A v \in Severity : ast'.sev[v] \in Int
    BY <1>1
  <2>2. \A i \in Int : i + 0 = i
    BY SMT
  <2> QED
    BY <2>1, <2>2
<1>3. /\ job'.by.d = 0 /\ job'.by.k = 0
      /\ \A v : (IF v = job'.by.sev THEN job'.by.d ELSE 0) = 0
  BY IdleType
<1>4. Near(slips, ast.alarms + job.by.d, Un)' /\ Near(slips, ast.acknowledged + job.by.k, Ac)'
  BY <1>2, <1>3 DEF Near
<1>5. \A v \in Severity :
        Near(slips', ast'.sev[v] + IF v = job'.by.sev THEN job'.by.d ELSE 0, UnOf(v)')
  BY <1>2, <1>3
<1>6. (\A v \in Severity :
         Near(slips, ast.sev[v] + IF v = job.by.sev THEN job.by.d ELSE 0, UnOf(v)))'
  BY <1>5 DEF Near
<1> QED
  BY <1>4, <1>6 DEF CountInv


\* An ACK moves the alarm from the active ones to the acknowledged ones.
LEMMA CountAck ==
  ASSUME TInv, TInv', CountInv, NEW n \in DOMAIN alarms, ~alarms[n].ack, job.at = "idle",
         ast' = AlarmStats(Delta(alarms[n].sev, -1, 1)),
         job' = Handler("ack_alarm", "ACK", n, NoDelta), UNCHANGED <<alarms, slips>>
  PROVE  CountInv'
<1> DEFINE sev == alarms[n].sev
<1>1. job'.at = "ack_alarm" /\ job'.act = "ACK" /\ job'.n = n /\ job'.by = NoDelta
  BY DEF Handler
<1>2. sev \in Severity
  BY Tables DEF IsTable, Alarm
<1>3. /\ ast'.alarms = ast.alarms + (-1) /\ ast'.acknowledged = ast.acknowledged + 1
      /\ \A v \in Severity : ast'.sev[v] = ast.sev[v] + IF v = sev THEN (-1) ELSE 0
  BY DEF AlarmStats, Delta
<1> HIDE DEF sev
<1>4. /\ Un = {m \in DOMAIN alarms : ~alarms[m].ack}
      /\ Ac = {m \in DOMAIN alarms : alarms[m].ack}
      /\ \A v : UnOf(v) = {m \in DOMAIN alarms : ~alarms[m].ack /\ alarms[m].sev = v}
  BY PlainFlags
<1>5. \A m \in DOMAIN alarms : AckOf(m)' <=> IF m = n THEN TRUE ELSE alarms[m].ack
  BY <1>1 DEF AckOf
<1>6. Un' = Un \ {n} /\ Ac' = Ac \union {n}
  <2>1. Un' = {m \in DOMAIN alarms : ~AckOf(m)'} /\ Ac' = {m \in DOMAIN alarms : AckOf(m)'}
    BY DEF Un, Ac
  <2>2. \A m : m \in Un' <=> m \in Un \ {n}
    BY <1>4, <1>5, <2>1
  <2>3. \A m : m \in Ac' <=> m \in Ac \union {n}
    BY <1>4, <1>5, <2>1
  <2> QED
    BY <2>2, <2>3
<1>7. \A v : UnOf(v)' = IF v = sev THEN UnOf(v) \ {n} ELSE UnOf(v) \ {n}
  <2> SUFFICES ASSUME NEW v
               PROVE  \A m : m \in UnOf(v)' <=> m \in IF v = sev THEN UnOf(v) \ {n} ELSE UnOf(v) \ {n}
    OBVIOUS
  <2>1. UnOf(v)' = {m \in DOMAIN alarms : ~AckOf(m)' /\ alarms[m].sev = v}
    BY DEF UnOf
  <2> QED
    BY <1>4, <1>5, <2>1 DEF sev
<1>8. n \in Un /\ n \notin Ac /\ \A v : n \in UnOf(v) <=> v = sev
  BY <1>4 DEF sev
<1>9. /\ Near(slips, ast.alarms + 0, Un) /\ Near(slips, ast.acknowledged + 0, Ac)
      /\ \A v \in Severity : Near(slips, ast.sev[v] + 0, UnOf(v))
  BY Settled
<1>10. Near(slips, ast.alarms + (-1), Un \ {n})
  BY <1>8, <1>9, AlarmNumbers, NearBy
<1>11. Near(slips, ast.acknowledged + 1, Ac \union {n})
  BY <1>8, <1>9, AlarmNumbers, NearBy
<1>12. \A v \in Severity : Near(slips, ast'.sev[v], UnOf(v)')
  <2> SUFFICES ASSUME NEW v \in Severity PROVE Near(slips, ast'.sev[v], UnOf(v)')
    OBVIOUS
  <2>1. CASE v = sev
    <3>1. Near(slips, ast.sev[v] + (-1), UnOf(v) \ {n})
      BY <1>8, <1>9, <2>1, AlarmNumbers, NearBy
    <3>2. ast'.sev[v] = ast.sev[v] + (-1) /\ UnOf(v)' = UnOf(v) \ {n}
      BY <1>3, <1>7, <2>1
    <3> QED
      BY <3>1, <3>2
  <2>2. CASE v # sev
    <3>1. Near(slips, ast.sev[v] + 0, UnOf(v) \ {n})
      BY <1>8, <1>9, <2>2, AlarmNumbers, NearBy
    <3>2. ast'.sev[v] = ast.sev[v] + 0 /\ UnOf(v)' = UnOf(v) \ {n}
      BY <1>3, <1>7, <2>2
    <3> QED
      BY <3>1, <3>2
  <2> QED
    BY <2>1, <2>2
<1>13. Near(slips', ast'.alarms, Un') /\ Near(slips', ast'.acknowledged, Ac')
  BY <1>3, <1>6, <1>10, <1>11
<1> QED
  BY <1>1, <1>12, <1>13, Settles


\* An UNACK moves it back.
LEMMA CountUnack ==
  ASSUME TInv, TInv', CountInv, NEW n \in DOMAIN alarms, alarms[n].ack, job.at = "idle",
         ast' = AlarmStats(Delta(alarms[n].sev, 1, -1)),
         job' = Handler("ack_alarm", "UNACK", n, NoDelta), UNCHANGED <<alarms, slips>>
  PROVE  CountInv'
<1> DEFINE sev == alarms[n].sev
<1>1. job'.at = "ack_alarm" /\ job'.act = "UNACK" /\ job'.n = n /\ job'.by = NoDelta
  BY DEF Handler
<1>2. sev \in Severity
  BY Tables DEF IsTable, Alarm
<1>3. /\ ast'.alarms = ast.alarms + 1 /\ ast'.acknowledged = ast.acknowledged + (-1)
      /\ \A v \in Severity : ast'.sev[v] = ast.sev[v] + IF v = sev THEN 1 ELSE 0
  BY DEF AlarmStats, Delta
<1> HIDE DEF sev
<1>4. /\ Un = {m \in DOMAIN alarms : ~alarms[m].ack}
      /\ Ac = {m \in DOMAIN alarms : alarms[m].ack}
      /\ \A v : UnOf(v) = {m \in DOMAIN alarms : ~alarms[m].ack /\ alarms[m].sev = v}
  BY PlainFlags
<1>5. \A m \in DOMAIN alarms : AckOf(m)' <=> IF m = n THEN FALSE ELSE alarms[m].ack
  BY <1>1 DEF AckOf
<1>6. Un' = Un \union {n} /\ Ac' = Ac \ {n}
  <2>1. Un' = {m \in DOMAIN alarms : ~AckOf(m)'} /\ Ac' = {m \in DOMAIN alarms : AckOf(m)'}
    BY DEF Un, Ac
  <2>2. \A m : m \in Un' <=> m \in Un \union {n}
    BY <1>4, <1>5, <2>1
  <2>3. \A m : m \in Ac' <=> m \in Ac \ {n}
    BY <1>4, <1>5, <2>1
  <2> QED
    BY <2>2, <2>3
<1>7. \A v : UnOf(v)' = IF v = sev THEN UnOf(v) \union {n} ELSE UnOf(v) \ {n}
  <2> SUFFICES ASSUME NEW v
               PROVE  \A m : m \in UnOf(v)' <=> m \in IF v = sev THEN UnOf(v) \union {n} ELSE UnOf(v) \ {n}
    OBVIOUS
  <2>1. UnOf(v)' = {m \in DOMAIN alarms : ~AckOf(m)' /\ alarms[m].sev = v}
    BY DEF UnOf
  <2> QED
    BY <1>4, <1>5, <2>1 DEF sev
<1>8. n \notin Un /\ n \in Ac /\ \A v : n \notin UnOf(v)
  BY <1>4 DEF sev
<1>9. /\ Near(slips, ast.alarms + 0, Un) /\ Near(slips, ast.acknowledged + 0, Ac)
      /\ \A v \in Severity : Near(slips, ast.sev[v] + 0, UnOf(v))
  BY Settled
<1>10. Near(slips, ast.alarms + 1, Un \union {n})
  BY <1>8, <1>9, AlarmNumbers, NearBy
<1>11. Near(slips, ast.acknowledged + (-1), Ac \ {n})
  BY <1>8, <1>9, AlarmNumbers, NearBy
<1>12. \A v \in Severity : Near(slips, ast'.sev[v], UnOf(v)')
  <2> SUFFICES ASSUME NEW v \in Severity PROVE Near(slips, ast'.sev[v], UnOf(v)')
    OBVIOUS
  <2>1. CASE v = sev
    <3>1. Near(slips, ast.sev[v] + 1, UnOf(v) \union {n})
      BY <1>8, <1>9, <2>1, AlarmNumbers, NearBy
    <3>2. ast'.sev[v] = ast.sev[v] + 1 /\ UnOf(v)' = UnOf(v) \union {n}
      BY <1>3, <1>7, <2>1
    <3> QED
      BY <3>1, <3>2
  <2>2. CASE v # sev
    <3>1. Near(slips, ast.sev[v] + 0, UnOf(v) \ {n})
      BY <1>8, <1>9, <2>2, AlarmNumbers, NearBy
    <3>2. ast'.sev[v] = ast.sev[v] + 0 /\ UnOf(v)' = UnOf(v) \ {n}
      BY <1>3, <1>7, <2>2
    <3> QED
      BY <3>1, <3>2
  <2> QED
    BY <2>1, <2>2
<1>13. Near(slips', ast'.alarms, Un') /\ Near(slips', ast'.acknowledged, Ac')
  BY <1>3, <1>6, <1>10, <1>11
<1> QED
  BY <1>1, <1>12, <1>13, Settles

\* What the alarm counters may be off by now.
OffA == slips + IF TearsAlarm THEN 1 ELSE 0

\* The counters, whatever the stage: this is AlarmStatsMatch.
LEMMA AlarmBounds ==
  ASSUME TInv, CountInv
  PROVE  /\ Near(OffA, ast.alarms, Unacked) /\ Near(OffA, ast.acknowledged, Acked)
         /\ \A v \in Severity : Near(OffA, ast.sev[v], {n \in Unacked : alarms[n].sev = v})
<1> DEFINE UaOf(v) == {n \in Unacked : alarms[n].sev = v}
<1>1. CASE job.at # "ack_alarm"
  <2>1. Un = Unacked /\ Ac = Acked /\ \A v : UnOf(v) = UaOf(v)
    <3>1. /\ Un = {n \in DOMAIN alarms : ~alarms[n].ack}
          /\ Ac = {n \in DOMAIN alarms : alarms[n].ack}
          /\ \A v : UnOf(v) = {n \in DOMAIN alarms : ~alarms[n].ack /\ alarms[n].sev = v}
      BY <1>1, PlainFlags
    <3>2. \A v : UaOf(v) = {n \in DOMAIN alarms : ~alarms[n].ack /\ alarms[n].sev = v}
      BY DEF Unacked
    <3> QED
      BY <3>1, <3>2 DEF Unacked, Acked
  <2> HIDE DEF UaOf
  <2>2. CASE job.at # "alarm_stats"
    <3>1. OffA = slips + 0
      BY <1>1, <2>2 DEF OffA, TearsAlarm
    <3>2. /\ Near(slips, ast.alarms + 0, Un) /\ Near(slips, ast.acknowledged + 0, Ac)
          /\ \A v \in Severity : Near(slips, ast.sev[v] + 0, UnOf(v))
      BY <2>2, Settled
    <3>3. Near(slips + 0, ast.alarms, Un) /\ Near(slips + 0, ast.acknowledged, Ac)
      BY <3>2, AlarmNumbers, NearSame
    <3>4. \A v \in Severity : Near(slips + 0, ast.sev[v], UnOf(v))
      BY <3>2, AlarmNumbers, NearSame
    <3> QED
      BY <2>1, <3>1, <3>3, <3>4 DEF UaOf
  <2>3. CASE job.at = "alarm_stats"
    <3>1. OffA = slips + 1
      BY <2>3 DEF OffA, TearsAlarm
    <3>2. Near(slips + 1, ast.alarms, Un)
      BY AlarmNumbers, NearLapse DEF CountInv
    <3>3. Near(slips + 1, ast.acknowledged, Ac)
      BY AlarmNumbers, NearLapse DEF CountInv
    <3>4. \A v \in Severity : Near(slips + 1, ast.sev[v], UnOf(v))
      <4> SUFFICES ASSUME NEW v \in Severity PROVE Near(slips + 1, ast.sev[v], UnOf(v))
        OBVIOUS
      <4> DEFINE d == IF v = job.by.sev THEN job.by.d ELSE 0
      <4>1. d \in -1..1
        BY AlarmNumbers, Deltas
      <4>2. Near(slips, ast.sev[v] + d, UnOf(v))
        BY DEF CountInv
      <4> HIDE DEF d
      <4> QED
        BY <4>1, <4>2, AlarmNumbers, NearLapse
    <3> QED
      BY <2>1, <3>1, <3>2, <3>3, <3>4 DEF UaOf
  <2> QED
    BY <2>2, <2>3
<1>2. CASE job.at = "ack_alarm"
  <2>1. OffA = slips + 1
    BY <1>2 DEF OffA, TearsAlarm
  <2>2. /\ Near(slips, ast.alarms + 0, Un) /\ Near(slips, ast.acknowledged + 0, Ac)
        /\ \A v \in Severity : Near(slips, ast.sev[v] + 0, UnOf(v))
    BY <1>2, Settled
  <2>3. \A m \in DOMAIN alarms : m # job.n => (AckOf(m) <=> alarms[m].ack)
    BY DEF AckOf
  <2>4. Un \ {job.n} = Unacked \ {job.n}
    BY <2>3 DEF Un, Unacked
  <2>5. Ac \ {job.n} = Acked \ {job.n}
    BY <2>3 DEF Ac, Acked
  <2>6. \A v : UnOf(v) \ {job.n} = UaOf(v) \ {job.n}
    <3> SUFFICES ASSUME NEW v
                 PROVE  \A m : m \in UnOf(v) \ {job.n} <=> m \in UaOf(v) \ {job.n}
      OBVIOUS
    <3> QED
      BY <2>3 DEF UnOf, Unacked
  <2>7. \A v : UaOf(v) \subseteq 1..MaxSeq
    BY AlarmNumbers
  <2> HIDE DEF UaOf
  <2>8. Near(slips + 1, ast.alarms, Unacked)
    BY <2>2, <2>4, AlarmNumbers, NearFlip
  <2>9. Near(slips + 1, ast.acknowledged, Acked)
    BY <2>2, <2>5, AlarmNumbers, NearFlip
  <2>10. \A v \in Severity : Near(slips + 1, ast.sev[v], UaOf(v))
    <3> SUFFICES ASSUME NEW v \in Severity PROVE Near(slips + 1, ast.sev[v], UaOf(v))
      OBVIOUS
    <3> QED
      BY <2>2, <2>6, <2>7, AlarmNumbers, NearFlip
  <2> QED
    BY <2>1, <2>8, <2>9, <2>10 DEF UaOf
<1> QED
  BY <1>1, <1>2

\* The alarm counters keep their invariant in every step.
LEMMA CountNext ==
  ASSUME TInv, TInv', LookInv, CountInv, AlarmStep
  PROVE  CountInv'
<1>1. CASE AlarmQuiet
  <2>1. /\ UNCHANGED <<alarms, ast, slips>> /\ job.at \notin {"alarm_stats", "ack_alarm"}
        /\ job'.at \notin {"alarm_stats", "ack_alarm"}
    BY <1>1 DEF AlarmQuiet
  <2>2. Un' = Un /\ Ac' = Ac /\ \A v : UnOf(v)' = UnOf(v)
    BY <2>1 DEF Un, Ac, UnOf, AckOf
  <2>3. job.by = job'.by
    BY <2>1 DEF TInv, StageInv
  <2> QED
    BY <2>1, <2>2, <2>3 DEF CountInv, Near
<1>2. CASE UNCHANGED vars
  BY <1>2 DEF vars, dbVars, histVars, CountInv, Near, Un, Ac, UnOf, AckOf
<1>3. CASE CountAlarm
  <2>1. /\ job.at = "alarm_stats" /\ ast' = AlarmStats(job.by) /\ UNCHANGED <<alarms, slips>>
        /\ job' = Handler("purge", job.act, 0, NoDelta)
    BY <1>3 DEF CountAlarm, histVars
  <2>2. job'.at = "purge" /\ job'.by = NoDelta
    BY <2>1 DEF Handler
  <2>3. Un' = Un /\ Ac' = Ac /\ \A v : UnOf(v)' = UnOf(v)
    BY <2>1, <2>2 DEF Un, Ac, UnOf, AckOf
  <2>4. /\ ast'.alarms = ast.alarms + job.by.d /\ ast'.acknowledged = ast.acknowledged + job.by.k
        /\ \A v \in Severity : ast'.sev[v] = ast.sev[v] + IF v = job.by.sev THEN job.by.d ELSE 0
    BY <2>1 DEF AlarmStats
  <2>5. Near(slips', ast'.alarms, Un') /\ Near(slips', ast'.acknowledged, Ac')
        /\ \A v \in Severity : Near(slips', ast'.sev[v], UnOf(v)')
    BY <2>1, <2>3, <2>4 DEF CountInv
  <2> QED
    BY <2>2, <2>5, Settles
<1>4. CASE AckAlarm
  <2>1. /\ job.at = "ack_alarm" /\ alarms' = [alarms EXCEPT ![job.n].ack = (job.act = "ACK")]
        /\ job' = [job EXCEPT !.at = "ack_event"] /\ UNCHANGED <<ast, slips>>
    BY <1>4 DEF AckAlarm, histVars
  <2>2. job'.at = "ack_event"
    BY <2>1 DEF TInv, TypeOK
  <2>3. alarms \in [DOMAIN alarms -> Alarm]
    BY DEF TInv, TypeOK
  <2>4. DOMAIN alarms' = DOMAIN alarms
    BY <2>1
  <2>5. \A m \in DOMAIN alarms : (alarms'[m].ack <=> AckOf(m)) /\ alarms'[m].sev = alarms[m].sev
    <3> SUFFICES ASSUME NEW m \in DOMAIN alarms
                 PROVE  (alarms'[m].ack <=> AckOf(m)) /\ alarms'[m].sev = alarms[m].sev
      OBVIOUS
    <3>0. \A a \in Alarm : \A b : [a EXCEPT !.ack = b].ack = b /\ [a EXCEPT !.ack = b].sev = a.sev
      BY DEF Alarm
    <3>1. CASE m = job.n
      <4>1. alarms'[m] = [alarms[m] EXCEPT !.ack = (job.act = "ACK")] /\ alarms[m] \in Alarm
        BY <2>1, <2>3, <3>1
      <4>2. [alarms[m] EXCEPT !.ack = (job.act = "ACK")].ack = (job.act = "ACK")
            /\ [alarms[m] EXCEPT !.ack = (job.act = "ACK")].sev = alarms[m].sev
        BY <4>1, <3>0
      <4> QED
        BY <2>1, <3>1, <4>1, <4>2 DEF AckOf
    <3>2. CASE m # job.n
      <4>1. alarms'[m] = alarms[m]
        BY <2>1, <2>3, <3>2
      <4> QED
        BY <3>2, <4>1 DEF AckOf
    <3> QED
      BY <3>1, <3>2
  <2>6. \A m \in DOMAIN alarms : AckOf(m)' <=> AckOf(m)
    BY <2>2, <2>5 DEF AckOf
  <2>7. Un' = Un /\ Ac' = Ac
    <3>1. Un' = {m \in DOMAIN alarms : ~AckOf(m)'} /\ Ac' = {m \in DOMAIN alarms : AckOf(m)'}
      BY <2>4 DEF Un, Ac
    <3>2. (\A m : m \in Un' <=> m \in Un) /\ (\A m : m \in Ac' <=> m \in Ac)
      BY <2>6, <3>1 DEF Un, Ac
    <3> QED
      BY <3>2
  <2>8. \A v : UnOf(v)' = UnOf(v)
    <3> SUFFICES ASSUME NEW v PROVE UnOf(v)' = UnOf(v)
      OBVIOUS
    <3>1. UnOf(v)' = {m \in DOMAIN alarms : ~AckOf(m)' /\ alarms'[m].sev = v}
      BY <2>4 DEF UnOf
    <3>2. \A m : m \in UnOf(v)' <=> m \in UnOf(v)
      BY <2>5, <2>6, <3>1 DEF UnOf
    <3> QED
      BY <3>2
  <2>9. job.by = job'.by
    BY <2>1, <2>2 DEF TInv, StageInv
  <2> QED
    BY <2>1, <2>7, <2>8, <2>9 DEF CountInv, Near
<1>5. ASSUME NEW t \in Type, NEW x \in Source, Raise(t, x) \/ Clear(t, x)
      PROVE  CountInv'
  BY <1>5, RaiseClear, CountRaise, CountClear
<1>6. ASSUME NEW t \in Type, NEW n \in 1..MaxSeq, Acknowledge(t, n)
      PROVE  CountInv'
  <2>1. CASE n \in DOMAIN alarms /\ ~alarms[n].ack
    <3>1. /\ job.at = "idle" /\ ast' = AlarmStats(Delta(alarms[n].sev, -1, 1))
          /\ job' = Handler("ack_alarm", "ACK", n, NoDelta) /\ UNCHANGED <<alarms, slips>>
      BY <1>6, <2>1 DEF Acknowledge, Receive, histVars
    <3> QED
      BY <2>1, <3>1, CountAck
  <2>2. CASE ~(n \in DOMAIN alarms /\ ~alarms[n].ack)
    <3>1. UNCHANGED <<alarms, ast, job, slips>>
      BY <1>6, <2>2 DEF Acknowledge, histVars
    <3> QED
      BY <3>1 DEF CountInv, Near, Un, Ac, UnOf, AckOf
  <2> QED
    BY <2>1, <2>2
<1>7. ASSUME NEW t \in Type, NEW n \in 1..MaxSeq, Unacknowledge(t, n)
      PROVE  CountInv'
  <2>1. CASE n \in DOMAIN alarms /\ alarms[n].ack
    <3>1. /\ job.at = "idle" /\ ast' = AlarmStats(Delta(alarms[n].sev, 1, -1))
          /\ job' = Handler("ack_alarm", "UNACK", n, NoDelta) /\ UNCHANGED <<alarms, slips>>
      BY <1>7, <2>1 DEF Unacknowledge, Receive, histVars
    <3> QED
      BY <2>1, <3>1, CountUnack
  <2>2. CASE ~(n \in DOMAIN alarms /\ alarms[n].ack)
    <3>1. UNCHANGED <<alarms, ast, job, slips>>
      BY <1>7, <2>2 DEF Unacknowledge, histVars
    <3> QED
      BY <3>1 DEF CountInv, Near, Un, Ac, UnOf, AckOf
  <2> QED
    BY <2>1, <2>2
<1>8. ASSUME NEW c \in Records, NEW p \in Profiles, Restart(c, p)
      PROVE  CountInv'
  <2>1. job' = Load /\ slips' = OffA /\ UNCHANGED <<alarms, ast>>
    BY <1>8 DEF Restart, OffA, dbVars
  <2>2. job'.at = "purge" /\ job'.by = NoDelta
    BY <2>1, IdleType
  <2>3. Un' = Unacked /\ Ac' = Acked /\ \A v : UnOf(v)' = {n \in Unacked : alarms[n].sev = v}
    <3>1. \A m \in DOMAIN alarms : AckOf(m)' <=> alarms[m].ack
      BY <2>1, <2>2 DEF AckOf
    <3>2. /\ Un' = {m \in DOMAIN alarms : ~AckOf(m)'} /\ Ac' = {m \in DOMAIN alarms : AckOf(m)'}
          /\ \A v : UnOf(v)' = {m \in DOMAIN alarms : ~AckOf(m)' /\ alarms[m].sev = v}
      BY <2>1 DEF Un, Ac, UnOf
    <3>3. (\A m : m \in Un' <=> m \in Unacked) /\ (\A m : m \in Ac' <=> m \in Acked)
      BY <3>1, <3>2 DEF Unacked, Acked
    <3>4. ASSUME NEW v
          PROVE  \A m : m \in UnOf(v)' <=> m \in {n \in Unacked : alarms[n].sev = v}
      BY <3>1, <3>2 DEF Unacked
    <3> QED
      BY <3>3, <3>4
  <2>4. /\ Near(OffA, ast.alarms, Unacked) /\ Near(OffA, ast.acknowledged, Acked)
        /\ \A v \in Severity : Near(OffA, ast.sev[v], {n \in Unacked : alarms[n].sev = v})
    BY AlarmBounds
  <2>5. Near(slips', ast'.alarms, Un') /\ Near(slips', ast'.acknowledged, Ac')
        /\ \A v \in Severity : Near(slips', ast'.sev[v], UnOf(v)')
    BY <2>1, <2>3, <2>4
  <2> QED
    BY <2>2, <2>5, Settles
<1> QED
  BY <1>1, <1>2, <1>3, <1>4, <1>5, <1>6, <1>7, <1>8 DEF AlarmStep

\* AlarmStatsMatch, for any alarms, profiles and number of restarts: each counter
\* is off its rows by at most the slips, that is the restarts between a row and
\* its counters, the ids given out again while their alarm was active, and the
\* alarms cleared under another severity.
THEOREM AlarmStatsMatchAlways == Spec => []AlarmStatsMatch
<1>1. Init => TInv /\ LookInv /\ CountInv
  <2> SUFFICES ASSUME Init PROVE TInv /\ LookInv /\ CountInv
    OBVIOUS
  <2>1. alarms = NoMap /\ lookup = NoMap /\ job = Idle /\ slips = 0
        /\ ast = [alarms |-> 0, acknowledged |-> 0, sev |-> [s \in Severity |-> 0]]
    BY DEF Init
  <2>2. DOMAIN alarms = {} /\ DOMAIN lookup = {}
    BY <2>1 DEF NoMap
  <2>3. Un = {} /\ Ac = {} /\ \A v : UnOf(v) = {}
    BY <2>2 DEF Un, Ac, UnOf
  <2>4. Near(0, 0 + 0, {})
    BY FS_EmptySet, SMT DEF Near, Within
  <2>5. /\ ast.alarms = 0 /\ ast.acknowledged = 0 /\ \A v \in Severity : ast.sev[v] = 0
        /\ job.by.d = 0 /\ job.by.k = 0 /\ \A v : (IF v = job.by.sev THEN job.by.d ELSE 0) = 0
    BY <2>1, IdleType
  <2>6. CountInv
    BY <2>1, <2>3, <2>4, <2>5 DEF CountInv
  <2> QED
    BY <2>2, <2>6, InitType DEF LookInv, LookupSound
<1>2. TInv /\ LookInv /\ CountInv /\ [Next]_vars => (TInv /\ LookInv /\ CountInv)'
  BY NextType, NextAlarm, LookNext, CountNext
<1>3. TInv /\ LookInv /\ CountInv => AlarmStatsMatch
  BY AlarmBounds DEF AlarmStatsMatch, OffA, Near
<1> QED
  BY <1>1, <1>2, <1>3, PTL DEF Spec
=============================================================================

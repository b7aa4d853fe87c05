-------------------------- MODULE EventdStatsProofs --------------------------
(* Proofs about eventd's counters, for every bound and set of options. *)
EXTENDS EventdStatsProps, TLAPS

\* What the writer has yet to do for a counter, by where it stands in its
\* round: the strengthening that makes WrittenBeforeExit inductive.
WriterOwes(c) ==
    /\ woke[c] <= cnt[c]
    /\ writer \in {"shut", "sleep", "done"} => woke[c] <= db[c]
    /\ writer = "check" => woke[c] <= db[c] \/ updated
    /\ writer = "write" /\ c \notin todo => woke[c] <= db[c]

\* The inductive invariant.
IInv ==
    /\ TypeOK
    /\ NoLostUpdate
    /\ todo # {} => writer = "write"
    /\ \A c \in Counter : WriterOwes(c)

\* Whatever is left of a product, an interval is a number.
LEMMA IntervalType == ASSUME NEW v \in Int PROVE IntervalCounts(v) \subseteq Int
<1>1. CASE v > 0
  <2> DEFINE low == (v * 1000 + 300 - 1) % IntRange
  <2>1. low \in Nat /\ IntRange \in Nat
    BY OptionsAssumption
  <2> HIDE DEF low
  <2>2. ASSUME NEW x \in Int PROVE Quotient(x, 300) \in Int
    BY <2>2 DEF Quotient
  <2>3. (IF 2 * low < IntRange THEN low ELSE low - IntRange) \in Int
    BY <2>1
  <2>4. {low \div 300, Quotient(IF 2 * low < IntRange THEN low ELSE low - IntRange, 300)}
          \subseteq Int
    BY <2>1, <2>2, <2>3
  <2> QED BY <1>1, <2>4 DEF IntervalCounts, STATS_HEARTBEAT_MIN, low
<1>2. CASE ~(v > 0)
  BY <1>2 DEF IntervalCounts
<1> QED BY <1>1, <1>2

\* The invariant holds when eventd starts.
LEMMA InitIInv == Init => IInv
<1> SUFFICES ASSUME Init PROVE IInv OBVIOUS
<1>1. interval \in Int
  BY IntervalType DEF Init, HEARTBEAT_INTERVAL_SECS
<1>2. TypeOK
  <2>1. updated \in BOOLEAN /\ shutdown \in BOOLEAN /\ pause \in BOOLEAN
    BY Zenon DEF Init
  <2>2. echo \in 0..1 /\ quiet \in 0..MaxQuiet /\ hbCntr \in Nat
    BY BoundsAssumption DEF Init
  <2>3. /\ cnt \in [Counter -> Nat] /\ db \in [Counter -> Nat]
        /\ woke \in [Counter -> Nat] /\ adder \in [Counter -> {"idle", "flag"}]
    BY DEF Init
  <2>4. /\ writer \in {"check", "write", "shut", "sleep", "done"}
        /\ collector \in {"init", "recv", "done"} /\ todo \subseteq Counter
    BY DEF Init
  <2> QED BY <1>1, <2>1, <2>2, <2>3, <2>4 DEF TypeOK
<1>3. NoLostUpdate /\ \A c \in Counter : WriterOwes(c)
  BY DEF Init, NoLostUpdate, WriterOwes
<1> QED BY <1>1, <1>2, <1>3 DEF Init, IInv

\* Adding to a counter and raising the flag, from either of the two threads.
LEMMA AddIInv ==
    ASSUME IInv, NEW c \in Counter, NEW n \in Nat, Add(c, n),
           UNCHANGED <<writeVars, optVars, shutdown, collector, echo, quiet>>,
           hbCntr' \in Nat
    PROVE  IInv'
<1>1. TypeOK'
  BY DEF IInv, TypeOK, Add, writeVars, optVars
<1>2. NoLostUpdate'
  BY DEF IInv, TypeOK, NoLostUpdate, Add, writeVars
<1>3. \A d \in Counter : WriterOwes(d)'
  BY DEF IInv, TypeOK, WriterOwes, Add, writeVars
<1> QED BY <1>1, <1>2, <1>3 DEF IInv, writeVars, optVars

\* A step that leaves the counters, the flag and the writer alone.
LEMMA FrameIInv ==
    ASSUME IInv, UNCHANGED <<statVars, writeVars>>, TypeOK'
    PROVE  IInv'
BY DEF IInv, statVars, writeVars, NoLostUpdate, WriterOwes

\* Every step of every thread keeps the invariant.
LEMMA NextIInv == IInv /\ [Next]_vars => IInv'
<1> SUFFICES ASSUME IInv, [Next]_vars PROVE IInv' OBVIOUS
<1> USE DEF IInv
<1>1. CASE UNCHANGED vars
  BY <1>1
     DEF vars, statVars, writeVars, beatVars, optVars, TypeOK, NoLostUpdate,
     WriterOwes
<1>2. ASSUME NEW n \in 0..1, ReceiveEvent(n) PROVE IInv'
  <2>1. Published \in Counter BY DEF Counter
  <2> QED BY <1>2, <2>1, AddIInv DEF ReceiveEvent, optVars
<1>3. CASE CountMissed
  <2>1. Missed \in Counter BY DEF Counter
  <2>2. hbCntr' \in Nat BY <1>3 DEF CountMissed, beatVars, TypeOK
  <2> QED BY <1>3, <2>1, <2>2, AddIInv DEF CountMissed, beatVars
<1>4. ASSUME NEW c \in Counter, Flag(c) PROVE IInv'
  BY <1>4
     DEF Flag, TypeOK, NoLostUpdate, WriterOwes, writeVars, beatVars, optVars
<1>5. CASE WriterCheck
  BY <1>5 DEF WriterCheck, TypeOK, NoLostUpdate, WriterOwes, beatVars, optVars
<1>6. ASSUME NEW c \in Counter, WriterSet(c) PROVE IInv'
  <2>1. TypeOK'
    BY <1>6 DEF WriterSet, TypeOK, statVars, beatVars, optVars
  <2>2. NoLostUpdate'
    BY <1>6 DEF WriterSet, TypeOK, NoLostUpdate, statVars
  <2>3. \A d \in Counter : WriterOwes(d)'
    BY <1>6 DEF WriterSet, TypeOK, WriterOwes, statVars
  <2> QED BY <1>6, <2>1, <2>2, <2>3 DEF WriterSet, statVars, optVars
<1>7. CASE WriterShut
  BY <1>7
     DEF WriterShut, TypeOK, NoLostUpdate, WriterOwes, statVars, beatVars,
         optVars
<1>8. CASE WriterWake
  <2>1. TypeOK'
    BY <1>8 DEF WriterWake, TypeOK, statVars, beatVars, optVars
  <2>2. NoLostUpdate'
    BY <1>8 DEF WriterWake, NoLostUpdate, statVars
  <2>3. \A d \in Counter : WriterOwes(d)'
    BY <1>8 DEF WriterWake, TypeOK, NoLostUpdate, WriterOwes, statVars
  <2> QED BY <1>8, <2>1, <2>2, <2>3 DEF WriterWake, statVars, optVars
<1>9. ASSUME CollectorUp \/ CollectorFails \/ CollectorEnds PROVE IInv'
  <2>1. TypeOK'
    BY <1>9
       DEF CollectorUp, CollectorFails, CollectorEnds, CollectorOut, TypeOK,
       statVars, writeVars, optVars
  <2> QED BY <1>9, <2>1, FrameIInv
          DEF CollectorUp, CollectorFails, CollectorEnds, CollectorOut, optVars
<1>10. ASSUME ReceiveNothing \/ ReceiveHeartbeat PROVE IInv'
  <2>1. TypeOK'
    BY <1>10, BoundsAssumption
       DEF ReceiveNothing, ReceiveHeartbeat, Tick, TypeOK,
       statVars, writeVars, optVars
  <2> QED BY <1>10, <2>1, FrameIInv
             DEF ReceiveNothing, ReceiveHeartbeat, optVars
<1>11. ASSUME NEW b \in BOOLEAN, HeartbeatCtrl(b) PROVE IInv'
  <2>1. TypeOK'
    BY <1>11 DEF HeartbeatCtrl, TypeOK, statVars, writeVars, beatVars
  <2> QED BY <1>11, <2>1, FrameIInv DEF HeartbeatCtrl
<1>12. ASSUME NEW val \in Options, SetOption(val) PROVE IInv'
  <2>1. val \in Int BY OptionsAssumption
  <2>2. TypeOK'
    BY <1>12, <2>1, IntervalType
       DEF SetOption, TypeOK, statVars, writeVars, beatVars
  <2> QED BY <1>12, <2>1, <2>2, FrameIInv DEF SetOption
<1>13. CASE Stop
  <2>1. TypeOK'
    BY <1>13 DEF Stop, TypeOK, statVars, writeVars, beatVars, optVars
  <2> QED BY <1>13, <2>1, FrameIInv DEF Stop, optVars
<1>14. CASE Ended
  BY <1>1, <1>14 DEF Ended
<1> QED
  BY <1>1, <1>2, <1>3, <1>4, <1>5, <1>6, <1>7, <1>8, <1>9, <1>10, <1>11, <1>12,
     <1>13, <1>14 DEF Next, Collector, Writer

\* The invariant holds in every state.
LEMMA Invariance == Spec => []IInv
BY InitIInv, NextIInv, PTL DEF Spec

\* No update of a counter is lost between the threads that add and the writer,
\* whatever their interleaving and however far the counters go.
THEOREM NoLostUpdateAlways == Spec => []NoLostUpdate
<1>1. IInv => NoLostUpdate BY DEF IInv
<1> QED BY <1>1, Invariance, PTL

\* The writer thread never leaves with something uncounted that was there when
\* it last woke.
THEOREM WrittenBeforeExitAlways == Spec => []WrittenBeforeExit
<1>1. IInv => WrittenBeforeExit BY DEF IInv, WriterOwes, WrittenBeforeExit, TypeOK
<1> QED BY <1>1, Invariance, PTL
=============================================================================

----------------------------- MODULE EventdStats -----------------------------
(***************************************************************************)
(* The stats_collector of eventd: sonic-eventd/src/eventd.cpp, eventd.h.    *)
(*                                                                         *)
(* Each counter has one thread that adds to it, the collector thread for    *)
(* the published events and the capture thread for the missed ones; the    *)
(* writer thread copies the counters to COUNTERS_DB.  They share the       *)
(* counters and the flag m_updated, both atomic, and no lock.  The          *)
(* collector also publishes heartbeats, and receives them like any event.  *)
(***************************************************************************)
EXTENDS Integers, FiniteSets

CONSTANTS
    Published, Missed,  \* INDEX_COUNTERS_EVENTS_PUBLISHED, .._MISSED_CACHE
    MaxCount,           \* bound: value of a counter
    MaxQuiet,           \* bound: receive timeouts counted between heartbeats
    Options,            \* values of HEARTBEAT_INTERVAL, in seconds
    IntRange            \* how many values an int has, 2^32

ASSUME BoundsAssumption == MaxCount \in Nat /\ MaxQuiet \in Nat \ {0}
ASSUME OptionsAssumption == Options \subseteq Int /\ IntRange \in Nat \ {0}

Counter == {Published, Missed}

VARIABLES
    cnt,       \* m_lst_counters
    adder,     \* the thread of each counter: idle, or flag (added, m_updated
               \*   not yet set)
    updated,   \* m_updated
    db,        \* COUNTERS_DB
    writer,    \* the writer thread: check, write, shut, sleep, done
    todo,      \* counters the writer has not written yet in this round
    woke,      \* history: what had been counted when the writer last woke
    shutdown,  \* m_shutdown
    collector, \* the collector thread: init, recv, done
    pause,     \* m_pause_heartbeat
    interval,  \* m_heartbeats_interval_cnt
    hbCntr,    \* hb_cntr
    echo,      \* heartbeats the collector's own subscription holds
    quiet      \* history: receive timeouts since the last heartbeat

statVars == <<cnt, adder, updated>>
writeVars == <<db, writer, todo, woke>>
beatVars == <<collector, hbCntr, echo, quiet>>
optVars == <<pause, interval>>
vars == <<statVars, writeVars, beatVars, optVars, shutdown>>

STATS_HEARTBEAT_MIN == 300
HEARTBEAT_INTERVAL_SECS == 2

\* C++ division: towards zero.
Quotient(x, d) == IF x >= 0 THEN x \div d ELSE -((-x) \div d)

\* set_heartbeat_interval: seconds to a number of receive timeouts, rounded up,
\* in int arithmetic.  Where val * 1000 overflows, the division is done on what
\* is left of the product, as a signed or (val > 0) as an unsigned number.
IntervalCounts(val) ==
    IF val > 0
      THEN LET low == (val * 1000 + STATS_HEARTBEAT_MIN - 1) % IntRange IN
           {low \div STATS_HEARTBEAT_MIN,
            Quotient(IF 2 * low < IntRange THEN low ELSE low - IntRange,
                     STATS_HEARTBEAT_MIN)}
      ELSE IF val = 0 THEN {1} ELSE {0}

Init ==
    /\ cnt = [c \in Counter |-> 0] /\ adder = [c \in Counter |-> "idle"]
    /\ updated = FALSE
    /\ db = [c \in Counter |-> 0] /\ writer = "check" /\ todo = {}
    /\ woke = [c \in Counter |-> 0]
    /\ shutdown = FALSE
    /\ collector = "init" /\ hbCntr = 0 /\ echo = 0 /\ quiet = 0
    /\ pause = TRUE
    /\ interval \in IntervalCounts(HEARTBEAT_INTERVAL_SECS)

----------------------------------------------------------------------------
(* _update_stats: add, then raise the flag. *)

Add(c, n) ==
    /\ adder[c] = "idle" /\ cnt[c] + n <= MaxCount
    /\ cnt' = [cnt EXCEPT ![c] = @ + n]
    /\ adder' = [adder EXCEPT ![c] = "flag"]
    /\ UNCHANGED updated

\* Mutant: the flag is not raised.
Flag_Nothing(c) ==
    /\ adder[c] = "flag"
    /\ adder' = [adder EXCEPT ![c] = "idle"]
    /\ UNCHANGED <<cnt, updated, writeVars, beatVars, optVars, shutdown>>

Flag(c) ==
    /\ adder[c] = "flag"
    /\ updated' = TRUE
    /\ adder' = [adder EXCEPT ![c] = "idle"]
    /\ UNCHANGED <<cnt, writeVars, beatVars, optVars, shutdown>>

\* The capture thread overwrites an event (increment_missed_cache).
CountMissed ==
    /\ Add(Missed, 1)
    /\ UNCHANGED <<writeVars, beatVars, optVars, shutdown>>

----------------------------------------------------------------------------
(* run_writer *)

\* m_updated.exchange(false)
WriterCheck ==
    /\ writer = "check"
    /\ updated' = FALSE
    /\ IF updated THEN writer' = "write" /\ todo' = Counter
                  ELSE writer' = "shut" /\ UNCHANGED todo
    /\ UNCHANGED <<cnt, adder, db, woke, beatVars, optVars, shutdown>>

\* One counter after the other is set in the table.
WriterSet(c) ==
    /\ writer = "write" /\ c \in todo
    /\ db' = [db EXCEPT ![c] = cnt[c]]
    /\ todo' = todo \ {c}
    /\ writer' = IF todo' = {} THEN "shut" ELSE "write"
    /\ UNCHANGED <<statVars, woke, beatVars, optVars, shutdown>>

\* The shutdown flag is looked at after the update.
WriterShut ==
    /\ writer = "shut"
    /\ writer' = IF shutdown THEN "done" ELSE "sleep"
    /\ UNCHANGED <<statVars, db, todo, woke, beatVars, optVars, shutdown>>

\* Mutant: the shutdown flag is looked at right after the sleep.
WriterWake_Shut ==
    /\ writer = "sleep"
    /\ writer' = IF shutdown THEN "done" ELSE "check"
    /\ woke' = [c \in Counter |-> IF adder[c] = "idle" THEN cnt[c] ELSE woke[c]]
    /\ UNCHANGED <<statVars, db, todo, beatVars, optVars, shutdown>>

WriterWake ==
    /\ writer = "sleep"
    /\ writer' = "check"
    /\ woke' = [c \in Counter |-> IF adder[c] = "idle" THEN cnt[c] ELSE woke[c]]
    /\ UNCHANGED <<statVars, db, todo, beatVars, optVars, shutdown>>

----------------------------------------------------------------------------
(* run_collector *)

\* The loop's test, and _update_stats of the round before has returned.
Receiving == collector = "recv" /\ ~shutdown /\ adder[Published] = "idle"

\* event_receive returns an event of a publisher, after n missed ones.
ReceiveEvent(n) ==
    /\ Receiving /\ Add(Published, 1 + n)
    /\ hbCntr' = 0
    /\ UNCHANGED <<collector, echo, quiet, writeVars, optVars, shutdown>>

\* Whether a round without an event of a publisher ends in a heartbeat.
Beats == ~pause /\ interval > 0 /\ hbCntr + 1 >= interval

\* Mutant: a round without an event restarts the count.
Tick_Restart == 0

Tick == IF ~pause /\ interval > 0 THEN hbCntr + 1 ELSE hbCntr

\* event_receive times out.
ReceiveNothing ==
    /\ Receiving /\ echo = 0
    /\ IF Beats
         THEN hbCntr' = 0 /\ echo' = 1 /\ quiet' = 0
         ELSE /\ hbCntr' = Tick /\ UNCHANGED echo
              /\ quiet' = IF quiet < MaxQuiet THEN quiet + 1 ELSE quiet
    /\ UNCHANGED <<collector, statVars, writeVars, optVars, shutdown>>

\* event_receive returns the heartbeat the collector published itself.
ReceiveHeartbeat ==
    /\ Receiving /\ echo > 0
    /\ IF Beats
         THEN hbCntr' = 0 /\ quiet' = 0 /\ UNCHANGED echo
         ELSE hbCntr' = Tick /\ echo' = echo - 1 /\ UNCHANGED quiet
    /\ UNCHANGED <<collector, statVars, writeVars, optVars, shutdown>>

\* The publisher and subscriber handles are made.
CollectorUp ==
    /\ collector = "init" /\ collector' = "recv"
    /\ UNCHANGED <<hbCntr, echo, quiet, statVars, writeVars, optVars, shutdown>>

\* The loop ends, or a handle could not be made; either way m_shutdown is set.
CollectorOut ==
    /\ collector' = "done" /\ shutdown' = TRUE
    /\ UNCHANGED <<hbCntr, echo, quiet, statVars, writeVars, optVars>>

CollectorFails == collector = "init" /\ CollectorOut

CollectorEnds ==
    collector = "recv" /\ shutdown /\ adder[Published] = "idle" /\ CollectorOut

----------------------------------------------------------------------------
(* The main thread. *)

\* heartbeat_ctrl, when the cache is started and stopped.
HeartbeatCtrl(b) ==
    /\ pause' = b
    /\ UNCHANGED <<interval, statVars, writeVars, beatVars, shutdown>>

\* EVENT_OPTIONS: process_options.
SetOption(val) ==
    /\ interval' \in IntervalCounts(val)
    /\ UNCHANGED <<pause, statVars, writeVars, beatVars, shutdown>>

\* stop(), on EVENT_EXIT; the joins that follow wait for both threads.
Stop ==
    /\ ~shutdown
    /\ shutdown' = TRUE
    /\ UNCHANGED <<statVars, writeVars, beatVars, optVars>>

\* Both threads are joined and no thread adds any more.
Ended ==
    /\ collector = "done" /\ writer = "done"
    /\ UNCHANGED vars

Collector ==
    \/ CollectorUp \/ ReceiveNothing \/ ReceiveHeartbeat \/ CollectorEnds
    \/ \E n \in 0..1 : ReceiveEvent(n)

Writer ==
    \/ WriterCheck \/ WriterShut \/ WriterWake
    \/ \E c \in Counter : WriterSet(c)

Next ==
    \/ Collector \/ CollectorFails \/ Writer \/ CountMissed \/ Stop \/ Ended
    \/ \E c \in Counter : Flag(c)
    \/ \E b \in BOOLEAN : HeartbeatCtrl(b)
    \/ \E val \in Options : SetOption(val)

\* The threads are scheduled by the kernel; requests and events need not come.
Fairness ==
    /\ WF_vars(Writer)
    /\ WF_vars(Collector)
    /\ \A c \in Counter : WF_vars(Flag(c))

Spec == Init /\ [][Next]_vars /\ Fairness
=============================================================================

------------------------------- MODULE EventDb -------------------------------
(***************************************************************************)
(* The consumer that keeps the event history and the current alarms in     *)
(* EVENT_DB: sonic-eventd/src/eventconsume.cpp (EventConsume).              *)
(*                                                                         *)
(* It is one loop: a notification is handled to its end before the next,   *)
(* and the reload flag of the signal handler is looked at between two.     *)
(* What makes it hard is what survives: the four tables are in redis, the  *)
(* lookup map, the heap, the sequence id and the last event are not, and   *)
(* the process may end after any of the writes of a handler.  So each      *)
(* write is a step, and a restart may come between any two.                *)
(*                                                                         *)
(* A row keeps the fields that the code reads back.  Publishers stamp the   *)
(* events, the clock may be set, and a stamp from the future counts as old *)
(* (the difference is unsigned), so which records are too old for max-days *)
(* is left open each time.                                                 *)
(***************************************************************************)
EXTENDS Integers, FiniteSets, FiniteSetsExt

CONSTANTS
    Type,       \* event type ids
    Source,     \* resources alarms are raised for
    Severity,   \* severities with a counter in the alarm statistics
    Profiles,   \* event profiles: type -> severity, Disabled or Absent
    Disabled, Absent,
    Records,    \* values of max-records
    MaxSeq,     \* bound: sequence ids
    MaxRestarts \* bound: restarts of eventd

ASSUME RecordsAssumption == Records \subseteq Nat \ {0}
ASSUME BoundAssumption == MaxSeq \in Nat
ASSUME ProfilesAssumption ==
    /\ Absent \notin Severity
    /\ Profiles \subseteq [Type -> Severity \union {Disabled, Absent}]

\* No event was received yet.
NoEvent == <<>>

VARIABLES
    history,  \* EVENT table: sequence id -> [timed, act, ack], timed if
              \*   it has a time-created field
    alarms,   \* ALARM table: sequence id -> [key, sev, ack]
    est,      \* EVENT_STATS: events, raised, cleared, acked
    ast,      \* ALARM_STATS: alarms, acknowledged, and sev, one per severity
    lookup,   \* cal_lookup_map: alarm key -> sequence id
    heap,     \* event_history_list: sequence ids
    seq,      \* seq_id
    flood,    \* flood_ev_*: the last event that was not a repetition
    job,      \* the handler at work: the write that is next (at), the action
              \*   or "load", the alarm of an ACK (n), and what the alarm
              \*   statistics are still to be told (by)
    profile,  \* static_event_table
    count,    \* m_count
    restarts, \* restarts left
    slips,    \* history: what took the alarm statistics off the alarm table
    torn      \* history: restarts between an event record and its counters

dbVars == <<history, alarms, est, ast>>
memVars == <<lookup, heap, seq, flood>>
cfgVars == <<profile, count>>
histVars == <<slips, torn>>
vars == <<dbVars, memVars, job, cfgVars, restarts, histVars>>

Key == Type \X Source
NoMap == [x \in {} |-> 0]

\* A table with a row set, or a field of a row set: Table::set overwrites.
Put(table, k, v) == [x \in DOMAIN table \union {k} |-> IF x = k THEN v ELSE table[x]]
Del(table, ks) == [x \in DOMAIN table \ ks |-> table[x]]

\* A difference of the alarm statistics: d more alarms of a severity, k more
\* acknowledged ones.
Delta(sev, d, k) == [sev |-> sev, d |-> d, k |-> k]
NoDelta == Delta(Absent, 0, 0)

Handler(at, act, n, by) == [at |-> at, act |-> act, n |-> n, by |-> by]
Idle == Handler("idle", "", 0, NoDelta)
Load == Handler("purge", "load", 0, NoDelta)

\* Nothing in the database, initStats and read_eventd_config done.
Init ==
    /\ history = NoMap /\ alarms = NoMap
    /\ est = [events |-> 0, raised |-> 0, cleared |-> 0, acked |-> 0]
    /\ ast = [alarms |-> 0, acknowledged |-> 0, sev |-> [s \in Severity |-> 0]]
    /\ lookup = NoMap /\ heap = {} /\ seq = 0 /\ flood = NoEvent /\ job = Idle
    /\ profile \in Profiles /\ count \in Records
    /\ restarts = MaxRestarts /\ slips = 0 /\ torn = 0

----------------------------------------------------------------------------
(* purge_events *)

\* The entry on top.
Oldest == Min(heap)

\* Mutant: one record more than max-records is kept.
CountKept_OneMore == Cardinality(heap) <= count

\* The first loop is over; the second ends at an entry that is not too old.
CountKept == Cardinality(heap) < count

\* updateEventStatistics, for one record more (d = 1) or less (d = -1).
EventStats(d, act, isAck) ==
    [events  |-> est.events + d,
     raised  |-> est.raised + IF act = "RAISE" THEN d ELSE 0,
     cleared |-> est.cleared + IF act = "CLEAR" THEN d ELSE 0,
     acked   |-> est.acked + IF isAck THEN d ELSE 0]

\* Mutant: the statistics are not told what a purged record was.
PurgeStats_Count ==
    /\ job.at = "purge" /\ heap # {}
    /\ est' = EventStats(-1, "", FALSE)
    /\ job' = [job EXCEPT !.at = "delete"]
    /\ UNCHANGED <<history, alarms, ast, memVars, cfgVars, restarts, histVars>>

\* An entry goes, by count or by age: modifyEventStats of its record, which is
\* still in the table.
PurgeStats ==
    /\ job.at = "purge" /\ heap # {}
    /\ LET rec == history[Oldest] IN
         est' = EventStats(-1, rec.act, rec.ack = "true")
    /\ job' = [job EXCEPT !.at = "delete"]
    /\ UNCHANGED <<history, alarms, ast, memVars, cfgVars, restarts, histVars>>

\* The record, then the entry.
PurgeDelete ==
    /\ job.at = "delete"
    /\ history' = Del(history, {Oldest})
    /\ heap' = heap \ {Oldest}
    /\ job' = [job EXCEPT !.at = "purge"]
    /\ UNCHANGED <<alarms, est, ast, lookup, seq, flood, cfgVars, restarts, histVars>>

\* The end of read_config_and_purge.
Loaded ==
    /\ job.at = "purge" /\ CountKept /\ job.act = "load"
    /\ job' = Idle
    /\ UNCHANGED <<dbVars, memVars, cfgVars, restarts, histVars>>

----------------------------------------------------------------------------
(* The end of handle_notification. *)

\* update_events after the purge: the record, and its entry.  An acknowledge
\* may have put a field into a record that had been purged, which set leaves
\* there.
Store ==
    LET old == IF seq \in DOMAIN history THEN history[seq].ack ELSE "none" IN
    /\ job.at = "purge" /\ CountKept /\ job.act # "load"
    /\ history' = Put(history, seq,
                      [timed |-> TRUE, act |-> job.act,
                       ack |-> IF job.act = "RAISE" THEN "false" ELSE old])
    /\ heap' = heap \union {seq}
    /\ job' = [job EXCEPT !.at = "event_stats"]
    /\ UNCHANGED <<alarms, est, ast, lookup, seq, flood, cfgVars, restarts, histVars>>

\* updateEventStatistics.
CountEvent ==
    /\ job.at = "event_stats"
    /\ est' = EventStats(1, job.act, job.act = "ACK")
    /\ job' = Idle
    /\ UNCHANGED <<history, alarms, ast, memVars, cfgVars, restarts, histVars>>

----------------------------------------------------------------------------
(* handle_notification *)

\* The loop takes an event; isFloodedEvent ignores the same one as the last.
Receive(e) == job.at = "idle" /\ flood # e /\ flood' = e /\ seq < MaxSeq

\* staticInfoExists.
Known(t) == profile[t] \in Severity

\* An event that the profile does not know or disables is discarded.
Discard(t, x, act) ==
    /\ Receive(<<act, t, x>>)
    /\ profile[t] = Disabled \/ (profile[t] = Absent /\ act \notin {"ACK", "UNACK"})
    /\ UNCHANGED <<dbVars, lookup, heap, seq, job, cfgVars, restarts, histVars>>

\* An event without an action goes to the history at once.
Plain(t, x) ==
    /\ Receive(<<"", t, x>>) /\ Known(t)
    /\ seq' = seq + 1
    /\ job' = Handler("purge", "", 0, NoDelta)
    /\ UNCHANGED <<dbVars, lookup, heap, cfgVars, restarts, histVars>>

\* RAISE.  cal_lookup_map.insert leaves an entry that is there alone; the row
\* is set.  A row that is there is the alarm's whose id is given out again.
Raise(t, x) ==
    LET key == <<t, x>> IN
    /\ Receive(<<"RAISE", t, x>>) /\ Known(t)
    /\ lookup' = IF key \in DOMAIN lookup THEN lookup ELSE Put(lookup, key, seq + 1)
    /\ alarms' = Put(alarms, seq + 1, [key |-> key, sev |-> profile[t], ack |-> FALSE])
    /\ job' = Handler("alarm_stats", "RAISE", 0, Delta(profile[t], 1, 0))
    /\ slips' = slips + IF seq + 1 \in DOMAIN alarms THEN 1 ELSE 0
    /\ UNCHANGED <<history, est, ast, heap, seq, cfgVars, restarts, torn>>

\* Mutant: the entry stays in the lookup map.
Clear_KeepEntry(t, x) ==
    LET key == <<t, x>> IN
    /\ Receive(<<"CLEAR", t, x>>) /\ Known(t) /\ key \in DOMAIN lookup
    /\ alarms' = Del(alarms, {lookup[key]})
    /\ job' = Handler("alarm_stats", "CLEAR", 0, Delta(profile[t], -1, 0))
    /\ UNCHANGED <<history, est, ast, lookup, heap, seq, cfgVars, restarts, histVars>>

\* CLEAR.  The row goes.  The statistics are then told the severity of the
\* profile, not of the row; an acknowledged alarm is only taken off the
\* acknowledged ones.
Clear(t, x) ==
    LET key == <<t, x>>
        id  == lookup[key]
        ack == id \in DOMAIN alarms /\ alarms[id].ack
    IN
    /\ Receive(<<"CLEAR", t, x>>) /\ Known(t) /\ key \in DOMAIN lookup
    /\ lookup' = Del(lookup, {key})
    /\ alarms' = Del(alarms, {id})
    /\ job' = Handler("alarm_stats", "CLEAR", 0,
                      IF ack THEN Delta(Absent, 0, -1) ELSE Delta(profile[t], -1, 0))
    /\ slips' = slips + IF id \in DOMAIN alarms /\ ~ack /\ alarms[id].sev # profile[t]
                          THEN 1 ELSE 0
    /\ UNCHANGED <<history, est, ast, heap, seq, cfgVars, restarts, torn>>

\* A CLEAR whose key the lookup map does not have is an error.
ClearUnknown(t, x) ==
    /\ Receive(<<"CLEAR", t, x>>) /\ Known(t) /\ <<t, x>> \notin DOMAIN lookup
    /\ UNCHANGED <<dbVars, lookup, heap, seq, job, cfgVars, restarts, histVars>>

\* updateAlarmStatistics.  A severity without a counter is not counted.
AlarmStats(by) ==
    [alarms |-> ast.alarms + by.d, acknowledged |-> ast.acknowledged + by.k,
     sev |-> [s \in Severity |-> ast.sev[s] + IF s = by.sev THEN by.d ELSE 0]]

\* Mutant: a RAISE is not counted.
CountAlarm_ClearOnly ==
    /\ job.at = "alarm_stats"
    /\ ast' = IF job.act = "RAISE" THEN ast ELSE AlarmStats(job.by)
    /\ seq' = seq + 1
    /\ job' = Handler("purge", job.act, 0, NoDelta)
    /\ UNCHANGED <<history, alarms, est, lookup, heap, flood, cfgVars, restarts, histVars>>

\* The alarm statistics after RAISE and CLEAR.
CountAlarm ==
    /\ job.at = "alarm_stats"
    /\ ast' = AlarmStats(job.by)
    /\ seq' = seq + 1
    /\ job' = Handler("purge", job.act, 0, NoDelta)
    /\ UNCHANGED <<history, alarms, est, lookup, heap, flood, cfgVars, restarts, histVars>>

\* ACK and UNACK name the alarm by its sequence id, and take its severity.
\* One that is not there, or has the flag already, changes nothing.
\* updateAckInfo writes the statistics first.
Acknowledge(t, n) ==
    /\ Receive(<<"ACK", t, n>>) /\ profile[t] # Disabled
    /\ IF n \in DOMAIN alarms /\ ~alarms[n].ack
         THEN /\ ast' = AlarmStats(Delta(alarms[n].sev, -1, 1))
              /\ job' = Handler("ack_alarm", "ACK", n, NoDelta)
         ELSE UNCHANGED <<ast, job>>
    /\ UNCHANGED <<history, alarms, est, lookup, heap, seq, cfgVars, restarts, histVars>>

Unacknowledge(t, n) ==
    /\ Receive(<<"UNACK", t, n>>) /\ profile[t] # Disabled
    /\ IF n \in DOMAIN alarms /\ alarms[n].ack
         THEN /\ ast' = AlarmStats(Delta(alarms[n].sev, 1, -1))
              /\ job' = Handler("ack_alarm", "UNACK", n, NoDelta)
         ELSE UNCHANGED <<ast, job>>
    /\ UNCHANGED <<history, alarms, est, lookup, heap, seq, cfgVars, restarts, histVars>>

\* updateAckInfo, the alarm's row.
AckAlarm ==
    /\ job.at = "ack_alarm"
    /\ alarms' = [alarms EXCEPT ![job.n].ack = (job.act = "ACK")]
    /\ job' = [job EXCEPT !.at = "ack_event"]
    /\ UNCHANGED <<history, est, ast, memVars, cfgVars, restarts, histVars>>

\* updateAckInfo, the record of the history, which may have been purged: the
\* field is set all the same.
AckEvent ==
    LET n    == job.n
        flag == IF job.act = "ACK" THEN "true" ELSE "false"
    IN
    /\ job.at = "ack_event"
    /\ history' = Put(history, n,
                      [timed |-> n \in DOMAIN history /\ history[n].timed,
                       act   |-> IF n \in DOMAIN history THEN history[n].act ELSE "",
                       ack   |-> flag])
    /\ seq' = seq + 1
    /\ job' = Handler("purge", job.act, 0, NoDelta)
    /\ UNCHANGED <<alarms, est, ast, lookup, heap, flood, cfgVars, restarts, histVars>>

----------------------------------------------------------------------------
(* Configuration and restart. *)

\* read_eventd_config between two notifications: the two files are read, the
\* history is purged.
Reload(c, p) ==
    /\ job.at = "idle"
    /\ count' = c /\ profile' = p /\ job' = Load
    /\ UNCHANGED <<dbVars, memVars, restarts, histVars>>

\* read_events: the records with a time.
Stored == {n \in DOMAIN history : history[n].timed}

\* A restart now leaves an alarm and its counters, an event and its counters,
\* apart.
TearsAlarm == job.at \in {"alarm_stats", "ack_alarm"}
TearsEvent == job.at \in {"delete", "event_stats"} \/ (job.at = "purge" /\ job.act = "ACK")

\* Mutant: the sequence id starts over.
Restart_FromZero(c, p) ==
    /\ restarts > 0 /\ restarts' = restarts - 1
    /\ lookup' = NoMap /\ flood' = NoEvent
    /\ heap' = Stored /\ seq' = 0
    /\ count' = c /\ profile' = p /\ job' = Load
    /\ slips' = slips + IF TearsAlarm THEN 1 ELSE 0
    /\ torn' = torn + IF TearsEvent THEN 1 ELSE 0
    /\ UNCHANGED dbVars

\* The process ends, by a crash at any point or by supervisor, and the
\* constructor runs on the tables and files it finds: read_events, then
\* read_eventd_config.
Restart(c, p) ==
    /\ restarts > 0 /\ restarts' = restarts - 1
    /\ lookup' = NoMap /\ flood' = NoEvent
    /\ heap' = Stored
    /\ seq' = IF Stored = {} THEN 0 ELSE Max(Stored)
    /\ count' = c /\ profile' = p /\ job' = Load
    /\ slips' = slips + IF TearsAlarm THEN 1 ELSE 0
    /\ torn' = torn + IF TearsEvent THEN 1 ELSE 0
    /\ UNCHANGED dbVars

Next ==
    \/ \E t \in Type, x \in Source :
         \/ Plain(t, x) \/ Raise(t, x) \/ Clear(t, x) \/ ClearUnknown(t, x)
         \/ \E act \in {"", "RAISE", "CLEAR"} : Discard(t, x, act)
    \/ \E t \in Type, n \in 1..MaxSeq :
         \/ Acknowledge(t, n) \/ Unacknowledge(t, n)
         \/ \E act \in {"ACK", "UNACK"} : Discard(t, n, act)
    \/ CountAlarm \/ AckAlarm \/ AckEvent
    \/ PurgeStats \/ PurgeDelete \/ Loaded \/ Store \/ CountEvent
    \/ \E c \in Records, p \in Profiles : Reload(c, p) \/ Restart(c, p)

Spec == Init /\ [][Next]_vars
=============================================================================

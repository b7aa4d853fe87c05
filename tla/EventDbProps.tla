----------------------------- MODULE EventDbProps -----------------------------
(* What EVENT_DB promises about the history, the alarms and their counters. *)
EXTENDS EventDb

Action == {"", "RAISE", "CLEAR", "ACK", "UNACK"}
Row == [timed : BOOLEAN, act : Action, ack : {"none", "true", "false"}]
Alarm == [key : Key, sev : Severity, ack : BOOLEAN]

Stage == {"idle", "alarm_stats", "ack_alarm", "ack_event", "purge", "delete", "event_stats"}

\* The tables and maps are functions of sequence ids and alarm keys.
TypeOK ==
    /\ history \in [DOMAIN history -> Row] /\ DOMAIN history \subseteq 1..MaxSeq
    /\ alarms \in [DOMAIN alarms -> Alarm] /\ DOMAIN alarms \subseteq 1..MaxSeq
    /\ est \in [events : Int, raised : Int, cleared : Int, acked : Int]
    /\ ast \in [alarms : Int, acknowledged : Int, sev : [Severity -> Int]]
    /\ lookup \in [DOMAIN lookup -> 1..MaxSeq] /\ DOMAIN lookup \subseteq Key
    /\ heap \subseteq 1..MaxSeq /\ seq \in 0..MaxSeq
    /\ job \in [at : Stage, act : Action \union {"load"}, n : 0..MaxSeq,
                by : [sev : Severity \union {Absent}, d : -1..1, k : -1..1]]
    /\ profile \in Profiles /\ count \in Records
    /\ slips \in Nat /\ torn \in Nat

Unacked == {n \in DOMAIN alarms : ~alarms[n].ack}
Acked == {n \in DOMAIN alarms : alarms[n].ack}

\* Two numbers are at most k apart.
Within(k, a, b) == a - b <= k /\ b - a <= k

\* Each alarm counter is the number of such rows of the alarm table, give or
\* take one for each of the three things that take them apart for good: the
\* process ended between the row and the statistics; an id was given out again
\* while its alarm was active (a raise that crashed, or a history that aged
\* away before a restart); an alarm was cleared under another severity than it
\* was raised with.  Nothing else does: raising twice, clearing what is
\* acknowledged, clearing what a restart forgot, a reload, in any order.
AlarmStatsMatch ==
    LET off == slips + IF TearsAlarm THEN 1 ELSE 0 IN
    /\ Within(off, ast.alarms, Cardinality(Unacked))
    /\ Within(off, ast.acknowledged, Cardinality(Acked))
    /\ \A s \in Severity :
         Within(off, ast.sev[s], Cardinality({n \in Unacked : alarms[n].sev = s}))

\* The event counters never claim more than the history has, and less only by
\* one for each time the process ended between a record and its counters: a
\* record is counted after it is stored, and uncounted before it is deleted.
\* The acknowledged counter is less than the records with that flag by at most
\* two each time (the purge of an ACK may take off one more); it may be more, as
\* an UNACK does not lower it.
EventStatsMatch ==
    LET off == torn + IF TearsEvent THEN 1 ELSE 0
        Short(c, S) == c <= Cardinality(S) /\ Cardinality(S) <= c + off
        Kept(act) == {n \in heap : history[n].act = act}
    IN
    /\ Short(est.events, heap)
    /\ Short(est.raised, Kept("RAISE")) /\ Short(est.cleared, Kept("CLEAR"))
    /\ Cardinality({n \in DOMAIN history : history[n].ack = "true"}) <= est.acked + 2 * off

\* The heap has exactly the records of the history that have a time, so every
\* record is purged in its turn, and the purge keeps them within max-records,
\* whatever is configured and wherever the process ended before.
HistoryBound ==
    /\ heap = Stored
    /\ job.at \notin {"purge", "delete"} => Cardinality(heap) <= count

\* A CLEAR finds the alarm it is for: an entry of the lookup map names a row of
\* the alarm table, of that key.
LookupSound ==
    \A k \in DOMAIN lookup :
        lookup[k] \in DOMAIN alarms /\ alarms[lookup[k]].key = k

\* No record that is kept has a sequence id that is still to be given out, also
\* after a restart.  (An id whose record has aged away may come again.)
IdsPast == \A n \in heap : n <= seq
=============================================================================

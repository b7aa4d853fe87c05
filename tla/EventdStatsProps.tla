--------------------------- MODULE EventdStatsProps ---------------------------
(* What eventd's counters and heartbeats promise. *)
EXTENDS EventdStats

\* The state is made of the values the code's types allow.
TypeOK ==
    /\ cnt \in [Counter -> Nat] /\ db \in [Counter -> Nat]
    /\ woke \in [Counter -> Nat]
    /\ adder \in [Counter -> {"idle", "flag"}]
    /\ updated \in BOOLEAN /\ shutdown \in BOOLEAN /\ pause \in BOOLEAN
    /\ writer \in {"check", "write", "shut", "sleep", "done"}
    /\ todo \subseteq Counter
    /\ collector \in {"init", "recv", "done"}
    /\ interval \in Int /\ hbCntr \in Nat /\ echo \in 0..1 /\ quiet \in 0..MaxQuiet

\* No update is lost: a counter that COUNTERS_DB does not show is announced by
\* m_updated, about to be announced, or still to be written in this round.
NoLostUpdate ==
    \A c \in Counter :
        db[c] # cnt[c] => updated \/ adder[c] = "flag" \/ c \in todo

\* The writer leaves only after it wrote what had been counted when it last
\* woke ("any counters collected during sleep needs to be updated").
WrittenBeforeExit ==
    writer = "done" => \A c \in Counter : db[c] >= woke[c]

\* As long as eventd runs the writer brings the last value of every counter to
\* COUNTERS_DB: a counter stands still at its bound.
CountersReachDb ==
    \A c \in Counter : cnt[c] = MaxCount ~> (db[c] = MaxCount \/ shutdown)

\* A system that is quiet keeps sending heartbeats, unless they are paused or
\* the interval in force is none (an interval whose product overflowed is one).
HeartbeatGoesOn ==
    []<>(quiet = 0 \/ pause \/ interval <= 0 \/ shutdown)
=============================================================================

-------------------------- MODULE EventdCaptureProps --------------------------
(* What eventd's capture service promises. *)
EXTENDS EventdCapture

\* The events of one publisher in a list follow one another without a hole and
\* without a repetition.
Contiguous(es) ==
    \A i, j \in DOMAIN es : i < j /\ es[i].rid = es[j].rid =>
        /\ es[i].seq < es[j].seq
        /\ \A n \in es[i].seq..es[j].seq :
               \E k \in DOMAIN es : es[k] = [rid |-> es[i].rid, seq |-> n]

\* The hand-over between the client's subscription and the cache neither loses
\* nor repeats an event: the duplicate check of CAP_STATE_INIT ends late enough
\* to drop every event of the stock, and early enough to drop no other.
CacheContiguous == Contiguous(cap.events)

\* An overflow costs a publisher its older events, never its newest one:
\* read_cache finds it in m_events or among the last events it hands out,
\* unless a bad_alloc ended CAP_STATE_ACTIVE (m_last_events_init is not set).
LatestKept ==
    cap.alive /\ (thr.state = "last" => cap.lastInit) =>
        \A r \in Rid : hist.newest[r] > 0 =>
            [rid |-> r, seq |-> hist.newest[r]] \in
                Range(cap.events) \union
                    IF cap.lastInit THEN {cap.last[q] : q \in DOMAIN cap.last}
                                    ELSE {}

\* A step that leaves a working capture thread, and the cache it works on, alone.
CapturingStep ==
    thr.at \in {"check", "recv"} =>
        /\ thr'.at \in {"check", "recv", "done"}
        /\ cap'.alive /\ svc'.fifo = svc.fifo /\ svc'.last = svc.last
        /\ \/ <<cap'.events, cap'.pre, cap'.last>> = <<cap.events, cap.pre, cap.last>>
           \/ sock # <<>> /\ sock' = Tail(sock)

\* No lock guards the cache; m_ctrl, the capture pointer and the join divide it
\* between the threads ("to ensure that the data is not handled by two threads
\* concurrently").  While the capture thread is in its loop it is not replaced,
\* the object is not destroyed, no request hands out anything, and the cache
\* changes only by an event the thread takes from its socket: also when a
\* second EVENT_CACHE_START, INIT, STOP or READ comes in the middle.
UntouchedWhileCapturing == [][CapturingStep]_vars

\* Every request is answered: the main thread waits for the capture thread no
\* longer than that thread needs to see m_ctrl.
Answered == pc # "idle" ~> pc \in {"idle", "exited"}
=============================================================================

---------------------------- MODULE EventdCapture ----------------------------
(***************************************************************************)
(* The capture (cache) service of eventd and the request loop that drives  *)
(* it: sonic-eventd/src/eventd.cpp, eventd.h.                               *)
(*                                                                         *)
(* Three parties share the state.  The main thread answers the requests of *)
(* one telemetry client (EVENT_CACHE_INIT, START, STOP, READ, ECHO, EXIT); *)
(* it blocks while it polls for the capture thread, drains, or joins it.   *)
(* The capture thread (do_capture) reads the events that ZMQ delivers on   *)
(* its socket.  The client, a user of swss-common's event_service, holds a *)
(* subscription of its own while it runs, and hands over the events it     *)
(* could not process as the initial stock of the cache.                    *)
(*                                                                         *)
(* An event is its publisher's runtime id and sequence number; the         *)
(* serialised text is left out.                                            *)
(***************************************************************************)
EXTENDS Integers, Sequences, FiniteSetsExt

CONSTANTS
    Rid,            \* runtime ids of the publishers
    MaxSeq,         \* bound: events each publisher sends
    CacheMax,       \* m_cache_max, CACHE_MAX_CNT of the configuration
    ReadSetSize,    \* READ_SET_SIZE
    MaxPublishers,  \* MAX_PUBLISHERS_COUNT, placeholders in m_last_events
    AnyOrder,       \* the client may send any request at any time
    SlowThread,     \* set_control may give up on a thread that is only slow
    Faults,         \* the capture thread may meet a socket error
    AllocFails      \* m_events.push_back may throw bad_alloc

\* run_eventd_service refuses a cache_max that is not positive.
ASSUME CacheMaxPositive == CacheMax \in Nat \ {0}

VARIABLES
    pc,     \* main thread: polling, booted, idle (takes a request), draining,
            \*   joining, term, exited
    after,  \* what set the main thread polling or joining
    svc,    \* main thread's locals: skip (skip_caching), paused (heartbeat),
            \*   fifo (capture_fifo_events), last (capture_last_events)
    resp,   \* the last response: code and data
    cap,    \* the capture object: alive (not NULL), ctrl (m_ctrl), run
            \*   (m_cap_run), events, pre (m_pre_exist_id), last, lastInit,
            \*   missed (m_total_missed_cache)
    thr,    \* the capture thread: at (none, starting, waiting, check, recv,
            \*   done), state (cap_state), initCnt, overflow (total_overflow)
    sock,   \* events ZMQ holds for the capture socket
    cli,    \* the client: phase (caching, reading, live, prep), subscribed,
            \*   queue (events its subscription holds), due (how many of them
            \*   it held when EVENT_CACHE_INIT was answered)
    pub,    \* number of events each publisher has sent
    hist    \* history: newest event of each publisher handed to the cache,
            \*   and the size of the stock

vars == <<pc, after, svc, resp, cap, thr, sock, cli, pub, hist>>

\* capture_control_t
NEED_INIT == 0
INIT_CAPTURE == 1
START_CAPTURE == 2
STOP_CAPTURE == 3

Event == [rid : Rid, seq : 1..MaxSeq]

\* What a std::string holds after it was moved from.
Blank == [rid |-> "moved", seq |-> 0]

NoMap == [r \in {} |-> 0]

\* A capture_service as constructed, and its thread as started by
\* set_control(INIT_CAPTURE).
NewCapture ==
    [alive |-> TRUE, ctrl |-> NEED_INIT, run |-> FALSE, events |-> <<>>,
     pre |-> NoMap, last |-> NoMap, lastInit |-> FALSE, missed |-> 0]
NewThread == [at |-> "starting", state |-> "init", initCnt |-> 0, overflow |-> 0]
NewHist == [newest |-> [r \in Rid |-> 0], stock |-> 0]

\* eventd starts with a capture of its own, the heartbeat paused.
Init ==
    /\ pc = "polling" /\ after = "boot"
    /\ svc = [skip |-> FALSE, paused |-> TRUE, fifo |-> <<>>, last |-> NoMap]
    /\ resp = [code |-> 0, data |-> <<>>]
    /\ cap = NewCapture /\ thr = NewThread /\ sock = <<>> /\ hist = NewHist
    /\ cli = [phase |-> "caching", subscribed |-> FALSE, queue |-> <<>>, due |-> 0]
    /\ pub = [r \in Rid |-> 0]

----------------------------------------------------------------------------
(* The main thread: run_eventd_service. *)

\* channel_write of a code and a list of events.
Answer(code, data) == resp' = [code |-> code, data |-> data]

\* Mutant: the thread is not joined.
ThreadGone_NoJoin == TRUE

\* m_thr.join() returns; the socket was closed on the way out.
ThreadGone == thr.at \in {"none", "done"}

\* set_control(INIT_CAPTURE) sees m_cap_run.  At boot the capture is started
\* at once, with no stock.
PollDone ==
    /\ pc = "polling" /\ cap.run
    /\ pc' = IF after = "boot" THEN "booted" ELSE "idle"
    /\ Answer(0, <<>>)
    /\ cap' = [cap EXCEPT !.ctrl = IF after = "boot" THEN START_CAPTURE
                                                     ELSE INIT_CAPTURE]
    /\ cli' = IF after = "boot" THEN cli
               ELSE [cli EXCEPT !.phase = "prep", !.due = Len(cli.queue)]
    /\ UNCHANGED <<after, svc, thr, sock, pub, hist>>

\* The 200 ms before the first request are many polls of the thread, so it has
\* seen START by then.
BootEnds ==
    /\ pc = "booted" /\ thr.at # "waiting"
    /\ pc' = "idle"
    /\ UNCHANGED <<after, svc, resp, cap, thr, sock, cli, pub, hist>>

\* It gives up after CAPTURE_SERVICE_POLLING_RETRIES: the thread failed, or it
\* is slow.  At boot the object is destroyed (capture.reset() stops and joins
\* the thread), after a request it stays.
PollGiveUp ==
    /\ pc = "polling" /\ ~cap.run
    /\ SlowThread \/ thr.at = "done"
    /\ IF after = "boot"
         THEN /\ pc' = "joining" /\ after' = "drop"
              /\ svc' = [svc EXCEPT !.skip = TRUE]
              /\ cap' = [cap EXCEPT !.ctrl = STOP_CAPTURE]
              /\ UNCHANGED <<resp, cli>>
         ELSE /\ pc' = "idle" /\ Answer(-1, <<>>)
              /\ cli' = [cli EXCEPT !.phase = "live"]
              /\ UNCHANGED <<after, svc, cap>>
    /\ UNCHANGED <<thr, sock, pub, hist>>

\* A request is taken from the channel only between two others.  A client
\* that keeps to the protocol sends each in one phase.
Request(phase) == pc = "idle" /\ (AnyOrder \/ cli.phase = phase)

\* The lists are emptied and a new capture replaces the old one.
Recreate ==
    /\ pc' = "polling" /\ after' = "init"
    /\ svc' = [svc EXCEPT !.fifo = <<>>, !.last = NoMap]
    /\ cap' = NewCapture /\ thr' = NewThread /\ sock' = <<>> /\ hist' = NewHist
    /\ UNCHANGED <<resp, cli, pub>>

\* EVENT_CACHE_INIT: an existing capture is stopped and joined first.
CacheInit ==
    /\ Request("live") /\ cap.alive
    /\ pc' = "joining" /\ after' = "init"
    /\ cap' = [cap EXCEPT !.ctrl = STOP_CAPTURE]
    /\ UNCHANGED <<svc, resp, thr, sock, cli, pub, hist>>

CacheInitFresh == Request("live") /\ ~cap.alive /\ Recreate

JoinedInit == pc = "joining" /\ after = "init" /\ ThreadGone /\ Recreate

\* init_capture_cache: the last sequence number of each publisher in the stock.
StockIds(lst) ==
    [r \in {e.rid : e \in Range(lst)} |->
        lst[Max({i \in DOMAIN lst : lst[i].rid = r})].seq]

\* EVENT_CACHE_START with what the client read of its subscription since the
\* answer to EVENT_CACHE_INIT: at least the events it held then.  It gives the
\* subscription up; what it has not read of it only the capture has.
CacheStart ==
    /\ Request("prep")
    /\ \E k \in cli.due..Len(cli.queue) :
         LET lst == SubSeq(cli.queue, 1, k)
             ids == StockIds(lst)
         IN IF cap.alive /\ cap.ctrl = INIT_CAPTURE
              THEN /\ cap' = [cap EXCEPT !.ctrl = START_CAPTURE,
                                         !.events = lst, !.pre = ids]
                   /\ hist' = [newest |-> [r \in Rid |->
                                    IF r \in DOMAIN ids THEN ids[r] ELSE 0],
                               stock |-> k]
                   /\ Answer(0, <<>>)
              ELSE Answer(-1, <<>>) /\ UNCHANGED <<cap, hist>>
    /\ svc' = [svc EXCEPT !.paused = @ \/ cap.alive]
    /\ cli' = [phase |-> "caching", subscribed |-> FALSE, queue |-> <<>>, due |-> 0]
    /\ UNCHANGED <<pc, after, thr, sock, pub>>

\* EVENT_CACHE_STOP: set_control drains, stops and joins; a capture that is
\* not started it refuses, and capture.reset() stops and joins that one.
CacheStop ==
    /\ Request("caching")
    /\ IF ~cap.alive
         THEN /\ Answer(-1, <<>>)
              /\ cli' = [cli EXCEPT !.subscribed = TRUE, !.phase = "live"]
              /\ UNCHANGED <<pc, after, cap>>
         ELSE /\ IF cap.ctrl = START_CAPTURE
                   THEN pc' = "draining" /\ after' = "stop" /\ UNCHANGED cap
                   ELSE /\ pc' = "joining" /\ after' = "unstarted"
                        /\ cap' = [cap EXCEPT !.ctrl = STOP_CAPTURE]
              /\ cli' = [cli EXCEPT !.subscribed = TRUE]
              /\ UNCHANGED resp
    /\ UNCHANGED <<svc, thr, sock, pub, hist>>

\* The sleep of CACHE_DRAIN_IN_MILLISECS is a hundred times the thread's poll,
\* so the thread has seen START when it ends.
DrainEnds ==
    /\ pc = "draining" /\ thr.at # "waiting"
    /\ pc' = "joining"
    /\ cap' = [cap EXCEPT !.ctrl = STOP_CAPTURE]
    /\ UNCHANGED <<after, svc, resp, thr, sock, cli, pub, hist>>

\* The end of EVENT_CACHE_STOP: read_cache, then capture.reset().
JoinedStop ==
    /\ pc = "joining" /\ after = "stop" /\ ThreadGone
    /\ pc' = "idle" /\ Answer(0, <<>>)
    /\ svc' = [svc EXCEPT !.fifo = cap.events, !.paused = FALSE,
                          !.last = IF cap.lastInit THEN cap.last ELSE NoMap]
    /\ cap' = [cap EXCEPT !.alive = FALSE, !.events = <<>>, !.last = NoMap]
    /\ cli' = [cli EXCEPT !.phase = "reading"]
    /\ UNCHANGED <<after, thr, sock, pub, hist>>

\* The end of capture.reset() on a capture that was never started.  The
\* heartbeat is resumed by a request, not at boot.
JoinedDrop ==
    /\ pc = "joining" /\ after \in {"drop", "unstarted"} /\ ThreadGone
    /\ pc' = "idle" /\ Answer(-1, <<>>)
    /\ cap' = [cap EXCEPT !.alive = FALSE]
    /\ svc' = [svc EXCEPT !.paused = @ /\ after = "drop"]
    /\ cli' = [cli EXCEPT !.phase = IF after = "drop" THEN @ ELSE "live"]
    /\ UNCHANGED <<after, thr, sock, pub, hist>>

\* EVENT_CACHE_READ: the fifo, and once it is empty the last events.  Every
\* string is moved into the response, READ_SET_SIZE entries are erased.
CacheRead ==
    LET last == Range(svc.last)
        all == IF svc.fifo # <<>> THEN svc.fifo
               ELSE CHOOSE f \in Bijection(1..Cardinality(last), last) : TRUE
        sz  == IF Len(all) < ReadSetSize THEN Len(all) ELSE ReadSetSize
    IN
    /\ Request("reading")
    /\ IF svc.skip \/ cap.alive
         THEN /\ Answer(-1, <<>>) /\ UNCHANGED svc
              /\ cli' = [cli EXCEPT !.phase = "live"]
         ELSE /\ Answer(0, all)
              /\ svc' = [svc EXCEPT
                    !.fifo = [i \in 1..(Len(all) - sz) |-> Blank],
                    !.last = IF svc.fifo = <<>> THEN NoMap ELSE @]
              /\ cli' = [cli EXCEPT !.phase = IF all = <<>> THEN "live" ELSE @]
    /\ UNCHANGED <<pc, after, cap, thr, sock, pub, hist>>

\* EVENT_ECHO.
Echo ==
    /\ pc = "idle" /\ Answer(0, <<>>)
    /\ UNCHANGED <<pc, after, svc, cap, thr, sock, cli, pub, hist>>

\* EVENT_EXIT: zmq_ctx_term waits until every socket of the context is closed.
Exit ==
    /\ pc = "idle" /\ (AnyOrder \/ cli.phase # "prep")
    /\ pc' = "term" /\ Answer(0, <<>>)
    /\ UNCHANGED <<after, svc, cap, thr, sock, cli, pub, hist>>

\* The capture object goes out of scope.
Terminated ==
    /\ pc = "term" /\ ThreadGone
    /\ pc' = "exited"
    /\ cap' = [cap EXCEPT !.alive = FALSE]
    /\ UNCHANGED <<after, svc, resp, thr, sock, cli, pub, hist>>

\* The process has ended.
Exited == pc = "exited" /\ UNCHANGED vars

----------------------------------------------------------------------------
(* The capture thread: do_capture. *)

\* The socket is connected and subscribed before m_cap_run is set.
ThreadUp ==
    /\ thr.at = "starting"
    /\ thr' = [thr EXCEPT !.at = "waiting"]
    /\ cap' = [cap EXCEPT !.run = TRUE]
    /\ UNCHANGED <<pc, after, svc, resp, sock, cli, pub, hist>>

\* The wait for START_CAPTURE ends for no other value of m_ctrl.
ThreadGo ==
    /\ thr.at = "waiting" /\ cap.ctrl = START_CAPTURE
    /\ thr' = [thr EXCEPT !.at = "check", !.initCnt = Len(cap.events)]
    /\ UNCHANGED <<pc, after, svc, resp, cap, sock, cli, pub, hist>>

\* out: the socket is closed.
ThreadOut ==
    /\ thr' = [thr EXCEPT !.at = "done"]
    /\ cap' = [cap EXCEPT !.run = FALSE]
    /\ sock' = <<>>
    /\ UNCHANGED <<pc, after, svc, resp, cli, pub, hist>>

\* while (m_ctrl == START_CAPTURE)
ThreadCheck ==
    /\ thr.at = "check" /\ cap.ctrl = START_CAPTURE
    /\ thr' = [thr EXCEPT !.at = "recv"]
    /\ UNCHANGED <<pc, after, svc, resp, cap, sock, cli, pub, hist>>

ThreadStop == thr.at = "check" /\ cap.ctrl # START_CAPTURE /\ ThreadOut

\* A RET_ON_ERR: no socket, no connection, a read that fails.
ThreadError == Faults /\ thr.at \in {"starting", "recv"} /\ ThreadOut

\* The ETERM a read returns once the context is being terminated.
ThreadTerm == pc = "term" /\ thr.at = "recv" /\ ThreadOut

\* Mutant: no ZMQ_RCVTIMEO, the read blocks until an event comes.
ThreadTimeout_Never == FALSE

\* zmq_message_read times out (EAGAIN).
ThreadTimeout ==
    /\ thr.at = "recv" /\ sock = <<>> /\ pc # "term"
    /\ thr' = [thr EXCEPT !.at = "check"]
    /\ UNCHANGED <<pc, after, svc, resp, cap, sock, cli, pub, hist>>

\* Mutant: the first event of a publisher in the stock ends its check.
StoreInit_FirstSettles(e) ==
    LET known == e.rid \in DOMAIN cap.pre
        left  == DOMAIN cap.pre \ {e.rid}
        leave == left = {} \/ thr.initCnt - 1 <= 0
    IN  /\ cap' = [cap EXCEPT
                !.events = IF known /\ e.seq <= cap.pre[e.rid]
                             THEN @ ELSE Append(@, e),
                !.pre = IF leave THEN NoMap ELSE [r \in left |-> @[r]]]
        /\ thr' = [thr EXCEPT !.at = "check", !.initCnt = @ - 1,
                              !.state = IF leave THEN "active" ELSE @]

\* CAP_STATE_INIT.  An event the stock covers is dropped.
StoreInit(e) ==
    LET known   == e.rid \in DOMAIN cap.pre
        dup     == known /\ e.seq <= cap.pre[e.rid]
        settled == IF known /\ e.seq >= cap.pre[e.rid] THEN {e.rid} ELSE {}
        left    == DOMAIN cap.pre \ settled
        leave   == left = {} \/ thr.initCnt - 1 <= 0
    IN  /\ cap' = [cap EXCEPT
                !.events = IF dup THEN @ ELSE Append(@, e),
                !.pre = IF leave THEN NoMap ELSE [r \in left |-> @[r]]]
        /\ thr' = [thr EXCEPT !.at = "check", !.initCnt = @ - 1,
                              !.state = IF leave THEN "active" ELSE @]

\* CAP_STATE_ACTIVE.  The event that fills the cache ends the state.
StoreActive(e) ==
    LET full == Len(cap.events) + 1 >= CacheMax
    IN  /\ cap' = [cap EXCEPT !.events = Append(@, e),
                              !.last = IF full THEN NoMap ELSE @,
                              !.lastInit = @ \/ full]
        /\ thr' = [thr EXCEPT !.at = "check",
                              !.state = IF full THEN "last" ELSE @]

\* Mutant: the first event of a publisher stays in the map.
StoreLast_KeepsFirst(e) ==
    LET held == DOMAIN cap.last \union {e.rid} IN
    /\ cap' = [cap EXCEPT
            !.last = [r \in held |-> IF r \in DOMAIN @ THEN @[r] ELSE e]]
    /\ thr' = [thr EXCEPT !.at = "check", !.state = "last", !.overflow = @ + 1]

\* CAP_STATE_LAST, where a bad_alloc of CAP_STATE_ACTIVE falls through to.
\* The placeholders count as entries as long as they are in the map.
StoreLast(e) ==
    LET held == DOMAIN cap.last \union {e.rid}
        size == Cardinality(held) + IF cap.lastInit THEN 0 ELSE MaxPublishers
    IN  /\ cap' = [cap EXCEPT
                !.last = [r \in held |-> IF r = e.rid THEN e ELSE @[r]],
                !.missed = IF thr.overflow + 1 > size THEN @ + 1 ELSE @]
        /\ thr' = [thr EXCEPT !.at = "check", !.state = "last",
                              !.overflow = @ + 1]

\* The three states of the loop's switch.
ThreadRead ==
    /\ thr.at = "recv" /\ sock # <<>>
    /\ LET e == Head(sock) IN
       /\ \/ thr.state = "init" /\ StoreInit(e)
          \/ thr.state = "active" /\ StoreActive(e)
          \/ thr.state = "last" /\ StoreLast(e)
          \/ thr.state = "active" /\ AllocFails /\ StoreLast(e)
       /\ hist' = [hist EXCEPT !.newest[e.rid] = IF e.seq > @ THEN e.seq ELSE @]
    /\ sock' = Tail(sock)
    /\ UNCHANGED <<pc, after, svc, resp, cli, pub>>

----------------------------------------------------------------------------
(* The environment: publishers, the proxy, the telemetry client. *)

\* The proxy hands an event to the capture socket and to the subscription.
Publish(r) ==
    LET e == [rid |-> r, seq |-> pub[r] + 1] IN
    /\ pub[r] < MaxSeq /\ pc # "exited"
    /\ pub' = [pub EXCEPT ![r] = @ + 1]
    /\ sock' = IF thr.at \in {"waiting", "check", "recv"}
                 THEN Append(sock, e) ELSE sock
    /\ cli' = [cli EXCEPT !.queue = IF cli.subscribed THEN Append(@, e) ELSE @]
    /\ UNCHANGED <<pc, after, svc, resp, cap, thr, hist>>

\* The client processes an event of its subscription.
Consume ==
    /\ pc = "idle" /\ cli.phase = "live" /\ cli.queue # <<>>
    /\ cli' = [cli EXCEPT !.queue = Tail(@), !.due = 0]
    /\ UNCHANGED <<pc, after, svc, resp, cap, thr, sock, pub, hist>>

----------------------------------------------------------------------------
Main ==
    \/ PollDone \/ BootEnds \/ PollGiveUp \/ DrainEnds
    \/ JoinedInit \/ JoinedStop \/ JoinedDrop \/ Terminated

Client ==
    \/ CacheInit \/ CacheInitFresh \/ CacheStart \/ CacheStop \/ CacheRead
    \/ Echo \/ Exit \/ Consume

Thread ==
    \/ ThreadUp \/ ThreadGo \/ ThreadCheck \/ ThreadStop \/ ThreadTerm
    \/ ThreadTimeout \/ ThreadRead

Next ==
    \/ Main \/ Client \/ Thread \/ ThreadError \/ Exited
    \/ \E r \in Rid : Publish(r)

\* Both threads are scheduled by the kernel.  A client or a publisher may stop,
\* and no error has to happen.
Fairness == WF_vars(Main) /\ WF_vars(Thread)

Spec == Init /\ [][Next]_vars /\ Fairness
============================================================================

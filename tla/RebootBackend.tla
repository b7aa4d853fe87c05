---------------------------- MODULE RebootBackend ----------------------------
(***************************************************************************)
(* The reboot backend: sonic-sysmgr/rebootbackend (RebootBE, RebootThread,  *)
(* ThreadStatus).                                                           *)
(*                                                                         *)
(* The main thread takes requests from a notification channel and answers   *)
(* them.  A reboot runs in a thread of its own, which asks the host service *)
(* over D-Bus and then waits to be killed by the reboot; if it is not, it   *)
(* records a failure and tells the main thread, which joins it.             *)
(***************************************************************************)
EXTENDS Integers

CONSTANTS
    Delays,       \* delays a request may ask for
    MaxCount      \* bound: reboots started

ASSUME BoundsAssumption == MaxCount \in Nat
\* A request need not have a delay.
ASSUME DelaysAssumption == 0 \in Delays

\* The supported methods, and all.
Supported == {"COLD", "HALT", "WARM"}
Method == Supported \union {"FAST"}

VARIABLES
    main,      \* RebootBE's thread: select, mark (Start has returned success),
               \*   join (a finished thread), stop (join after Stop), exited,
               \*   aborted
    current,   \* m_CurrentStatus: IDLE or the method in progress
    status,    \* ThreadStatus: active, status, count
    thread,    \* m_thread: none, begin, asked, wait, notify, done
    request,   \* m_request: method, delay
    finished,  \* m_finished is signalled
    stop,      \* m_stop is signalled
    done,      \* m_Done is signalled
    sigterm,   \* sigterm_requested
    resp,      \* the last response: code, and what a status request returned
    failed,    \* history: the thread of the last start met an error
    down       \* the platform has rebooted or halted

evVars == <<finished, stop, done, sigterm>>
vars == <<main, current, status, thread, request, evVars, resp, failed, down>>

Init ==
    /\ main = "select" /\ current = "IDLE"
    /\ status = [active |-> FALSE, status |-> "UNKNOWN", count |-> 0]
    /\ thread = "none" /\ request = [method |-> "COLD", delay |-> 0]
    /\ finished = FALSE /\ stop = FALSE /\ done = FALSE /\ sigterm = FALSE
    /\ resp = [code |-> "SUCCESS", active |-> FALSE, status |-> "UNKNOWN"]
    /\ failed = FALSE /\ down = FALSE

joinable == thread # "none"

\* get_response: the status is hidden while a reboot is active.
Shown == IF status.active THEN "UNKNOWN" ELSE status.status

\* SendNotificationResponse.
Respond(code) == resp' = [code |-> code, active |-> FALSE, status |-> "UNKNOWN"]

----------------------------------------------------------------------------
(* The main thread. *)

\* Mutant: a failure is no obstacle to a warm reboot.
Precondition_WarmAgain(r) ==
    IF status.active THEN "IN_USE"
    ELSE IF r.method \notin Supported THEN "INVALID_PARAM"
    ELSE IF r.method # "WARM" /\ r.delay # 0 THEN "INVALID_PARAM" ELSE "SUCCESS"

\* check_start_preconditions.
Precondition(r) ==
    IF status.active THEN "IN_USE"
    ELSE IF r.method \notin Supported THEN "INVALID_PARAM"
    ELSE IF r.method = "WARM"
           THEN IF Shown = "FAILURE" THEN "FAILED_PRECONDITION" ELSE "SUCCESS"
           ELSE IF r.delay # 0 THEN "INVALID_PARAM" ELSE "SUCCESS"

\* A reboot request that is refused: RebootAllowed, or the preconditions.
RebootRefused(r) ==
    LET code == IF current # "IDLE" THEN "IN_USE" ELSE Precondition(r) IN
    /\ main = "select" /\ ~down /\ code # "SUCCESS"
    /\ Respond(code)
    /\ UNCHANGED <<main, current, status, thread, request, evVars, failed, down>>

\* RebootThread::Start records the start before it launches the thread.
\* Assigning to a thread that was not joined would abort the process.
RebootStart(r) ==
    /\ main = "select" /\ ~down /\ current = "IDLE" /\ Precondition(r) = "SUCCESS"
    /\ status.count < MaxCount
    /\ request' = r
    /\ status' = [active |-> TRUE, status |-> "UNKNOWN", count |-> status.count + 1]
    /\ main' = IF joinable THEN "aborted" ELSE "mark"
    /\ thread' = IF joinable THEN thread ELSE "begin"
    /\ failed' = FALSE
    /\ UNCHANGED <<current, evVars, resp, down>>

\* The launch throws: the failure is recorded and m_finished signalled.
RebootLaunchFails(r) ==
    /\ main = "select" /\ ~down /\ current = "IDLE" /\ Precondition(r) = "SUCCESS"
    /\ status.count < MaxCount /\ ~joinable
    /\ request' = r
    /\ status' = [active |-> TRUE, status |-> "RETRIABLE_FAILURE",
                  count |-> status.count + 1]
    /\ failed' = TRUE /\ finished' = TRUE
    /\ main' = "mark"
    /\ UNCHANGED <<current, thread, stop, done, sigterm, resp, down>>

\* The end of HandleRebootRequest, after Start has returned.
Mark ==
    /\ main = "mark" /\ ~down
    /\ main' = "select"
    /\ current' = request.method
    /\ Respond("SUCCESS")
    /\ UNCHANGED <<status, thread, request, evVars, failed, down>>

\* HandleStatusRequest.  A halt is asked of the platform, which may fail.
StatusRequest ==
    /\ main = "select" /\ ~down
    /\ IF current = "HALT"
         THEN \E code \in {"SUCCESS", "INTERNAL"} : Respond(code)
         ELSE resp' = [code |-> "SUCCESS", active |-> status.active, status |-> Shown]
    /\ UNCHANGED <<main, current, status, thread, request, evVars, failed, down>>

\* HandleCancelRequest, an unknown operation and a request without data.
OtherRequest ==
    /\ main = "select" /\ ~down
    /\ \E code \in {"UNIMPLEMENTED", "INVALID_PARAM", "INTERNAL"} : Respond(code)
    /\ UNCHANGED <<main, current, status, thread, request, evVars, failed, down>>

\* Mutant: the thread is not joined.
Finish_NoJoin ==
    /\ main = "select" /\ ~down /\ finished
    /\ finished' = FALSE /\ current' = "IDLE"
    /\ status' = [status EXCEPT !.active = FALSE]
    /\ UNCHANGED <<main, thread, request, stop, done, sigterm, resp, failed, down>>

\* HandleRebootFinish.  Join returns at once if there is no thread to join, and
\* leaves the status active.
Finish ==
    /\ main = "select" /\ ~down /\ finished
    /\ finished' = FALSE
    /\ main' = IF joinable THEN "join" ELSE "select"
    /\ current' = IF joinable THEN current ELSE "IDLE"
    /\ UNCHANGED <<status, thread, request, stop, done, sigterm, resp, failed, down>>

\* Mutant: join does not clear the active bit.
Joined_StaysActive ==
    /\ main = "join" /\ ~down /\ thread = "done"
    /\ main' = "select" /\ current' = "IDLE"
    /\ thread' = "none"
    /\ UNCHANGED <<status, request, evVars, resp, failed, down>>

\* m_thread.join returns.
Joined ==
    /\ main = "join" /\ ~down /\ thread = "done"
    /\ main' = "select" /\ current' = "IDLE"
    /\ thread' = "none" /\ status' = [status EXCEPT !.active = FALSE]
    /\ UNCHANGED <<request, evVars, resp, failed, down>>

\* Mutant: the loop is not left.
Done_Continues ==
    /\ main = "select" /\ ~down /\ done
    /\ done' = FALSE
    /\ UNCHANGED <<main, current, status, thread, request, finished, stop, sigterm,
                   resp, failed, down>>

\* HandleDone, and the end of main: a thread that is neither active nor joined
\* would abort the process in its destructor.
Done ==
    /\ main = "select" /\ ~down /\ done
    /\ done' = FALSE
    /\ stop' = (stop \/ status.active)
    /\ main' = IF ~joinable THEN "exited"
               ELSE IF status.active THEN "stop" ELSE "aborted"
    /\ UNCHANGED <<current, status, thread, request, finished, sigterm, resp,
                   failed, down>>

Stopped ==
    /\ main = "stop" /\ ~down /\ thread = "done"
    /\ main' = "exited"
    /\ thread' = "none" /\ status' = [status EXCEPT !.active = FALSE]
    /\ UNCHANGED <<current, request, evVars, resp, failed, down>>

----------------------------------------------------------------------------
(* The reboot thread: reboot_thread. *)

ThreadTo(at) ==
    /\ thread' = at
    /\ UNCHANGED <<main, current, request, evVars, resp, down>>

\* Mutant: the failure is not recorded.
Fail_Nothing == failed' = TRUE /\ UNCHANGED status

\* log_error_and_set_non_retry_failure, set_completed_status.
Fail ==
    /\ failed' = TRUE
    /\ status' = IF status.active THEN [status EXCEPT !.status = "FAILURE"] ELSE status

\* do_reboot: the flag is looked at once m_stop is selected on.
ThreadBegin ==
    /\ thread = "begin" /\ ~down
    /\ ThreadTo(IF sigterm THEN "notify" ELSE "asked")
    /\ UNCHANGED <<status, failed>>

\* The D-Bus call returns.
DbusFails ==
    /\ thread = "asked" /\ ~down
    /\ ThreadTo("notify") /\ Fail

DbusReturns ==
    /\ thread = "asked" /\ ~down
    /\ ThreadTo("wait")
    /\ UNCHANGED <<status, failed>>

\* platform_reboot_select: the stop event, or the timer of 260 s.
WaitStopped ==
    /\ thread = "wait" /\ ~down /\ stop
    /\ stop' = FALSE /\ thread' = "notify"
    /\ UNCHANGED <<main, current, status, request, finished, done, sigterm, resp,
                   failed, down>>

\* Mutant: the timer is not waited for.
WaitExpires_Never == FALSE

WaitExpires ==
    /\ thread = "wait" /\ ~down
    /\ ThreadTo("notify") /\ Fail

ThreadNotify ==
    /\ thread = "notify" /\ ~down
    /\ finished' = TRUE /\ thread' = "done"
    /\ UNCHANGED <<main, current, status, request, stop, done, sigterm, resp,
                   failed, down>>

----------------------------------------------------------------------------
(* The environment. *)

\* The platform reboots or halts once it was asked to, and kills the process.
PlatformDown ==
    /\ thread = "wait" /\ ~down /\ down' = TRUE
    /\ UNCHANGED <<main, current, status, thread, request, evVars, resp, failed>>

\* RebootBE::Stop, with or without the flag of a signal handler.
Terminate ==
    /\ main \notin {"exited", "aborted"} /\ ~down /\ ~done
    /\ done' = TRUE /\ sigterm' \in {sigterm, TRUE}
    /\ UNCHANGED <<main, current, status, thread, request, finished, stop, resp,
                   failed, down>>

Ended ==
    /\ main \in {"exited", "aborted"} \/ down
    /\ UNCHANGED vars

Request == [method : Method, delay : Delays]

Handler == Mark \/ Finish \/ Joined \/ Done \/ Stopped

Thread ==
    \/ ThreadBegin \/ DbusFails \/ DbusReturns
    \/ WaitStopped \/ WaitExpires \/ ThreadNotify

Next ==
    \/ Handler \/ Thread \/ StatusRequest \/ OtherRequest
    \/ \E r \in Request : RebootRefused(r) \/ RebootStart(r) \/ RebootLaunchFails(r)
    \/ PlatformDown \/ Terminate \/ Ended

\* The kernel runs the thread.  Select serves the requests first, so the events
\* are seen when no request waits, which is again and again: a client waits for
\* the answer to one before it sends the next.
Fairness ==
    /\ WF_vars(Mark \/ Joined \/ Stopped)
    /\ SF_vars(Finish) /\ SF_vars(Done)
    /\ WF_vars(Thread)

Spec == Init /\ [][Next]_vars /\ Fairness
=============================================================================

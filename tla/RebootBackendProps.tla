------------------------- MODULE RebootBackendProps -------------------------
(* What the reboot backend promises. *)
EXTENDS RebootBackend

\* The state is made of the values the code's types allow.
TypeOK ==
    /\ main \in {"select", "mark", "join", "stop", "exited", "aborted"}
    /\ current \in {"IDLE"} \union Supported
    /\ status \in [active : BOOLEAN, count : Nat,
                   status : {"UNKNOWN", "FAILURE", "RETRIABLE_FAILURE"}]
    /\ thread \in {"none", "begin", "asked", "wait", "notify", "done"}
    /\ request \in Request
    /\ resp.code \in {"SUCCESS", "IN_USE", "INVALID_PARAM", "FAILED_PRECONDITION",
                      "INTERNAL", "UNIMPLEMENTED"}

\* A reboot is started only when the thread of the one before was joined:
\* anything else ends the process in std::terminate.
NeverAborted == main # "aborted"

\* An error of the reboot thread is what a status request returns once the
\* thread was joined, however request, thread and join interleave
\* ("From this point errors will be reported via RebootStatusRequest").
FailureReported ==
    failed /\ ~status.active => Shown = "FAILURE"

\* When the loop is idle and no thread is left, a new reboot can be asked for:
\* a status that stays active would refuse every later one.  The exception is a
\* thread that could not be launched, whose status nothing clears.
IdleMeansInactive ==
    /\ main = "select" /\ current = "IDLE" /\ ~joinable
    /\ status.status # "RETRIABLE_FAILURE"
    => ~status.active

\* A finished thread is always announced, so that the loop cannot stay in
\* progress: either the event is there or the loop is about to join.
FinishAnnounced ==
    thread = "done" => finished \/ main \in {"join", "stop", "exited"}

\* A warm reboot is not tried again after a failure without a cold one or a
\* halt in between.
NoWarmAfterFailure ==
    [][status'.count > status.count /\ failed => request'.method # "WARM"]_vars

\* A reboot that was accepted ends: the platform goes down, the thread gives up
\* and the backend is idle again, or the process is stopped.
RebootEnds ==
    current # "IDLE" ~> (current = "IDLE" \/ down \/ main = "exited")

\* A stop request ends the process, also while a reboot is waited for.
StopEnds == done ~> (main \in {"exited", "aborted"} \/ down)
=============================================================================

------------------------- MODULE RebootBackendProofs -------------------------
(***************************************************************************)
(* The reboot backend never aborts, loses no failure, announces every end  *)
(* and repeats no warm reboot: for every bound and every set of delays.     *)
(***************************************************************************)
EXTENDS RebootBackendProps, TLAPS

\* A thread that was not joined belongs to an active reboot that is in
\* progress, or about to be marked so.
ThreadOwned == joinable => status.active /\ (current # "IDLE" \/ main = "mark")

\* What the loop waits for is there.
LoopOwes ==
    /\ main = "mark" => current = "IDLE" /\ request.method \in Supported
    /\ main = "join" => thread = "done" /\ ~finished
    /\ main = "stop" => joinable

\* A failure is recorded, and hidden only by a launch that failed.
FailureKept ==
    failed => \/ status.status = "FAILURE"
              \/ status.active /\ ~joinable

\* Without a thread the status is active only after a launch that failed.
ActiveOwned ==
    status.active => joinable \/ status.status = "RETRIABLE_FAILURE"

\* The event stands for a thread that has ended, or could not be started.
FinishedMeans ==
    finished => \/ thread = "done"
                \/ thread = "none" /\ (status.active \/ main = "exited")

IInv ==
    /\ TypeOK /\ NeverAborted /\ FinishAnnounced
    /\ ThreadOwned /\ LoopOwes /\ FailureKept /\ ActiveOwned /\ FinishedMeans

USE DelaysAssumption

\* The initial state has the invariant.
LEMMA InitInv == Init => IInv
  BY DEF Init, IInv, TypeOK, NeverAborted, FinishAnnounced, ThreadOwned, LoopOwes,
         FailureKept, ActiveOwned, FinishedMeans, joinable, Request, Method, Supported

\* A start is accepted only from an inactive status and for a supported method,
\* and not for a warm reboot after a failure.
LEMMA Accepted ==
    ASSUME NEW r, Precondition(r) = "SUCCESS"
    PROVE  /\ ~status.active /\ r.method \in Supported
           /\ r.method = "WARM" => status.status # "FAILURE"
  BY DEF Precondition, Shown

\* Every action keeps the invariant.
LEMMA StepInv == IInv /\ [Next]_vars => IInv'
  <1> SUFFICES ASSUME IInv, [Next]_vars PROVE IInv'
    OBVIOUS
  <1> USE DEF IInv, TypeOK, NeverAborted, FinishAnnounced, ThreadOwned, LoopOwes,
              FailureKept, ActiveOwned, FinishedMeans, joinable, evVars, Respond
  <1>1. ASSUME NEW r \in Request, RebootRefused(r) PROVE IInv'
    BY <1>1 DEF RebootRefused, Precondition
  <1>2. ASSUME NEW r \in Request, RebootStart(r) PROVE IInv'
    <2>1. ~status.active /\ r.method \in Supported /\ thread = "none"
      BY <1>2, Accepted DEF RebootStart
    <2>2. /\ request' = r /\ main' = "mark" /\ thread' = "begin" /\ failed' = FALSE
          /\ status' = [active |-> TRUE, status |-> "UNKNOWN", count |-> status.count + 1]
          /\ current = "IDLE" /\ UNCHANGED <<current, evVars, resp, down>>
      BY <1>2, <2>1 DEF RebootStart
    <2>3. ~finished
      BY <1>2, <2>1 DEF RebootStart
    <2> QED
      BY <2>1, <2>2, <2>3
  <1>3. ASSUME NEW r \in Request, RebootLaunchFails(r) PROVE IInv'
    BY <1>3, Accepted DEF RebootLaunchFails
  <1>4. CASE Mark
    BY <1>4 DEF Mark, Supported
  <1>5. CASE StatusRequest
    BY <1>5 DEF StatusRequest
  <1>6. CASE OtherRequest
    BY <1>6 DEF OtherRequest
  <1>7. CASE Finish
    BY <1>7 DEF Finish
  <1>8. CASE Joined
    BY <1>8 DEF Joined
  <1>9. CASE Done
    BY <1>9 DEF Done
  <1>10. CASE Stopped
    BY <1>10 DEF Stopped
  <1>11. CASE ThreadBegin
    BY <1>11 DEF ThreadBegin, ThreadTo
  <1>12. CASE DbusFails
    BY <1>12 DEF DbusFails, ThreadTo, Fail
  <1>13. CASE DbusReturns
    BY <1>13 DEF DbusReturns, ThreadTo
  <1>14. CASE WaitStopped
    BY <1>14 DEF WaitStopped
  <1>15. CASE WaitExpires
    BY <1>15 DEF WaitExpires, ThreadTo, Fail
  <1>16. CASE ThreadNotify
    BY <1>16 DEF ThreadNotify
  <1>17. CASE PlatformDown
    BY <1>17 DEF PlatformDown
  <1>18. CASE Terminate
    BY <1>18 DEF Terminate
  <1>19. CASE Ended \/ UNCHANGED vars
    BY <1>19 DEF Ended, vars
  <1> QED
    BY <1>1, <1>2, <1>3, <1>4, <1>5, <1>6, <1>7, <1>8, <1>9, <1>10, <1>11, <1>12,
       <1>13, <1>14, <1>15, <1>16, <1>17, <1>18, <1>19 DEF Next, Handler, Thread

\* The invariant holds in every state.
THEOREM Invariant == Spec => []IInv
  BY InitInv, StepInv, PTL DEF Spec

\* The process never ends in std::terminate: a thread is started or dropped
\* only after the one before was joined, also when a launch fails.
THEOREM NeverAbortedAlways == Spec => []NeverAborted
  <1>1. IInv => NeverAborted
    BY DEF IInv
  <1> QED
    BY <1>1, Invariant, PTL

\* Once a reboot is over, the failure of its thread is what a status request
\* shows.
THEOREM FailureReportedAlways == Spec => []FailureReported
  <1>1. IInv => FailureReported
    BY DEF IInv, FailureReported, FailureKept, Shown
  <1> QED
    BY <1>1, Invariant, PTL

\* No thread ends unnoticed.
THEOREM FinishAnnouncedAlways == Spec => []FinishAnnounced
  <1>1. IInv => FinishAnnounced
    BY DEF IInv
  <1> QED
    BY <1>1, Invariant, PTL

\* A backend that is idle accepts the next reboot, unless the launch of the last
\* thread failed.
THEOREM IdleMeansInactiveAlways == Spec => []IdleMeansInactive
  <1>1. IInv => IdleMeansInactive
    BY DEF IInv, IdleMeansInactive, ActiveOwned
  <1> QED
    BY <1>1, Invariant, PTL

\* A warm reboot is never the one that follows a failure.
THEOREM NoWarmAfterFailureAlways == Spec => NoWarmAfterFailure
  <1> DEFINE A == status'.count > status.count /\ failed => request'.method # "WARM"
  <1>1. IInv /\ [Next]_vars => [A]_vars
    <2> SUFFICES ASSUME IInv, Next, status'.count > status.count, failed
                 PROVE  request'.method # "WARM"
      OBVIOUS
    <2>1. status'.count # status.count
      BY DEF IInv, TypeOK
    <2>2. PICK r \in Request : RebootStart(r) \/ RebootLaunchFails(r)
      BY <2>1 DEF Next, Handler, Thread, Mark, StatusRequest, OtherRequest, Finish,
           Joined, Done, Stopped, ThreadBegin, DbusFails, DbusReturns, WaitStopped,
           WaitExpires, ThreadNotify, PlatformDown, Terminate, Ended, ThreadTo, Fail,
           RebootRefused, vars, evVars, IInv, TypeOK
    <2>3. request' = r /\ Precondition(r) = "SUCCESS"
      BY <2>2 DEF RebootStart, RebootLaunchFails
    <2> QED
      BY <2>3, Accepted DEF IInv, FailureKept
  <1> QED
    BY <1>1, Invariant, PTL DEF Spec, NoWarmAfterFailure
=============================================================================

-------------------------- MODULE CtrFeatureProofs --------------------------
(* Proofs about the feature that runs from the local image or from          *)
(* kubernetes, for any containers, versions and number of events, with and  *)
(* without fallback, and for every interleaving of the scripts' steps.      *)
EXTENDS CtrFeatureProps, TLAPS

\* A leaf is left to Zenon unless it names a prover: SMT for records and
\* functions that are updated, PTL for temporal logic.
USE Zenon

(* ---- The invariant ---- *)

Id == Pod \cup {Feature, NoId, Unset}
Version == {VersionOf[p] : p \in Pod} \cup {LocalVersion, Unset}
Row == [current_owner : {"none", "local", "kube"},
        remote_state : {"none", "pending", "ready", "running", "stopped"},
        container_id : Id, system_state : {"", "up", "down"}, version : Version]
Unit == [state : {"inactive", "starting", "active", "stopping"}, job : BOOLEAN]

Shape == row \in Row /\ unit \in Unit /\ pod = [p \in Pod |-> pod[p]]

Starts == {"start_config", "start_state", "start_server", "start_write", "start_docker"}
Stops == {"stop_check", "stop_state", "stop_id", "stop_docker", "stop_write"}

\* The scripts of the service run in the order of systemd.
Phases ==
  /\ ctl.at \in Starts => unit.state = "starting"
  /\ ctl.at \in Stops => unit.state = "stopping"
  /\ unit.state \in {"inactive", "starting"} => main.at = "none"
  /\ ctl.at \in Starts \cup Stops \cup {"none"}

\* What the scripts know of a local container that is up.
Known ==
  /\ row.container_id = Feature /\ row.remote_state # "ready"
  /\ main.at \notin {"poll", "grant"} /\ ctl.at # "stop_write"
  /\ ctl.at = "stop_docker" => ctl.id = Feature

\* And of one that is about to be started.
Safe ==
  lapse = {} =>
    /\ loc # "exited" => Known
    /\ ctl.at = "start_docker" => row.container_id = Feature /\ row.remote_state # "ready"

\* The container of kubernetes that the row names, or the service has read there.
Ran ==
  \A p \in Pod :
    row.container_id = p \/ (main.at \in {"docker", "grant"} /\ main.id = p)
      => pod[p].at \in {"app", "gone"}

Inv == Shape /\ Phases /\ Safe /\ Ran

(* ---- What the steps do to it ---- *)

\* Nothing here is about what changes.
Quiet == UNCHANGED <<row, unit, ctl, main, loc, pod, lapse>>

\* systemctl restart, by hand or by ctrmgrd.
Again == Restart /\ UNCHANGED <<row, main, loc, pod, lapse>>

\* The control process reads and goes on.
Reads ==
  /\ \/ ctl.at \in Starts /\ ctl'.at \in Starts \ {"start_docker"}
     \/ ctl.at \in Stops /\ ctl'.at \in {"stop_state", "stop_id"}
  /\ UNCHANGED <<row, unit, main, loc, pod, lapse>>

\* The start-up script in a container goes on, or the container ends; it may
\* write its version or "pending".
Moves(p) ==
  /\ \E s : /\ pod' = [pod EXCEPT ![p] = s]
            /\ pod[p].at \in {"app", "gone"} => s.at = "gone"
  /\ row' \in Row /\ row'.container_id = row.container_id
  /\ row'.remote_state \in {row.remote_state, "pending"}
  /\ UNCHANGED <<unit, ctl, main, loc, lapse>>

Step ==
  \/ Quiet \/ Again \/ Reads \/ (\E p \in Pod : Moves(p) \/ PodTake(p))
  \/ UnitStart \/ StartWrite \/ StartDocker \/ UnitExit \/ StopCheck \/ StopId
  \/ StopDocker \/ StopWrite
  \/ Wait \/ LocalUp \/ LocalCrash

\* Every step is one of these.
LEMMA NextStep ==
  ASSUME Shape, [Next]_vars
  PROVE  Step
<1> USE DEF vars, cfgVars, dbVars, svcVars, ctrVars
<1>1. CASE UNCHANGED vars
  BY <1>1 DEF Step, Quiet
<1>2. CASE Control
  <2>1. CASE StartConfig
    BY <2>1, SMT DEF Step, Reads, StartConfig, CtlReads, Ctl, Starts
  <2>2. CASE StartState
    BY <2>2, SMT DEF Step, Reads, StartState, CtlReads, Ctl, Starts
  <2>3. CASE StartServer
    BY <2>3, SMT DEF Step, Reads, StartServer, CtlReads, Ctl, Starts
  <2>4. CASE StopState
    BY <2>4, SMT DEF Step, Reads, StopState, CtlReads, Ctl, Stops
  <2> QED
    BY <1>2, <2>1, <2>2, <2>3, <2>4 DEF Control, Step
<1>3. CASE Wait \/ LocalUp
  BY <1>3 DEF Step
<1>4. ASSUME NEW p \in Pod, PodUp(p)
      PROVE  Step
  <2>1. CASE PodConfig(p) \/ PodState(p) \/ PodLabels(p) \/ PodPoll(p)
    <3>1. Moves(p)
      <4>1. \E s : pod' = [pod EXCEPT ![p] = s]
        BY <2>1 DEF PodConfig, PodState, PodLabels, PodPoll, PodReads, PodTo
      <4>2. pod[p].at \notin {"app", "gone"}
        BY <2>1 DEF PodConfig, PodState, PodLabels, PodPoll
      <4>3. UNCHANGED <<row, unit, ctl, main, loc, lapse>>
        BY <2>1 DEF PodConfig, PodState, PodLabels, PodPoll, PodReads, PodTo
      <4> QED
        BY <4>1, <4>2, <4>3 DEF Moves, Shape
    <3> QED
      BY <3>1 DEF Step
  <2>2. CASE PodVersion(p)
    <3>1. row' \in Row /\ row'.container_id = row.container_id
          /\ row'.remote_state = row.remote_state
      <4>1. row' = [row EXCEPT !.version = VersionOf[p]] /\ row \in Row
        BY <2>2 DEF PodVersion, SetRow, Shape
      <4> QED
        BY <4>1 DEF Row, Version
    <3>2. Moves(p)
      BY <2>2, <3>1 DEF Moves, PodVersion, PodTo
    <3> QED
      BY <3>2 DEF Step
  <2>3. CASE PodAnnounce(p)
    <3>1. row' \in Row /\ row'.container_id = row.container_id /\ row'.remote_state = "pending"
      <4>1. row' = [row EXCEPT !.remote_state = "pending"] /\ row \in Row
        BY <2>3 DEF PodAnnounce, SetRow, Shape
      <4> QED
        BY <4>1 DEF Row
    <3>2. Moves(p)
      BY <2>3, <3>1 DEF Moves, PodAnnounce, PodTo
    <3> QED
      BY <3>2 DEF Step
  <2>4. CASE PodTake(p)
    BY <2>4 DEF Step
  <2> QED
    BY <1>4, <2>1, <2>2, <2>3, <2>4 DEF PodUp
<1>5. CASE Ctrmgrd
  <2>1. CASE RestartService
    BY <2>1 DEF Step, Again, RestartService, Daemon
  <2>2. CASE DaemonUp \/ OnConfigUpdate \/ OnStateUpdate \/ HandleUpdate \/ RestartDone
    BY <2>2 DEF Step, Quiet, DaemonUp, OnConfigUpdate, OnStateUpdate, HandleUpdate,
                RestartDone, Daemon
  <2> QED
    BY <1>5, <2>1, <2>2 DEF Ctrmgrd
<1>6. CASE Environment
  <2>1. ASSUME NEW p \in Pod, KubeStart(p) \/ KubeStop(p)
        PROVE  Step
    <3>1. \E s : pod' = [pod EXCEPT ![p] = s] /\ (pod[p].at \in {"app", "gone"} => s.at = "gone")
      <4>1. CASE KubeStart(p)
        BY <4>1 DEF KubeStart, PodTo
      <4>2. CASE KubeStop(p)
        <5>1. pod' = [pod EXCEPT ![p] = At("gone")] /\ At("gone").at = "gone"
          BY <4>2 DEF KubeStop, PodReads, PodTo, At
        <5> QED
          BY <5>1
      <4> QED
        BY <2>1, <4>1, <4>2
    <3>2. UNCHANGED <<row, unit, ctl, main, loc, lapse>>
      BY <2>1 DEF KubeStart, KubeStop, PodReads, PodTo
    <3>3. Moves(p)
      BY <3>1, <3>2 DEF Moves, Shape
    <3> QED
      BY <3>3 DEF Step
  <2>2. CASE DaemonCrash \/ SetOwner \/ Connection
    BY <2>2 DEF Step, Quiet, DaemonCrash, SetOwner, Connection, Daemon
  <2>3. CASE Admin
    BY <2>3 DEF Step, Again, Admin
  <2> QED
    BY <1>6, <2>1, <2>2, <2>3 DEF Environment, Step
<1> QED
  BY <1>1, <1>2, <1>3, <1>4, <1>5, <1>6 DEF Next

(* ---- Inductiveness ---- *)

\* Nothing runs and the row is empty.
LEMMA InvInit == Init => Inv
<1> SUFFICES ASSUME Init PROVE Inv
  OBVIOUS
<1>1. Shape
  <2>1. row \in Row /\ unit \in Unit
    BY DEF Init, Row, Unit, Id, Version
  <2>2. pod = [p \in Pod |-> pod[p]]
    BY DEF Init
  <2> QED
    BY <2>1, <2>2 DEF Shape
<1>2. Phases
  BY DEF Init, Phases, At, Starts, Stops
<1>3. Safe
  BY DEF Init, Safe, At
<1>4. Ran
  <2>1. row.container_id = Unset /\ Unset \notin Pod /\ main.at \notin {"docker", "grant"}
    BY ConstantsAssumption DEF Init, At
  <2> QED
    BY <2>1 DEF Ran
<1> QED
  BY <1>1, <1>2, <1>3, <1>4 DEF Inv

\* The records and the function keep their fields and their domain.
LEMMA ShapeStep ==
  ASSUME Shape, Step
  PROVE  Shape'
<1>1. ASSUME row' = row \/ row' \in Row PROVE row' \in Row
  BY <1>1 DEF Shape
<1>2. row' \in Row
  <2>1. CASE \E p \in Pod : PodTake(p)
    <3>1. PICK p \in Pod : row' = [row EXCEPT !.current_owner = "kube", !.container_id = p,
                              !.version = VersionOf[p], !.remote_state = "running"]
      BY <2>1 DEF PodTake, SetRow
    <3> QED
      BY <3>1 DEF Shape, Row, Id, Version
  <2>2. CASE StartWrite
    BY <2>2 DEF StartWrite, SetRow, Shape, Row, Id
  <2>3. CASE StopWrite
    <3>1. \E s \in {"stopped", row.remote_state} :
            row' = [row EXCEPT !.current_owner = "none", !.container_id = NoId,
                              !.system_state = "down", !.remote_state = s]
      BY <2>3 DEF StopWrite, SetRow
    <3> QED
      BY <3>1 DEF Shape, Row, Id
  <2>4. CASE Wait
    BY <2>4 DEF Wait, WaitRead, WaitPoll, WaitGrant, WaitGiveUp, WaitEnds, SetRow, dbVars,
                Shape, Row
  <2>5. CASE LocalUp
    BY <2>5 DEF LocalUp, LocalDrop, LocalRecord, SetRow, Shape, Row, Id, Version
  <2>6. CASE UnitStart \/ StartDocker \/ UnitExit \/ StopCheck \/ StopId \/ StopDocker \/ LocalCrash
    BY <2>6, <1>1 DEF UnitStart, StartDocker, UnitExit, StopCheck, CtlReads, StopId, StopDocker,
                      LocalCrash,
                dbVars
  <2>7. CASE Quiet \/ Again \/ Reads \/ (\E p \in Pod : Moves(p))
    BY <2>7, <1>1 DEF Quiet, Again, Reads, Moves
  <2> QED
    BY <2>1, <2>2, <2>3, <2>4, <2>5, <2>6, <2>7 DEF Step
<1>3. unit' \in Unit
  <2>1. ASSUME \/ unit' = unit \/ Starting(unit) \/ (\E j \in BOOLEAN : Stopping(j))
               \/ \E s \in {"active", "inactive"} : unit' = [unit EXCEPT !.state = s]
               \/ unit' = [unit EXCEPT !.job = TRUE]
        PROVE  unit' \in Unit
    BY <2>1 DEF Shape, Unit, Starting, Stopping
  <2>2. CASE UnitStart \/ UnitExit \/ Again
    BY <2>1, <2>2 DEF UnitStart, UnitExit, Again, Restart
  <2>3. CASE StartWrite \/ StartDocker
    BY <2>1, <2>3 DEF StartWrite, StartDocker, Started, Ctl
  <2>4. CASE StopCheck \/ StopWrite
    BY <2>1, <2>4 DEF StopCheck, StopWrite, Stopped, CtlReads, Ctl
  <2>5. CASE StopId \/ StopDocker \/ Wait \/ LocalUp \/ LocalCrash
    BY <2>1, <2>5 DEF StopId, StopDocker, CtlReads, Ctl, Wait, WaitRead, WaitPoll, WaitGrant,
                      WaitGiveUp,
                      WaitEnds, Main, LocalUp, LocalDrop, LocalRecord, LocalCrash, Local, svcVars
  <2>6. CASE Quiet \/ Reads \/ (\E p \in Pod : Moves(p) \/ PodTake(p))
    BY <2>1, <2>6 DEF Quiet, Reads, Moves, PodTake, PodTo, svcVars
  <2> QED
    BY <2>2, <2>3, <2>4, <2>5, <2>6 DEF Step
<1>4. pod' = [p \in Pod |-> pod'[p]]
  <2>1. ASSUME \/ pod' = pod \/ (\E p \in Pod : \E s : pod' = [pod EXCEPT ![p] = s])
               \/ Halt(ctl.id)
        PROVE  pod' = [p \in Pod |-> pod'[p]]
    <3>1. CASE \E p \in Pod : \E s : pod' = [pod EXCEPT ![p] = s]
      BY <3>1 DEF Shape
    <3> QED
      BY <2>1, <3>1 DEF Shape, Halt
  <2>2. CASE \E p \in Pod : Moves(p) \/ PodTake(p)
    BY <2>1, <2>2 DEF Moves, PodTake, PodTo
  <2>3. CASE StopDocker
    BY <2>1, <2>3 DEF StopDocker, ctrVars
  <2>4. CASE StartWrite \/ StartDocker \/ StopCheck \/ StopWrite \/ StopId
    BY <2>1, <2>4 DEF StartWrite, StartDocker, Started, StopCheck, StopWrite, Stopped, StopId,
                      CtlReads,
                      ctrVars
  <2>5. CASE UnitStart \/ UnitExit \/ Wait \/ LocalUp \/ LocalCrash
    BY <2>1, <2>5 DEF UnitStart, UnitExit, Wait, WaitRead, WaitPoll, WaitGrant, WaitGiveUp,
                      WaitEnds, Main,
                      LocalUp, LocalDrop, LocalRecord, LocalCrash, Local, ctrVars
  <2>6. CASE Quiet \/ Again \/ Reads
    BY <2>1, <2>6 DEF Quiet, Again, Reads
  <2> QED
    BY <2>2, <2>3, <2>4, <2>5, <2>6 DEF Step
<1> QED
  BY <1>2, <1>3, <1>4 DEF Shape

\* The scripts of the service go on in the order of systemd.
LEMMA PhasesStep ==
  ASSUME Shape, Phases, Step
  PROVE  Phases'
<1>1. ASSUME UNCHANGED <<unit, ctl, main>> PROVE Phases'
  BY <1>1 DEF Phases
<1>2. CASE Quiet \/ LocalUp \/ LocalCrash \/ (\E p \in Pod : Moves(p) \/ PodTake(p))
  BY <1>1, <1>2 DEF Quiet, LocalUp, LocalDrop, LocalRecord, LocalCrash, Local, Moves, PodTake,
                    PodTo, svcVars
<1>3. unit \in Unit
  BY DEF Shape
<1>4. ASSUME Starting(unit), main'.at = "none" PROVE Phases'
  <2>1. unit'.state = "starting" /\ ctl'.at = "start_config"
    BY <1>3, <1>4 DEF Starting, Unit, At
  <2> QED
    BY <1>4, <2>1 DEF Phases, Starts, Stops
<1>5. ASSUME NEW j \in BOOLEAN, Stopping(j) PROVE Phases'
  <2>1. unit'.state = "stopping" /\ ctl'.at = "stop_check"
    BY <1>3, <1>5 DEF Stopping, Unit, At
  <2> QED
    BY <2>1 DEF Phases, Starts, Stops
<1>6. CASE UnitStart
  BY <1>6, <1>4 DEF UnitStart, Phases
<1>7. CASE UnitExit
  BY <1>7, <1>5 DEF UnitExit
<1>8. CASE Again
  <2>1. CASE unit.state = "stopping" /\ unit' = [unit EXCEPT !.job = TRUE] /\ UNCHANGED ctl
    <3>1. unit'.state = unit.state /\ UNCHANGED main
      BY <1>8, <2>1, <1>3 DEF Unit, Again
    <3> QED
      BY <2>1, <3>1 DEF Phases
  <2> QED
    BY <1>8, <1>4, <1>5, <2>1 DEF Again, Restart, Phases
<1>9. ASSUME Started PROVE Phases'
  <2>1. unit'.state = "active" /\ ctl'.at = "none"
    BY <1>9, <1>3 DEF Started, Unit, At
  <2> QED
    BY <2>1 DEF Phases, Starts, Stops
<1>10. ASSUME Stopped PROVE Phases'
  <2>1. CASE ~unit.job
    <3>1. unit'.state = "inactive" /\ ctl'.at = "none" /\ main'.at = "none"
      <4>1. unit' = [unit EXCEPT !.state = "inactive"] /\ ctl' = At("none") /\ main' = At("none")
        BY <1>10, <2>1 DEF Stopped
      <4> QED
        BY <4>1, <1>3 DEF Unit, At
    <3> QED
      BY <3>1 DEF Phases, Starts, Stops
  <2> QED
    BY <1>10, <2>1, <1>4 DEF Stopped, At
<1>11. ASSUME UNCHANGED <<unit, main>>,
              \/ ctl.at \in Starts /\ ctl'.at \in Starts
              \/ ctl.at \in Stops /\ ctl'.at \in Stops
       PROVE  Phases'
  BY <1>11 DEF Phases, Starts, Stops
<1>12. CASE StartWrite
  <2>1. ASSUME Ctl(At("start_docker")) PROVE Phases'
    <3>1. ctl'.at = "start_docker" /\ UNCHANGED <<unit, main>>
      BY <2>1 DEF Ctl, At
    <3> QED
      BY <1>12, <3>1, <1>11 DEF StartWrite, Starts
  <2> QED
    BY <1>12, <1>9, <2>1 DEF StartWrite
<1>13. CASE StartDocker
  BY <1>13, <1>9 DEF StartDocker
<1>14. CASE StopCheck
  <2>1. ASSUME CtlReads(At("stop_state")) PROVE Phases'
    <3>1. ctl'.at = "stop_state" /\ UNCHANGED <<unit, main>>
      BY <2>1 DEF CtlReads, Ctl, At
    <3> QED
      BY <1>14, <3>1, <1>11 DEF StopCheck, Stops
  <2> QED
    BY <1>14, <1>10, <2>1 DEF StopCheck
<1>15. CASE Reads
  BY <1>15, <1>11 DEF Reads, Stops
<1>16. CASE StopId
  BY <1>16, <1>11 DEF StopId, CtlReads, Ctl, Stops
<1>17. CASE StopDocker
  BY <1>17, <1>11 DEF StopDocker, Ctl, Stops
<1>18. CASE StopWrite
  BY <1>18, <1>10 DEF StopWrite
<1>19. CASE Wait
  <2>1. main.at # "none" /\ UNCHANGED <<unit, ctl>>
    BY <1>19 DEF Wait, WaitRead, WaitPoll, WaitGrant, WaitGiveUp, WaitEnds, Main
  <2> QED
    BY <2>1 DEF Phases
<1> QED
  BY <1>2, <1>6, <1>7, <1>8, <1>12, <1>13, <1>14, <1>15, <1>16, <1>17, <1>18, <1>19 DEF Step

\* A local container that is up stays known to the scripts, as long as no docker
\* stop fails and no withdrawn grant is taken.
LEMMA SafeStep ==
  ASSUME Shape, Phases, Safe, Step
  PROVE  Safe'
<1> DEFINE Clear == row.container_id = Feature /\ row.remote_state # "ready"
           Acts == {"start_docker", "stop_docker", "stop_write"}
<1> SUFFICES ASSUME lapse' = {}
             PROVE  /\ loc' # "exited" => Known'
                    /\ ctl'.at = "start_docker" => Clear'
  BY DEF Safe
<1>1. lapse = {}
  <2>1. CASE \E p \in Pod : PodTake(p)
    BY <2>1 DEF PodTake
  <2>2. CASE StopDocker
    BY <2>2 DEF StopDocker
  <2>3. CASE Quiet \/ Again \/ Reads \/ (\E p \in Pod : Moves(p)) \/ UnitStart \/ UnitExit
    BY <2>3 DEF Quiet, Again, Reads, Moves, UnitStart, UnitExit
  <2>4. CASE StartWrite \/ StartDocker \/ StopCheck \/ StopId \/ StopWrite
    BY <2>4 DEF StartWrite, StartDocker, Started, StopCheck, StopId, StopWrite, CtlReads, Stopped
  <2>5. CASE Wait \/ LocalUp \/ LocalCrash
    BY <2>5 DEF Wait, WaitRead, WaitPoll, WaitGrant, WaitGiveUp, WaitEnds, Main,
                LocalUp, LocalDrop, LocalRecord, LocalCrash, Local
  <2> QED
    BY <2>1, <2>2, <2>3, <2>4, <2>5 DEF Step
<1>2. /\ loc # "exited" => Known
      /\ ctl.at = "start_docker" => Clear
  BY <1>1 DEF Safe
<1>3. ASSUME Clear => Clear',
             loc' # "exited" => loc # "exited",
             main' = main \/ main'.at \notin {"poll", "grant"},
             ctl' = ctl \/ ctl'.at \notin Acts
      PROVE  /\ loc' # "exited" => Known'
             /\ ctl'.at = "start_docker" => Clear'
  BY <1>2, <1>3 DEF Known
<1>4. CASE Quiet \/ LocalCrash
  BY <1>4, <1>3 DEF Quiet, LocalCrash, Local, dbVars, svcVars
<1>5. CASE LocalUp
  <2>1. CASE LocalDrop
    BY <2>1, <1>3 DEF LocalDrop, Local, svcVars
  <2>2. CASE LocalRecord
    <3>1. row'.container_id = Feature /\ row'.remote_state = row.remote_state
      BY <2>2 DEF LocalRecord, SetRow, Shape, Row
    <3> QED
      BY <2>2, <3>1, <1>3 DEF LocalRecord, Local, svcVars
  <2> QED
    BY <1>5, <2>1, <2>2 DEF LocalUp
<1>6. CASE Again \/ UnitStart \/ UnitExit
  <2>1. ctl' = ctl \/ ctl' = At("start_config") \/ ctl' = At("stop_check")
    BY <1>6 DEF Again, Restart, UnitStart, UnitExit, Starting, Stopping
  <2>2. ctl' = ctl \/ ctl'.at \notin Acts
    <3>1. At("start_config").at = "start_config" /\ At("stop_check").at = "stop_check"
      BY DEF At
    <3> QED
      BY <2>1, <3>1
  <2>3. UNCHANGED <<row, loc, main>>
    BY <1>6 DEF Again, UnitStart, UnitExit, dbVars, ctrVars
  <2> QED
    BY <2>2, <2>3, <1>3
<1>7. CASE Reads
  BY <1>7, <1>3 DEF Reads, Starts
<1>8. CASE \E p \in Pod : Moves(p)
  <2>1. UNCHANGED <<ctl, main, loc>> /\ (Clear => Clear')
    BY <1>8 DEF Moves
  <2> QED
    BY <2>1, <1>3
<1>9. CASE \E p \in Pod : PodTake(p)
  <2>1. row.remote_state = "ready" /\ UNCHANGED <<ctl, main, loc>>
    BY <1>9 DEF PodTake, PodTo, svcVars
  <2>2. loc = "exited" /\ ctl.at # "start_docker"
    BY <2>1, <1>2 DEF Known
  <2> QED
    BY <2>1, <2>2
<1>10. ASSUME Started
       PROVE  main'.at = "read" /\ ctl'.at = "none"
  BY <1>10 DEF Started, At
<1>11. CASE StartWrite
  <2>1. CASE ctl.local
    <3>1. Clear'
      BY <1>11, <2>1 DEF StartWrite, SetRow, Shape, Row
    <3>2. main' = main /\ ctl'.at = "start_docker" /\ loc' = loc
      <4>1. Ctl(At("start_docker")) /\ loc' = loc
        BY <1>11, <2>1 DEF StartWrite
      <4>2. main' = main /\ ctl' = At("start_docker")
        BY <4>1 DEF Ctl
      <4> QED
        BY <4>1, <4>2 DEF At
    <3> QED
      BY <3>1, <3>2, <1>2 DEF Known
  <2>2. CASE ~ctl.local
    <3>1. row'.container_id = row.container_id /\ row'.remote_state = row.remote_state
      BY <1>11, <2>2 DEF StartWrite, SetRow, Shape, Row
    <3>2. Started /\ loc' = loc
      BY <1>11, <2>2 DEF StartWrite
    <3> QED
      BY <3>1, <3>2, <1>3, <1>10
  <2> QED
    BY <2>1, <2>2
<1>12. CASE StartDocker
  <2>1. Clear' /\ Started
    BY <1>12, <1>2 DEF StartDocker, dbVars
  <2> QED
    BY <2>1, <1>10 DEF Known
<1>13. ASSUME Stopped
       PROVE  main'.at = "none" /\ ctl'.at \notin Acts /\ loc' = loc
  <2>1. /\ main' = At("none") /\ loc' = loc
        /\ ctl' = At("none") \/ ctl' = At("start_config")
    BY <1>13 DEF Stopped, Starting, ctrVars
  <2>2. At("none").at = "none" /\ At("start_config").at = "start_config"
    BY DEF At
  <2> QED
    BY <2>1, <2>2
<1>14. CASE StopCheck
  <2>1. CASE CtlReads(At("stop_state"))
    <3>1. ctl'.at = "stop_state" /\ UNCHANGED <<row, main, loc>>
      BY <2>1 DEF CtlReads, Ctl, At, dbVars, ctrVars
    <3> QED
      BY <3>1, <1>3
  <2>2. CASE Stopped /\ UNCHANGED dbVars
    BY <2>2, <1>3, <1>13 DEF dbVars
  <2> QED
    BY <1>14, <2>1, <2>2 DEF StopCheck
<1>15. CASE StopId
  <2>1. ctl' = [at |-> "stop_docker", running |-> ctl.running, id |-> ContainerId]
    BY <1>15 DEF StopId, CtlReads, Ctl
  <2>2. UNCHANGED <<row, main, loc>>
    BY <1>15 DEF StopId, CtlReads, Ctl, dbVars, ctrVars
  <2>3. row.container_id = Feature => ctl'.id = Feature
    BY <2>1 DEF ContainerId
  <2>4. ctl'.at = "stop_docker"
    BY <2>1
  <2> QED
    BY <2>2, <2>3, <2>4, <1>2 DEF Known
<1>16. CASE StopDocker
  <2>1. Halt(ctl.id)
    BY <1>16 DEF StopDocker
  <2>2. loc' = "exited"
    BY <1>16, <2>1, <1>2 DEF Halt, Known, StopDocker
  <2>3. ctl'.at = "stop_write"
    BY <1>16 DEF StopDocker, Ctl
  <2> QED
    BY <2>2, <2>3
<1>17. CASE StopWrite
  <2>1. loc = "exited"
    BY <1>17, <1>2 DEF StopWrite, Known
  <2> QED
    BY <1>17, <2>1, <1>13 DEF StopWrite
<1>18. CASE Wait
  <2>1. UNCHANGED <<ctl, loc>> /\ ctl.at # "start_docker"
    <3>1. main.at # "none" /\ UNCHANGED <<ctl, loc>>
      BY <1>18 DEF Wait, WaitRead, WaitPoll, WaitGrant, WaitGiveUp, WaitEnds, Main, ctrVars
    <3> QED
      BY <3>1 DEF Phases, Starts
  <2>2. CASE main.at \in {"poll", "grant"}
    BY <2>1, <2>2, <1>2 DEF Known
  <2>3. CASE WaitRead
    <3>1. Clear => main'.at = "docker"
      BY <2>3 DEF WaitRead, Main, ContainerId, Feature, NoId, Unset
    <3> QED
      BY <2>1, <2>3, <3>1, <1>2 DEF WaitRead, Known
  <2>4. CASE WaitGiveUp
    <3>1. row'.container_id = row.container_id /\ row'.remote_state = "none" /\ main'.at = "exit"
      BY <2>4 DEF WaitGiveUp, SetRow, Shape, Row, Main, At
    <3> QED
      BY <2>1, <3>1, <1>3
  <2>5. CASE WaitEnds
    BY <2>1, <2>5, <1>3 DEF WaitEnds, Main, At, dbVars
  <2> QED
    BY <1>18, <2>2, <2>3, <2>4, <2>5 DEF Wait, WaitPoll, WaitGrant
<1> QED
  BY <1>4, <1>5, <1>6, <1>7, <1>8, <1>9, <1>11, <1>12, <1>14, <1>15, <1>16, <1>17, <1>18 DEF Step

\* A container of kubernetes that runs the feature, or has ended, stays so; and
\* the id that is recorded is its own.
LEMMA RanStep ==
  ASSUME Shape, Ran, Step
  PROVE  Ran'
<1> DEFINE Done == {"app", "gone"}
           Names == {"docker", "grant"}
<1>1. \A q \in Pod : pod[q].at \in Done => pod'[q].at \in Done
  <2>0. ASSUME NEW p \in Pod, NEW s, pod' = [pod EXCEPT ![p] = s]
        PROVE  pod'[p] = s /\ \A q \in Pod : q # p => pod'[q] = pod[q]
    BY <2>0 DEF Shape
  <2>1. CASE \E p \in Pod : Moves(p)
    <3>1. PICK p \in Pod : Moves(p)
      BY <2>1
    <3>2. PICK s : /\ pod' = [pod EXCEPT ![p] = s]
                   /\ pod[p].at \in {"app", "gone"} => s.at = "gone"
      BY <3>1 DEF Moves
    <3>3. pod'[p] = s /\ \A q \in Pod : q # p => pod'[q] = pod[q]
      BY <3>2, <2>0
    <3> QED
      BY <3>2, <3>3
  <2>2. CASE \E p \in Pod : PodTake(p)
    <3>1. PICK p \in Pod : pod' = [pod EXCEPT ![p] = At("app")]
      BY <2>2 DEF PodTake, PodTo
    <3>2. At("app").at = "app"
      BY DEF At
    <3> QED
      BY <3>1, <3>2, <2>0
  <2>3. CASE StopDocker
    <3>1. CASE Halt(ctl.id)
      <4>1. At("gone").at = "gone"
        BY DEF At
      <4> QED
        BY <3>1, <4>1 DEF Halt
    <3> QED
      BY <2>3, <3>1 DEF StopDocker, ctrVars
  <2>4. CASE StartWrite \/ StartDocker \/ StopCheck \/ StopWrite \/ StopId
    BY <2>4 DEF StartWrite, StartDocker, Started, StopCheck, StopWrite, Stopped, StopId, CtlReads,
                ctrVars
  <2>5. CASE UnitStart \/ UnitExit \/ Wait \/ LocalUp \/ LocalCrash
    BY <2>5 DEF UnitStart, UnitExit, Wait, WaitRead, WaitPoll, WaitGrant, WaitGiveUp, WaitEnds,
                Main,
                LocalUp, LocalDrop, LocalRecord, LocalCrash, Local, ctrVars
  <2>6. CASE Quiet \/ Again \/ Reads
    BY <2>6 DEF Quiet, Again, Reads
  <2> QED
    BY <2>1, <2>2, <2>3, <2>4, <2>5, <2>6 DEF Step
<1>2. ASSUME row'.container_id = row.container_id \/ row'.container_id \notin Pod,
             \/ main' = main \/ main'.at \notin Names \/ main'.id \notin Pod
             \/ main'.id = row.container_id
             \/ main.at \in Names /\ main'.id = main.id
      PROVE  Ran'
  BY <1>1, <1>2 DEF Ran
<1>3. Feature \notin Pod /\ NoId \notin Pod
  BY ConstantsAssumption
<1>4. CASE Quiet \/ Again \/ Reads \/ UnitStart \/ UnitExit \/ (\E p \in Pod : Moves(p))
  BY <1>4, <1>2 DEF Quiet, Again, Reads, UnitStart, UnitExit, Moves, dbVars
<1>5. CASE \E p \in Pod : PodTake(p)
  <2>1. PICK p \in Pod : PodTake(p)
    BY <1>5
  <2>2. pod'[p].at = "app" /\ main' = main
    BY <2>1 DEF PodTake, PodTo, At, Shape, svcVars
  <2>3. row'.container_id = p
    BY <2>1 DEF PodTake, SetRow, Shape, Row
  <2> QED
    BY <1>1, <2>2, <2>3 DEF Ran
<1>6. CASE LocalUp \/ LocalCrash
  <2>1. main' = main
    BY <1>6 DEF LocalUp, LocalDrop, LocalRecord, LocalCrash, Local, svcVars
  <2>2. row' = row \/ row'.container_id = Feature
    BY <1>6 DEF LocalUp, LocalDrop, LocalRecord, LocalCrash, SetRow, dbVars, Shape, Row
  <2> QED
    BY <2>1, <2>2, <1>2, <1>3
<1>7. CASE StartWrite \/ StartDocker
  <2>1. row'.container_id \in {row.container_id, Feature}
    BY <1>7 DEF StartWrite, StartDocker, SetRow, dbVars, Shape, Row
  <2>2. main' = main \/ main' = At("read")
    BY <1>7 DEF StartWrite, StartDocker, Started, Ctl
  <2>3. main' = main \/ main'.at \notin Names
    <3>1. At("read").at = "read"
      BY DEF At
    <3> QED
      BY <2>2, <3>1
  <2> QED
    BY <2>1, <2>3, <1>2, <1>3
<1>8. CASE StopCheck \/ StopId \/ StopDocker \/ StopWrite
  <2>1. row'.container_id \in {row.container_id, NoId}
    BY <1>8 DEF StopCheck, StopId, StopDocker, StopWrite, CtlReads, SetRow, dbVars, Shape, Row
  <2>2. main' = main \/ main' = At("none")
    BY <1>8 DEF StopCheck, StopId, StopDocker, StopWrite, CtlReads, Stopped, Ctl
  <2>3. main' = main \/ main'.at \notin Names
    <3>1. At("none").at = "none"
      BY DEF At
    <3> QED
      BY <2>2, <3>1
  <2> QED
    BY <2>1, <2>3, <1>2, <1>3
<1>9. CASE Wait
  <2>1. row'.container_id = row.container_id
    BY <1>9 DEF Wait, WaitRead, WaitPoll, WaitGrant, WaitGiveUp, WaitEnds, SetRow, dbVars,
                Shape, Row
  <2>2. ASSUME NEW s \in {"poll", "late", "exit"} PROVE At(s).at \notin Names
    BY DEF At
  <2>3. CASE WaitGiveUp \/ WaitEnds
    <3>1. main' = At("exit")
      BY <2>3 DEF WaitGiveUp, WaitEnds, Main
    <3> QED
      BY <2>1, <2>2, <3>1, <1>2
  <2>4. ASSUME NEW id, NEW last, main' = Onward(id, last),
               \/ id = row.container_id \/ id \notin Pod \/ (main.at \in Names /\ id = main.id)
        PROVE  Ran'
    <3>1. \/ main'.id = id \/ main' = At("late") \/ main' = At("poll")
      BY <2>4 DEF Onward
    <3> QED
      BY <2>1, <2>2, <2>4, <3>1, <1>2
  <2>5. CASE WaitRead
    <3>1. \/ main' = At("poll") \/ main'.id = ContainerId
      BY <2>5 DEF WaitRead, Main
    <3>2. ContainerId \in {Feature, row.container_id}
      BY DEF ContainerId
    <3> QED
      BY <2>1, <2>2, <3>1, <3>2, <1>2, <1>3
  <2>6. CASE \E last \in BOOLEAN : WaitPoll(last)
    <3>1. ReadId \in {NoId, row.container_id}
      BY DEF ReadId
    <3>2. PICK last \in BOOLEAN : \/ main' = [at |-> "grant", id |-> ReadId, last |-> last]
                                  \/ main' = Onward(ReadId, last)
      BY <2>6 DEF WaitPoll, Main
    <3>3. CASE main' = [at |-> "grant", id |-> ReadId, last |-> last]
      <4>1. main'.id = ReadId
        BY <3>3
      <4> QED
        BY <2>1, <3>1, <4>1, <1>2, <1>3
    <3> QED
      BY <3>1, <3>2, <3>3, <2>4, <1>3
  <2>7. CASE WaitGrant
    BY <2>7, <2>4 DEF WaitGrant, Main
  <2> QED
    BY <1>9, <2>3, <2>5, <2>6, <2>7 DEF Wait
<1> QED
  BY <1>4, <1>5, <1>6, <1>7, <1>8, <1>9 DEF Step

\* The invariant holds in every state that can be reached.
LEMMA InvAlways == Spec => []Inv
<1>1. Inv /\ [Next]_vars => Inv'
  <2> SUFFICES ASSUME Inv, [Next]_vars PROVE Inv'
    OBVIOUS
  <2>1. Step
    BY NextStep DEF Inv
  <2> QED
    BY <2>1, ShapeStep, PhasesStep, SafeStep, RanStep DEF Inv
<1> QED
  BY <1>1, InvInit, PTL DEF Spec

(* ---- The theorems ---- *)

\* For any containers of kubernetes that come and go, operator, daemon and
\* interleaving of the scripts: while no docker stop has failed and no withdrawn
\* grant was taken, a local container that is up is the one that the row names.
THEOREM LocalRecordedAlways == Spec => []LocalRecorded
<1>1. Inv => LocalRecorded
  BY DEF Inv, Safe, Known, LocalRecorded
<1> QED
  BY <1>1, InvAlways, PTL

\* In the same runs, "ready" in the row means that the local container is down.
THEOREM GrantMeansLocalDownAlways == Spec => []GrantMeansLocalDown
<1>1. Inv => GrantMeansLocalDown
  BY DEF Inv, Safe, Known, GrantMeansLocalDown
<1> QED
  BY <1>1, InvAlways, PTL

\* In every run, failing docker commands included: the container of kubernetes
\* that the row names, or the service waits on, was let through.
THEOREM RecordedRanAlways == Spec => []RecordedRan
<1>1. Inv => RecordedRan
  BY DEF Inv, Ran, RecordedRan
<1> QED
  BY <1>1, InvAlways, PTL
=============================================================================

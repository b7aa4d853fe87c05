------------------------------ MODULE CtrFeature ------------------------------
(***************************************************************************)
(* One feature (snmp, telemetry, ...) that may run from the local image or  *)
(* be deployed by kubernetes.  The scripts that systemd runs for its        *)
(* service (`container start', `wait', `stop'), the start-up script in the  *)
(* local container and in each container of kubernetes (container_up) and   *)
(* FeatureTransitionHandler of ctrmgrd share the feature's row in STATE_DB, *)
(* and nothing else: there is no lock.  A step is one access to a database, *)
(* or one command to docker or systemd, and what the process computes from  *)
(* its result.                                                              *)
(*                                                                          *)
(* The label <f>_enabled, which these processes set and ctrmgrd passes on,  *)
(* is read by kubernetes alone, which may be late to act on it: containers  *)
(* of kubernetes may come and go at any time, and the label is left out.    *)
(* So is `container kill': whichever container it picks, to the others it   *)
(* is a container that ends.                                                *)
(***************************************************************************)
EXTENDS Naturals

CONSTANTS
  Pod,            \* ids of the containers of kubernetes
  VersionOf,      \* the version of each
  LocalVersion,   \* the version of the local image
  Fallback,       \* local image is used when kubernetes does not deliver
  MaxEvents       \* how much may happen to the system

VARIABLES
  set_owner,      \* FEATURE|<f> set_owner of CONFIG_DB
  connected,      \* KUBERNETES_MASTER|SERVER connected of STATE_DB
  row,            \* FEATURE|<f> of STATE_DB
  blocked,        \* KUBE_LABELS|SET <f>_local: the version not to run
  note,           \* tables with a notification for ctrmgrd
  unit,           \* the service: its state and a queued restart
  ctl,            \* ExecStartPre or ExecStop: `container start' or `stop'
  main,           \* ExecStart: `container wait', then docker wait
  loc,            \* the local container, and its container_up
  pod,            \* the containers of kubernetes, and theirs
  daemon,         \* FeatureTransitionHandler of ctrmgrd
  left,           \* what may still happen
  lapse           \* history: "stop" if a docker stop has failed, "take" if a
                  \* container of kubernetes took a grant that was withdrawn

cfgVars == <<set_owner, connected>>
dbVars == <<row, note, blocked>>
svcVars == <<unit, ctl, main>>
ctrVars == <<loc, pod>>
vars == <<cfgVars, dbVars, svcVars, ctrVars, daemon, left, lapse>>

Feature == "feature"    \* the name, and so the id, of the local container
NoId == ""
Unset == "unset"        \* a field that was never written
Up == {"start", "state", "labels", "version", "announce", "wait", "granted",
       "app", "frozen"}

ASSUME ConstantsAssumption ==
  /\ Feature \notin Pod /\ NoId \notin Pod /\ Unset \notin Pod
  /\ Fallback \in BOOLEAN /\ MaxEvents \in Nat

At(s) == [at |-> s]

\* ctrmgrd, not yet started or ended.
Down == [at |-> "down", set |-> Unset, owner |-> Unset, remote |-> Unset]

Init ==
  /\ set_owner \in {"local", "kube"} /\ connected = TRUE
  /\ row = [current_owner |-> "none", remote_state |-> "none",
            container_id |-> Unset, system_state |-> "", version |-> Unset]
  /\ blocked = Unset /\ note = {"config"}
  /\ unit = [state |-> "inactive", job |-> FALSE]
  /\ ctl = At("none") /\ main = At("none")
  /\ loc = "exited" /\ pod = [p \in Pod |-> At("new")]
  /\ daemon = [Down EXCEPT !.at = "idle"] /\ left = MaxEvents /\ lapse = {}

(* ---- The databases and docker ---- *)

\* Every write raises a keyspace event, also one that changes nothing.
SetRow(r) == row' = r /\ note' = note \cup {"state"} /\ UNCHANGED blocked

Running(id) ==
  IF id = Feature THEN loc # "exited" ELSE id \in Pod /\ pod[id].at \in Up

\* The container with that id ends, if it is there and runs.
Halt(id) ==
  /\ loc' = IF id = Feature THEN "exited" ELSE loc
  /\ pod' = [p \in Pod |-> IF p = id /\ Running(p) THEN At("gone") ELSE pod[p]]

\* container_id(): a row without the field stands for the local container.
ContainerId ==
  IF row.current_owner = "local" \/ row.container_id = Unset
  THEN Feature ELSE row.container_id

\* read_state() has the empty id for it.
ReadId == IF row.container_id = Unset THEN NoId ELSE row.container_id

Spend == left > 0 /\ left' = left - 1

(* ---- The service: container_start ---- *)

Ctl(c) == ctl' = c /\ UNCHANGED <<cfgVars, unit, main, daemon>>
CtlReads(c) == Ctl(c) /\ UNCHANGED <<dbVars, ctrVars, left, lapse>>

Starting(u) ==
  unit' = [u EXCEPT !.state = "starting", !.job = FALSE] /\ ctl' = At("start_config")

\* systemd starts the service: at boot, or again after it has stopped.
UnitStart ==
  /\ unit.state = "inactive" /\ Starting(unit)
  /\ UNCHANGED <<cfgVars, dbVars, main, ctrVars, daemon, left, lapse>>

StartConfig ==
  /\ ctl.at = "start_config"
  /\ CtlReads([at |-> "start_state", kube |-> set_owner # "local"])

StartState ==
  /\ ctl.at = "start_state"
  /\ CtlReads([at |-> "start_server", kube |-> ctl.kube,
               none |-> row.remote_state = "none"])

\* What to start: kubernetes, with the local image where it falls back to it.
StartServer ==
  /\ ctl.at = "start_server"
  /\ CtlReads([at |-> "start_write",
               local |-> ~ctl.kube \/ (Fallback /\ (ctl.none \/ ~connected))])

\* The script has ended, with success whatever docker said: the service is
\* active and `container wait' runs.
Started ==
  /\ ctl' = At("none") /\ main' = At("read")
  /\ unit' = [unit EXCEPT !.state = "active"]
  /\ UNCHANGED <<cfgVars, pod, daemon, lapse>>

\* Mutant: a start of the local image leaves remote_state as it is.
StartWrite_KeepState ==
  /\ ctl.at = "start_write"
  /\ IF ctl.local
     THEN /\ SetRow([row EXCEPT !.system_state = "up", !.current_owner = "local",
                                !.container_id = Feature])
          /\ Ctl(At("start_docker")) /\ UNCHANGED <<pod, lapse>>
     ELSE SetRow([row EXCEPT !.system_state = "up"]) /\ Started
  /\ UNCHANGED <<loc, left>>

StartWrite ==
  /\ ctl.at = "start_write"
  /\ IF ctl.local
     THEN /\ SetRow([row EXCEPT !.system_state = "up", !.remote_state = "none",
                                !.current_owner = "local", !.container_id = Feature])
          /\ Ctl(At("start_docker")) /\ UNCHANGED <<pod, lapse>>
     ELSE SetRow([row EXCEPT !.system_state = "up"]) /\ Started
  /\ UNCHANGED <<loc, left>>

\* docker start, which may fail; the failure is logged and no more.
StartDocker ==
  /\ ctl.at = "start_docker"
  /\ \/ loc' = (IF loc = "exited" THEN "start" ELSE loc) /\ UNCHANGED left
     \/ loc = "exited" /\ Spend /\ UNCHANGED loc
  /\ Started /\ UNCHANGED dbVars

(* ---- The service: container_wait ---- *)

Main(m) ==
  /\ main' = m
  /\ UNCHANGED <<cfgVars, unit, ctl, ctrVars, daemon, left, lapse>>

\* The first look at the row; the version of a local container is noted there.
WaitRead ==
  /\ main.at = "read"
  /\ Main(IF ContainerId = NoId THEN At("poll")
          ELSE [at |-> "docker", id |-> ContainerId])
  /\ note' = IF ContainerId = Feature THEN note \cup {"state"} ELSE note
  /\ UNCHANGED <<row, blocked>>

\* Where an iteration goes on after its read, and the write of "ready".
Onward(id, last) ==
  IF id # NoId THEN [at |-> "docker", id |-> id] ELSE At(IF last THEN "late" ELSE "poll")

\* An iteration of the loop, after its sleep, up to the write of "ready".  With
\* fallback, one of them is the last.
WaitPoll(last) ==
  /\ main.at = "poll" /\ (last => Fallback)
  /\ Main(IF row.remote_state = "pending"
          THEN [at |-> "grant", id |-> ReadId, last |-> last]
          ELSE Onward(ReadId, last))
  /\ UNCHANGED dbVars

\* The container of kubernetes that announced itself may run.
WaitGrant ==
  /\ main.at = "grant"
  /\ SetRow([row EXCEPT !.remote_state = "ready"])
  /\ Main(Onward(main.id, main.last))

\* The time-out: no container came, the next start falls back to local.
WaitGiveUp ==
  /\ main.at = "late"
  /\ SetRow([row EXCEPT !.remote_state = "none"])
  /\ Main(At("exit"))

\* docker wait returns.
WaitEnds ==
  /\ main.at = "docker" /\ ~Running(main.id)
  /\ Main(At("exit")) /\ UNCHANGED dbVars

(* ---- The service: container_stop ---- *)

Stopping(job) ==
  /\ unit' = [unit EXCEPT !.state = "stopping", !.job = job]
  /\ ctl' = At("stop_check")

\* The main process has ended: systemd runs ExecStop.
UnitExit ==
  /\ unit.state = "active" /\ main.at = "exit" /\ Stopping(FALSE)
  /\ UNCHANGED <<cfgVars, dbVars, main, ctrVars, daemon, left, lapse>>

\* systemctl restart.  A service that is being started is started anew.
Restart ==
  \/ unit.state = "active" /\ Stopping(TRUE)
  \/ unit.state = "stopping" /\ unit' = [unit EXCEPT !.job = TRUE] /\ UNCHANGED ctl
  \/ unit.state \in {"inactive", "starting"} /\ Starting(unit)

\* The service is restarted by hand.
Admin ==
  /\ Spend /\ Restart
  /\ UNCHANGED <<cfgVars, dbVars, main, ctrVars, daemon, lapse>>

\* The script has ended: the main process is killed, a queued restart is begun.
Stopped ==
  /\ main' = At("none")
  /\ IF unit.job THEN Starting(unit)
     ELSE unit' = [unit EXCEPT !.state = "inactive"] /\ ctl' = At("none")
  /\ UNCHANGED <<cfgVars, ctrVars, daemon, left, lapse>>

\* The script asks docker for a running container of that name.
StopCheck ==
  /\ ctl.at = "stop_check"
  /\ IF \E id \in Pod \cup {Feature} : Running(id)
     THEN CtlReads(At("stop_state"))
     ELSE Stopped /\ UNCHANGED dbVars

StopState ==
  /\ ctl.at = "stop_state"
  /\ CtlReads([at |-> "stop_id", running |-> row.remote_state = "running"])

StopId ==
  /\ ctl.at = "stop_id"
  /\ CtlReads([at |-> "stop_docker", running |-> ctl.running, id |-> ContainerId])

\* Mutant: only a container of kubernetes is stopped.
StopDocker_KubeOnly ==
  /\ ctl.at = "stop_docker"
  /\ pod' = [p \in Pod |-> IF p = ctl.id /\ Running(p) THEN At("gone") ELSE pod[p]]
  /\ Ctl([at |-> "stop_write", running |-> ctl.running])
  /\ UNCHANGED <<dbVars, loc, left, lapse>>

\* docker stop, which may fail; the failure is logged and no more.
StopDocker ==
  /\ ctl.at = "stop_docker"
  /\ \/ Halt(ctl.id) /\ UNCHANGED <<left, lapse>>
     \/ /\ Running(ctl.id) /\ Spend /\ lapse' = lapse \cup {"stop"}
        /\ UNCHANGED ctrVars
  /\ Ctl([at |-> "stop_write", running |-> ctl.running]) /\ UNCHANGED dbVars

\* The feature is down, and so is a container of kubernetes that ran.
StopWrite ==
  /\ ctl.at = "stop_write"
  /\ SetRow([row EXCEPT !.current_owner = "none", !.container_id = NoId,
                        !.system_state = "down",
                        !.remote_state = IF ctl.running THEN "stopped" ELSE @])
  /\ Stopped

(* ---- The start-up script in the containers: container_up ---- *)

Local(s) == loc' = s /\ UNCHANGED <<cfgVars, svcVars, pod, daemon, lapse>>

\* In the local container: it records its version as not to run, and itself,
\* unless the row was never written; that does not change between the two.
LocalDrop ==
  /\ loc = "start"
  /\ IF row.system_state = "" THEN Local("app") /\ UNCHANGED blocked
     ELSE Local("record") /\ blocked' = LocalVersion
  /\ UNCHANGED <<row, note, left>>

LocalRecord ==
  /\ loc = "record"
  /\ SetRow([row EXCEPT !.current_owner = "local", !.container_id = Feature,
                        !.version = LocalVersion])
  /\ Local("app") /\ UNCHANGED left

LocalCrash ==
  /\ loc # "exited" /\ Spend
  /\ Local("exited") /\ UNCHANGED dbVars

PodTo(p, s) ==
  /\ pod' = [pod EXCEPT ![p] = s]
  /\ UNCHANGED <<cfgVars, svcVars, loc, daemon>>

PodReads(p, s) == PodTo(p, s) /\ UNCHANGED <<dbVars, left, lapse>>

PodConfig(p) ==
  /\ pod[p].at = "start"
  /\ PodReads(p, [at |-> "state", local |-> set_owner = "local"])

\* The checks that may keep it from running for ever.
PodState(p) ==
  /\ pod[p].at = "state"
  /\ PodReads(p, IF row.system_state = "" THEN At("app")
                 ELSE IF pod[p].local \/ row.system_state # "up" THEN At("frozen")
                 ELSE [at |-> "labels", mode |-> row.remote_state])

PodLabels(p) ==
  /\ pod[p].at = "labels"
  /\ PodReads(p, IF blocked = VersionOf[p] THEN At("frozen")
                 ELSE [pod[p] EXCEPT !.at = "version"])

\* Mutant: the container records its id when it announces itself.
PodVersion_Id(p) ==
  /\ pod[p].at = "version"
  /\ SetRow([row EXCEPT !.version = VersionOf[p], !.container_id = p])
  /\ PodTo(p, At(IF pod[p].mode \in {"none", "running", "stopped"} THEN "announce"
                  ELSE IF pod[p].mode = "ready" THEN "granted" ELSE "wait"))
  /\ UNCHANGED <<left, lapse>>

\* The version, and "pending" unless that, or "ready", is what it has read.
PodVersion(p) ==
  /\ pod[p].at = "version"
  /\ SetRow([row EXCEPT !.version = VersionOf[p]])
  /\ PodTo(p, At(IF pod[p].mode \in {"none", "running", "stopped"} THEN "announce"
                  ELSE IF pod[p].mode = "ready" THEN "granted" ELSE "wait"))
  /\ UNCHANGED <<left, lapse>>

PodAnnounce(p) ==
  /\ pod[p].at = "announce"
  /\ SetRow([row EXCEPT !.remote_state = "pending"])
  /\ PodTo(p, At("wait")) /\ UNCHANGED <<left, lapse>>

\* It waits for "ready", and freezes if another version was recorded meanwhile.
PodPoll(p) ==
  /\ pod[p].at = "wait"
  /\ \/ row.version # VersionOf[p] /\ PodReads(p, At("frozen"))
     \/ /\ row.version = VersionOf[p] /\ row.remote_state = "ready"
        /\ PodReads(p, At("granted"))

\* update_state: it records itself and runs.  It does not look again whether the
\* row is still as it was.
PodTake(p) ==
  /\ pod[p].at = "granted"
  /\ SetRow([row EXCEPT !.current_owner = "kube", !.container_id = p,
                        !.version = VersionOf[p], !.remote_state = "running"])
  /\ lapse' = IF row.remote_state = "ready" THEN lapse ELSE lapse \cup {"take"}
  /\ PodTo(p, At("app")) /\ UNCHANGED left

(* ---- kubernetes ---- *)

\* A container is started, also beside another one.
KubeStart(p) ==
  /\ pod[p].at = "new" /\ Spend
  /\ PodTo(p, At("start")) /\ UNCHANGED <<dbVars, lapse>>

\* It ends: an upgrade, the label is gone, it has crashed.
KubeStop(p) == pod[p].at \in Up /\ PodReads(p, At("gone"))

(* ---- ctrmgrd: FeatureTransitionHandler ---- *)

Daemon(d) == daemon' = d /\ UNCHANGED <<cfgVars, row, blocked, main, ctrVars, lapse>>

\* The daemon starts and reads every table.
DaemonUp ==
  /\ daemon.at = "down" /\ Daemon([daemon EXCEPT !.at = "idle"])
  /\ note' = {"config"} \cup (IF row.system_state = "" THEN {} ELSE {"state"})
  /\ UNCHANGED <<unit, ctl, left>>

\* It ends, and what it has kept is lost.
DaemonCrash ==
  /\ daemon.at # "down" /\ Spend /\ Daemon(Down) /\ UNCHANGED <<note, unit, ctl>>

\* A table has a notification; its handler sees the table as it is now.
Pop(t) == daemon.at = "idle" /\ t \in note /\ note' = note \ {t}

\* Nothing is done before the row of STATE_DB is known.
OnConfigUpdate ==
  /\ Pop("config")
  /\ Daemon([daemon EXCEPT
       !.set = set_owner,
       !.at = IF daemon.set = set_owner \/ daemon.owner = Unset THEN "idle" ELSE "check"])
  /\ UNCHANGED <<unit, ctl, left>>

\* What is acted on: the loss of kubernetes after it was stopped, the first
\* sight of the row, and a container that is pending or stopped.
OnStateUpdate ==
  /\ Pop("state")
  /\ LET old == daemon.remote
         new == row.remote_state
         back == row.current_owner # "local" /\ new = "none" /\ old = "stopped"
         act == /\ old = Unset \/ (old # new /\ new \in {"pending", "stopped"})
                /\ daemon.set # Unset
     IN  Daemon([daemon EXCEPT
           !.owner = row.current_owner, !.remote = new,
           !.at = IF back THEN "restart" ELSE IF act THEN "check" ELSE "idle"])
  /\ UNCHANGED <<unit, ctl, left>>

\* handle_update, from what the handlers have kept: a restart when the other
\* owner has the feature, or the service has stopped for an upgrade.
HandleUpdate ==
  /\ daemon.at = "check"
  /\ LET restart ==
           IF unit.state # "active"
           THEN daemon.set = "kube" /\ daemon.owner = "none" /\ daemon.remote = "stopped"
           ELSE IF daemon.set = "local" THEN daemon.owner \notin {"local", "none"}
           ELSE daemon.owner # "none" /\ daemon.remote = "pending"
     IN  Daemon([daemon EXCEPT !.at = IF restart THEN "restart" ELSE "idle"])
  /\ UNCHANGED <<note, unit, ctl, left>>

\* restart_systemd_service: the thread waits until systemd is done.
RestartService ==
  /\ daemon.at = "restart" /\ Restart
  /\ Daemon([daemon EXCEPT !.at = "restarting"]) /\ UNCHANGED <<note, left>>

RestartDone ==
  /\ daemon.at = "restarting" /\ unit.state \in {"active", "inactive"}
  /\ Daemon([daemon EXCEPT !.at = "idle"]) /\ UNCHANGED <<note, unit, ctl, left>>

(* ---- The operator and RemoteServerHandler ---- *)

SetOwner ==
  /\ Spend /\ set_owner' = (IF set_owner = "local" THEN "kube" ELSE "local")
  /\ note' = note \cup {"config"}
  /\ UNCHANGED <<connected, row, blocked, svcVars, ctrVars, daemon, lapse>>

\* The server is joined, or left.
Connection ==
  /\ Spend /\ connected' = ~connected
  /\ UNCHANGED <<set_owner, dbVars, svcVars, ctrVars, daemon, lapse>>

(* ---- The specification ---- *)

Control == \/ UnitStart \/ StartConfig \/ StartState \/ StartServer
           \/ StartWrite \/ StartDocker
           \/ UnitExit \/ StopCheck \/ StopState \/ StopId \/ StopDocker \/ StopWrite
Wait == \/ WaitRead \/ (\E last \in BOOLEAN : WaitPoll(last)) \/ WaitGrant
        \/ WaitGiveUp \/ WaitEnds
LocalUp == LocalDrop \/ LocalRecord
PodUp(p) == \/ PodConfig(p) \/ PodState(p) \/ PodLabels(p) \/ PodVersion(p)
            \/ PodAnnounce(p) \/ PodPoll(p) \/ PodTake(p)
Ctrmgrd == \/ DaemonUp \/ OnConfigUpdate \/ OnStateUpdate \/ HandleUpdate
           \/ RestartService \/ RestartDone
Environment == \/ LocalCrash \/ DaemonCrash \/ Admin \/ SetOwner \/ Connection
               \/ \E p \in Pod : KubeStart(p) \/ KubeStop(p)

Next == \/ Control \/ Wait \/ LocalUp \/ (\E p \in Pod : PodUp(p))
        \/ Ctrmgrd \/ Environment

Spec == Init /\ [][Next]_vars
===============================================================================

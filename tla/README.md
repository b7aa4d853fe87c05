# TLA+ models of SONiC daemons

`sonic-buildimage` assembles a switch operating system. Most of the tree is
packaging, device data and vendor drivers; the daemons under `src/src/` are where
state is kept, messages are exchanged and things happen at the same time. This
directory holds TLA+ models of them, the TLC runs that check the models on small
instances, and TLAPS proofs of what holds on every instance.

`PROJECT.json` lists the components (modelled or not, and why), the runs, one mutant
of the code for each property a run checks, the source lines of every definition, the
hazards of the code at the line where each bites, the findings and the theorems.

## Parts and modules

| Part of the system | Module | Properties | TLC | Proofs |
|---|---|---|---|---|
| iccpd, connection layer: TCP session, ICCP handshake, application state machine of both peers | `IccpCsm` | `IccpCsmProps` | `MCIccpCsm` | `IccpProofs` |
| iccpd, the session mLACP runs on (abstract) | `PeerSession` | | | |
| iccpd, mLACP: synchronisation, aggregator state, isolation, traffic blocking | `Mlacp` | `MlacpProps` | `MCMlacp` | `MlacpProofs` |
| iccpd, MAC synchronisation | `MacSync` | `MacSyncProps` | `MCMacSync` | `MacSyncProofs` |
| eventd, event cache and request loop | `EventdCapture` | `EventdCaptureProps` | `MCEventdCapture` | `EventdCaptureProofs` |
| eventd, counters and heartbeats | `EventdStats` | `EventdStatsProps` | `MCEventdStats` | `EventdStatsProofs` |
| eventd, event history and alarms (EVENT_DB) | `EventDb` | `EventDbProps` | `MCEventDb` | `EventDbProofs` |
| rebootbackend | `RebootBackend` | `RebootBackendProps` | `MCRebootBackend` | `RebootBackendProofs` |
| ctrmgrd and the feature scripts | `CtrFeature` | `CtrFeatureProps` | `MCCtrFeature` | `CtrFeatureProofs` |

The parts of iccpd are composed by abstraction: `IccpCsm` implements `PeerSession`
(`ImplementsSession`, a refinement mapping from application states and sockets, checked
and proved), and `Mlacp` instantiates `PeerSession` as its session. `MacSync` uses the
same session, reduced to what the MAC table sees of it. The product of the detailed
models is not needed, and would be out of reach.

Operators called `X_Something` next to an operator `X` are plausible wrong versions of
`X`; `PROJECT.json` says which property each of them violates. Nothing else uses them.

### IccpCsm and PeerSession

iccpd (`src/src/iccpd`) is the MCLAG daemon: two switches, each with one iccpd, present
a port-channel to a host as if they were one switch. Within a daemon everything runs in
one thread: an epoll batch (`iccp_handle_events`) followed by one pass over the state
machines (`scheduler_transit_fsm`), for ever.

`PeerSession`: `up` is the set of peers whose application state machine is operational,
`inst` the set of peers that hold the connection of the current session. A peer opens a
session (the other may be on the connection still, or may have left it with its last
messages under way), the other joins, each leaves. No peer is up in a new session while
the other is up in the old one.

`IccpCsm` has both daemons, the TCP connections between them and the listening socket.

| Model | Code |
|---|---|
| `state`, `info`, `sock`, `msg_list` | `struct CSM`: `current_state`, `iccp_info`, `sock_fd`, `msg_list` |
| `app`, `mlacp_list`, `mlacp` | `app_csm.current_state`, `mlacp_msg_list`, whether mLACP has left `INIT` |
| `polled` | the position in the loop: the peer socket has been serviced in this batch |
| `config` | `scheduler_check_csm_config` succeeds |
| `wire`, `open`, `backlog` | TCP (external): bytes under way, ends not closed, connections not accepted |
| `Accept` | `scheduler_server_accept`, with `RejectClient` |
| `ReadMsg`, `ReadError` | `scheduler_csm_read_callback` |
| `ConfigChange`, `ConfigComplete` | `set_peer_link`, `set_local_address`, ... and their inverses; interface creation and deletion |
| `HeartbeatTimeout` | `heartbeat_check` |
| `TransitIdle`, `TransitConnect`, `TransitAccepted`, `TransitSession` | `iccp_csm_transit` by case, followed by `app_csm_transit` and `mlacp_fsm_transit` in the same step |
| `Restart` | the process dies and is started again |

`SessionDisconnect` is `scheduler_session_disconnect_handler` as a whole: close the
socket, reset both state machines, drop the queues. TCP delivers in order and loses
what is under way when an end closes; a reset may overtake data.

### Mlacp

One port-channel that exists on both peers, whether or not it is a member of the
domain, and a configured peer link.

| Model | Code |
|---|---|
| `node[n]` | `MLACP(csm)` fields, the `LocalInterface` and the `PeerInterface` (`pif`) of the port-channel |
| `node[n].isolated` | what the last isolation group sent to mclagsyncd says of the port-channel |
| `chan[n]` | messages sent to n and not yet handled: socket and `mlacp_msg_list` |
| `Up`, `Leave`, `LeaveAfterPeer` | the session (`PeerSession`), with `scheduler_session_disconnect_handler` |
| `Transit` | one iteration of the loop: `mlacp_fsm_transit` with the message read before it |
| `LinkChange`, `VlanChange` | netlink and mclagsyncd events |
| `Bind`, `Unbind` | `iccp_cli_attach_...`, `iccp_cli_detach_mclag_domain_to_port_channel` |

Handlers are operators from a node state to a node state, composed the way the C
functions call each other; the messages they write collect in `out` and are put on
the channel when the handler ends (`Commit`). At most one message is read from the
socket before each pass, so reading and handling it are one step. A pass makes one
turn for the message and one that finds the queue empty (`FsmTransit`);
`mlacp_peer_conn_handler` runs in the first turn that finds the exchange state. While a
session is down `csm->peer_link_if` may be NULL (`iccp_csm_status_reset`), so `Unbind`
allows both.

### MacSync

One dynamic MAC address of one VLAN on both peers, each with a port-channel of the
domain (`po`), an orphan port that has the same name on both (`eth`) and maybe a peer
link.

| Model | Code |
|---|---|
| `node[n].mac` | the `MACMsg` in `mac_rb`: port, original port, age flags, pending, `add_to_syncd` |
| `node[n].row` | the row of `MCLAG_FDB_TABLE`: the last thing mclagsyncd was told |
| `node[n].list` | `mac_msg_list`, in which an entry may be queued that changes before it is sent |
| `node[n].silent` | not in the code: a pending address was dropped without a word to the peer (`DropPending`), and nothing has been said since |
| `PeerAddKnown`, `PeerAddNew`, `PeerDel` | `mlacp_fsm_update_mac_entry_from_peer` |
| `LearnKnown`, `LearnNew`, `Forget` | `do_mac_update_from_syncd` |
| `PoChange`, `EthChange`, `PeerLinkChange` | `update_l2_mac_state`, `mlacp_peerlink_up_handler`, `mlacp_peerlink_down_handler` |
| `Connect`, `EnterExchange`, `Disconnect` | the session: `mlacp_peer_conn_handler`, `mlacp_peer_disconn_fdb_handler` |
| `PendingTimer` | the sweep of pending entries after 600 s |

A message is handled, and what the handler queued is sent, in one step: a pass of
`mlacp_fsm_transit`. Learn events may be late, so an address may be reported on a port
that has gone down since, and a DEL may name any port. The timer fires only when no
message is under way, because 600 s are longer than any delay of the session.

### EventdCapture

eventd (`src/src/sonic-eventd/src/eventd.cpp`): the main thread answers the requests of
one telemetry client, the capture thread fills the cache, publishers send.

| Model | Code |
|---|---|
| `pc`, `after`, `svc`, `resp` | where `run_eventd_service` is (also inside `set_control` and `stop_capture`), its locals, the last response |
| `cap`, `thr` | the `capture_service` object; the thread in `do_capture` and its locals |
| `sock`, `cli`, `pub` | what ZMQ holds for the capture socket; the client (external) and its own subscription; the publishers |
| `CacheInit`, `CacheStart`, `CacheStop`, `CacheRead`, `Echo`, `Exit` | the cases of the request loop |
| `PollDone`, `PollGiveUp`, `DrainEnds`, `Joined...` | where the main thread blocks, and how it goes on |
| `ThreadUp`, `ThreadGo`, `ThreadCheck`, `ThreadStop`, `ThreadRead`, ... | `do_capture`, by control state; `StoreInit`, `StoreActive`, `StoreLast` are the three states of the cache |

Assumed of what is not in the repository: the drain of a stop, and the 200 ms sleep at
boot, are longer than the thread's poll of 10 ms (`SlowThread` drops that); the client
hands over at least what its subscription held when INIT was answered; the connection
of the capture socket is effective when `m_cap_run` is set.

### EventdStats

`stats_collector`: `cnt` and `updated` are shared by the thread that adds to a counter
(`Add`, then `Flag`: two steps) and the writer (`WriterCheck`, `WriterSet`,
`WriterShut`, `WriterWake`: `run_writer`). The collector receives events, its own
heartbeats and nothing (`ReceiveEvent`, `ReceiveHeartbeat`, `ReceiveNothing`:
`run_collector`); requests change the interval and pause (`SetOption`,
`HeartbeatCtrl`). `IntervalCounts` is the conversion from seconds to receive time-outs,
in the arithmetic of an `int` of `IntRange` values: where the product overflows, which
C++ leaves undefined, both the signed and the unsigned division are possible outcomes.
The run has an `int` of 13 bits, so that a small interval overflows.

### EventDb

`EventConsume` (`eventconsume.cpp`): one loop, a notification is handled to its end
before the next. The process may end after any write to the database, so each write is a
step, and `job` says which one is next.

| Model | Code |
|---|---|
| `history`, `alarms`, `est`, `ast` | the tables EVENT, ALARM, EVENT_STATS, ALARM_STATS: they survive a restart |
| `lookup`, `heap`, `seq`, `flood` | `cal_lookup_map`, `event_history_list`, `seq_id`, `flood_ev_*`: they do not |
| `Plain`, `Raise`, `Clear`, `ClearUnknown`, `Acknowledge`, `Unacknowledge`, `Discard` | `handle_notification` by action and early return, up to its first write, with `isFloodedEvent` and `staticInfoExists` |
| `CountAlarm`, `AckAlarm`, `AckEvent` | `updateAlarmStatistics` or `clearAckAlarmStatistic`; the two writes of `updateAckInfo` |
| `PurgeStats`, `PurgeDelete`, `Store`, `CountEvent` | `update_events` with `purge_events`, one entry at a time, and `updateEventStatistics` |
| `Reload`, `Loaded` | `read_eventd_config` between two notifications, with its purge |
| `Restart` | the process ends at any point; the constructor with `read_events` and `read_eventd_config` |
| `slips`, `torn` | not in the code: how often something has taken the counters off the tables |

A profile may give a type another severity, disable it or not have it, before or after a
reload. The clock may be set and the difference of times is unsigned, so the purge by age
may take any number of entries from the top. A max-records of zero is left out
(`RecordsAssumption`): `purge_events` then takes the top of an empty queue.

### RebootBackend

The main thread (`RebootBE::Start`) selects on the notification channel and three
events; the reboot thread asks the host service over D-Bus and waits to be killed by
the reboot. `RebootStart`, `RebootRefused`, `RebootLaunchFails`, `Mark`,
`StatusRequest`, `OtherRequest`, `Finish`, `Joined`, `Done`, `Stopped` are the steps of
the first, `Thread...`, `Dbus...`, `Wait...` those of the second. Starting is two steps
(`RebootStart`, `Mark`), so that the thread may end before the loop has recorded that it
runs. `main = "aborted"` is `std::terminate`.

### CtrFeature

One feature that may run from the local image or be deployed by Kubernetes. The
processes that share its row of the FEATURE table in STATE_DB: the scripts of its
service (`container start`, `wait`, `stop`, run by systemd through
`docker_image_ctl.j2`), `container_up` in the local container and in each container of
Kubernetes, and `FeatureTransitionHandler` of ctrmgrd, which restarts the service. There
is no lock. A step is one access to a database, or one command to docker or systemd,
and what the process computes from its result; any two processes interleave between any
two steps.

| Model | Code |
|---|---|
| `row`, `blocked`, `set_owner`, `connected`, `note` | the row of STATE_DB, the label `<f>_local`, CONFIG_DB, the state of the server, tables with a notification for ctrmgrd |
| `unit`, `ctl`, `main` | the service; the script of ExecStartPre or ExecStop; ExecStart |
| `loc`, `pod`, `daemon` | the local container and those of Kubernetes, each with its `container_up`; ctrmgrd and what its handlers have kept |
| `lapse` | not in the code: a docker stop has failed; a withdrawn grant was taken |
| `StartConfig`, `StartState`, `StartServer`, `StartWrite`, `StartDocker` | `container_start`: three reads, the write, docker |
| `WaitRead`, `WaitPoll`, `WaitGrant`, `WaitGiveUp`, `WaitEnds` | `container_wait`: the first look, the loop, "ready", the time-out, docker wait |
| `StopCheck`, `StopState`, `StopId`, `StopDocker`, `StopWrite` | `stop` of the template (docker ps), then `container_stop` |
| `LocalDrop`, `LocalRecord`, `PodConfig`, ..., `PodTake` | `container_up` in the local container and in one of Kubernetes |
| `OnConfigUpdate`, `OnStateUpdate`, `HandleUpdate`, `RestartService` | `FeatureTransitionHandler`; `systemctl restart` |

Docker start and docker stop may fail, which the scripts log and nothing more. Containers
of Kubernetes may come beside one another and go at any time; that covers whatever
Kubernetes makes of the label `<f>_enabled`, which is therefore left out with
`LabelsPendingHandler`, and `container kill`. The restart policy of the unit is
`always`; notifications coalesce.

## Runs

| Run | Instance | States | Checks |
|---|---|---|---|
| `iccp_csm` | 3 connections, 6 faults, `MaxWire` 3, fairness | 26,635 | `SocketBacksState`, `NoMessageDropped`, `HandshakeAgreement`, `ImplementsSession`, `EventuallyUp` |
| `iccp_csm_mismatch` | 3 connections, different domain ids, 4 faults | 6,025 | `MismatchNeverOperational` |
| `mlacp` | 3 link changes, 1 VLAN change, 2 dropped sessions, fairness | 300,713 | `NothingDropped`, `StagesInStep`, `PeerViewConverges`, `IsolationConverges`, `CleanWithoutSession`, `SyncCompletes`, `TrafficRestored` |
| `mlacp_unbind` | 2 link changes, 2 removals, 1 dropped session | 2,815,586 | `DownPortIsBlocked`, `UnboundNotIsolated` |
| `mlacp_error` | 1 removal | | `NoError`, violated: see Findings |
| `mac_sync` | three budgets of learning, ageing, port, peer-link and session events | 1,331,287 | `Forwarding`, `RemoteIsHeld` |
| `eventd_capture` | 2 publishers of 3 events, a cache of 2, errors and failing allocations | 1,096,466 | `CacheContiguous`, `LatestKept`, `UntouchedWhileCapturing`, `Answered` |
| `eventd_capture_hang` | requests in any order | | `Answered`, violated: see Findings |
| `eventd_stats` | 2 counters up to 2, four intervals, one of which overflows | 507,120 | `NoLostUpdate`, `WrittenBeforeExit`, `CountersReachDb`, `HeartbeatGoesOn` |
| `eventdb` | 1 event type with every profile of 2 severities, 3 sequence ids, max-records 1 and 2, 1 restart after any write | 3,476,616 | `AlarmStatsMatch`, `EventStatsMatch`, `HistoryBound`, `LookupSound`, `IdsPast` |
| `reboot` | 3 reboots, two delays | 5,662 | `NeverAborted`, `FailureReported`, `IdleMeansInactive`, `NoWarmAfterFailure`, `RebootEnds`, `StopEnds` |
| `ctr_feature` | 2 containers of Kubernetes of different versions, 3 events of any kind, every interleaving | 6,097,843 | `LocalRecorded`, `GrantMeansLocalDown`, `RecordedRan` |

Every property is stated in words, with the code it is about, where it is defined.
Deadlock is checked except in `mac_sync` and `ctr_feature`, whose environment may have
used its budget with nothing left to do, and `eventd_capture_hang`.

**Bounds.** Three connections are enough for an old one that one side still holds, a
new one in the backlog, and one that is tried after a rejection; six faults are more
than the two that lead to a half-open connection and its repair on both sides. Only
messages that are sent again in every pass (NAKs, application data) are limited by
`MaxWire`. In `Mlacp` three link changes give a down-up-down on one side, or changes of
both sides that cross; two dropped sessions leave each peer alone once, in every stage.
Removals from the domain are off in `mlacp`: with them `NoError` fails (below), and
after that nothing about convergence can be said. The budgets of `mac_sync` are a
flapping port-channel with a lost session, moves between ports with a lost session, and
a port-channel that fails together with the peer link; the invariant of the proof was
checked before it was proved on three larger budgets (up to 4 learns and 4
port-channel events, up to 10.3 million states). A cache of two events overflows with
three, so all three states of the cache are met with events of both publishers. Three
sequence ids let an alarm be raised twice and cleared, a record be purged by number and
by age, and the ids start over after a restart. Three reboots are a failure, what
follows it, and one more. The events of `ctr_feature` are deployments, crashes, restarts by
hand, failing docker commands, changes of owner and of the connection, in one behaviour
and in any mix: three are enough for both containers of Kubernetes to meet at a restart
of the service, and for a stop that fails followed by a deployment. Time-outs and
restarts by ctrmgrd do not count.

**How the properties were chosen.** For the two newest models the properties are what
is left of a longer list of candidates, and that is to be kept in mind when
reading the table. For MAC synchronisation thirteen invariants were tried; seven were
violated (a row without an entry, an entry the peer never hears of, an entry left at the
peer, two rows that point at each other, a remote entry that is not programmed, a
remote entry of a port-channel that is down and not redirected, a row for a port that is
down without a session), and the ones kept are combined from those that held. One of
these, that the two peers never both keep an address for the other alone, held on the
budgets of the run and was violated on larger ones, by pending addresses that both
sides dropped without a DEL. `RemoteIsHeld` took its place: it says more, of each side
by itself, names that exception, and without it fails on the budgets of the run. For ctrmgrd the
obvious statements do not hold: that the application runs in one container only, that
the service waits on the container the row names, and that an owner set to local is served.
TLC refutes the first two without any failure (see Findings). What the run checks is the
part of the hand-over that the scripts do keep.

Some properties were first stated without an exception, were violated, and now name
the case they leave out: `LatestKept` (an allocation that failed), `IdleMeansInactive` (a
thread that could not be launched), `RemoteIsHeld` (a pending address dropped in
silence), `LocalRecorded` and `GrantMeansLocalDown` (a docker stop that failed, a grant
taken after it was withdrawn: 1,704,664 of the states of the run are before either).
`AlarmStatsMatch` and `EventStatsMatch` count such cases and bound what each may do. What
happens in those cases is under Findings.

**Fairness.** `IccpCsm`: the loop of each daemon goes on, the listening socket and the
peer socket are serviced (`epoll_wait` reports what is ready), a closed connection is
reported, and the operator completes the configuration. `Mlacp`: a pass that has
something to do is made, a closed connection is noticed, and the session comes up
again, which is `EventuallyUp` of the connection layer; `Pending` spells out when a pass
has something to do, so that TLC does not have to evaluate ENABLED. eventd: the kernel
schedules its threads; clients, publishers and requests need not come. `RebootBackend`:
the same, and strong fairness for `Finish` and `Done`: `Select` serves requests first,
so the events are seen whenever no request waits, which is again and again because a
client waits for the answer to one request before it sends the next. `CtrFeature` states no
liveness. No fairness is assumed for faults, link events,
operators or errors.

## Proofs

TLAPS checks every proof from the assumptions on the constants only, named in the module
that declares them (the two peers differ, bounds are natural numbers, `None` is not a
connection, ...). Each theorem holds for every value of the constants: any number of
connections, events, restarts, faults, and queues of any length.

A leaf is proved by Zenon unless it names a prover (`USE Zenon` at the head of the large
proof modules): SMT where arithmetic or sequences are needed, PTL for the temporal steps.
The order matters for the time the proofs take, for translating an obligation for the SMT
solver costs tlapm more than solving it does. So does the number of facts in scope: the
proof modules extend no more of the library than they cite. From nothing, the proofs take
about half an hour on two cores, more than half of it `MlacpProofs`.

Some theorems have a hypothesis besides the assumptions, and state it. Of `Mlacp`, that
the stages keep in step and that the peers' views converge is proved for `MaxUnbinds = 0`,
when no port-channel is removed from the domain: with one removal `NoError` fails
(Findings), and after that the stages mean nothing. That the cache of eventd has no hole
and no repetition is proved for `~AnyOrder`, a client that keeps to the protocol. These are
the instances the runs check, too, and without them TLC finds each of the properties
violated.

**Connection layer** (`IccpProofs`).

* `TypeCorrect` (and the same in `MlacpProofs`; the lemma `TypeAlways` in `EventDbProofs`):
  `Spec => []TypeOK`.
* `MismatchSafe`: peers with different domain ids never become
  operational. The property is not inductive; `MismatchInv` adds that everything queued
  for or on its way to a peer carries the other's id, and that a peer that has seen a
  connect message has the status code set, so that `CAPREC` and `CONNECTING` lead
  nowhere.
* `SessionRefinement`, `NoMessageDroppedAlways`: the connection layer
  implements `PeerSession`, and no handshake message meets a state machine in
  `NONEXISTENT`. The invariant is `SessionInv`. Besides types and what a reset leaves
  (`Idle`, `Backed`, `Ends`) it says of every connection at once that the backlog is
  in the order in which the active peer connected, so that its current connection is
  the last one there (`Queue`), and that once the standby peer has said anything on that
  connection the backlog is empty and the standby peer is on no other one
  (`OneConnection`). So the two sides are never up on different connections; the rest is
  that each action maps to `Open`, `Join`, `Leave` or no step.
* `HandshakeAgreementAlways`: by `HandshakeInv`, which adds that with
  equal domain ids the status code stays OK (`Healthy`) and that a peer that has not
  sent its connect message is not known as connected to the other (`Unconnected`); with
  different ids the property follows from `MismatchSafe`.
* `SocketBacksStateAlways`: that a state has a socket is part of `SessionInv`. That
  no application message is queued before `OPERATIONAL` is about the order in flight:
  `OrderInv` says that a peer receives a capability message first and application data
  after a connect message (`InOrder`), that the flags tell which of them were
  processed (`Flags`), and that what was sent on a connection has been seen or is
  still under way (`Sent`). With different ids no application data is ever sent
  (`SilentInv`).

**mLACP** (`MlacpProofs`).

* `DownPortBlocked`: in the exchange state a member port-channel that is
  down is blocked, or about to be with its configuration. The invariant `Good` adds that
  `po_active` is the link state (`PoActiveTracks`) and that a port-channel on the
  purge list is not a member. `Good` is broken inside a pass: entering the exchange
  state leaves only its first part, `Weak`, until `mlacp_peer_conn_handler` runs in
  the next turn of the same pass. The lemmas follow that: a stage handler keeps
  `Weak` and reaches the exchange state only with a message, and then the second turn
  restores `Good`. Handlers that leave the relevant fields alone are dealt with by one
  frame relation, `SameCore`.
* `UnboundNotIsolatedAlways`, with any number of removals: `Apart` is inductive together
  with `Good`.
* `NothingDroppedAlways`, with any number of removals. A removal may send a node to
  `MLACP_STATE_ERROR`, and nothing can be said of it after that. `OrderInv` therefore
  speaks of a node only up to the end of its stages: what its queue can hold there
  (`Awaited`), and how far the peer is (`InStep`). An answer is recognised by its end
  alone (`AnswerFirst`), so that the node that sent it may go on and send anything. What a
  pass does to a node and its queue is one relation, `Turned`, of six cases; the proof
  for two nodes is about that relation and not about the handlers. TLC checked
  `OrderInv` first, on the instance of `mlacp_unbind`.
* `StagesInStepAlways`, `NoErrorWithoutRemoval`,
  `CleanWithoutSessionAlways`, `PeerViewConvergesAlways`, `IsolationConvergesAlways`, for
  `MaxUnbinds = 0`: one invariant, `SyncInv`. `Phase` lists what the queue of a node can
  hold in each stage (a request; the rest of an answer, maybe followed by a request;
  updates) and how the two nodes and queues fit together while both are up, and also
  while one of them has not noticed yet that the session has changed. `Views` says that
  what a node knows of the other's port-channel will be right after the messages
  under way (`Known`), or the other has still to report a change (`changed`). When
  nothing is under way that is convergence. `Isolates` relates the isolation to the known state
  of the peer, within one node.

**MAC synchronisation** (`MacSyncProofs`).

* `ForwardingAlways`, `AgeFlagsAlways`: the MAC table of each peer, for
  any number of events. The invariant says of each node that an entry is linked to the
  ports as they are (`Linked`, `OnPo`) and that its age flags fit the session (`Aged`),
  and types the messages under way; every handler is shown to keep it as an
  operator from node states to node states.
* `RemoteIsHeldAlways`: speaks of both peers at the end of an exchange; `FlightInv` says
  what holds on the way. A daemon that does not have the address, while the peer keeps it
  for this daemon or will because an ADD is under way, has a DEL behind every ADD among
  what is under way or queued (`Retracts`), and before the synchronisation data has
  come nothing was said (`Opening`, `Lead`). What a handler has to do for that is a
  relation between node states that composes (`Told`): if the address goes, a DEL is
  queued last, or the daemon is `silent`.

**eventd.**

* `EventdCaptureProofs!LatestKeptAlways`, `UntouchedWhileCapturingAlways`, for requests in
  any order: by `KeepInv`. Socket and subscription have every event from their first one on
  (`Flow`); what `CAP_STATE_INIT` drops is not newer than what the cache has, and the
  newest event of a publisher is in `m_events` or, once that is full, in
  `m_last_events` with only later ones in the socket (`Kept`). It was checked by TLC
  with `AnyOrder` and `SlowThread` (4,989,762 states) before it was proved.
* `EventdCaptureProofs!CacheContiguousAlways`, for `~AnyOrder`: by `IInv`, which adds to
  `KeepInv` what the protocol gives. While a capture is prepared the socket holds
  the end of what the subscription holds, and the client owes the cache at least the
  part before it (`Handover`); between cache and socket nothing is missing, and what the
  socket repeats lies within what `CAP_STATE_INIT` still compares with the stock
  (`Ahead`). The last is why its counter (`initCnt`) is large enough.
* `EventdStatsProofs!NoLostUpdateAlways`, `WrittenBeforeExitAlways`: the flag and the
  counters are set apart, so the invariant records what the writer still owes in each of
  its states (`WriterOwes`).
* `EventdCaptureProofs!UntouchedWhileCapturingAlways` is about steps: `AtWork` collects
  what `KeepInv` says of the main thread while the capture thread is in its loop, and each
  step of the main thread from there leaves the cache as it is.
* `EventDbProofs!HistoryBoundAlways`, `IdsPastAlways`: by `HistInv`, which adds that a
  record that is being stored has an id above all in the heap, and that it is there when
  its counters are next. It has to hold after each write, since a restart may follow.
* `EventDbProofs!EventStatsMatchAlways`: by `EventInv`. The record that is uncounted and
  not deleted yet, or stored and not counted yet, is set apart (`Uncounted`); a restart
  forgets it, which is one more in `torn`. An ACK sets a flag before it is counted
  (`AckDue`), and the purge before its own record may uncount another flag.
* `EventDbProofs!LookupSoundAlways`: by `LookInv`; the lookup map only names ids given
  out, so a raise cannot overwrite the row of an entry.
* `EventDbProofs!AlarmStatsMatchAlways`: by `CountInv`, the counters with what the handler
  is still to tell them (`job.by`), and with an alarm counted as acknowledged from the
  write of the counters on, which precedes that of the row (`AckOf`). A step that breaks
  this is one of the three that `slips` counts.

**rebootbackend and ctrmgrd.**

* `RebootBackendProofs!NeverAbortedAlways`, `FailureReportedAlways`,
  `FinishAnnouncedAlways`, `IdleMeansInactiveAlways`, `NoWarmAfterFailureAlways`: one
  invariant relates the loop, the thread, its status and the events, in particular
  between `RebootStart` and `Mark`.
* `CtrFeatureProofs!LocalRecordedAlways`, `GrantMeansLocalDownAlways`,
  `RecordedRanAlways`: by `Inv`. `Phases` is the order in which systemd runs the scripts.
  `Safe` says, before anything of `lapse` has happened, that a local container that is up
  is known to every script: the row names it and has no grant, `container wait` is not
  in its loop, and `container stop` has read its id (`Known`); a start that is about to
  run docker has written the row. `Ran` follows an id from the row into the script
  that waits on it. Every step is first reduced to what it does to these (`NextStep`).

**Model-checked only.** Every invariant and action property a passing run checks has a
theorem. The liveness properties do not: `EventuallyUp`, `SyncCompletes`,
`TrafficRestored`, `Answered`, `CountersReachDb`, `HeartbeatGoesOn`, `RebootEnds` and
`StopEnds` rest on fairness, and the prover handles neither fairness nor ENABLED. That
properties fail without the two hypotheses above is shown by TLC only.

## Findings

1. **MLACP_STATE_ERROR** (`mlacp_error`). A port-channel attached and detached between
   two passes is announced only as purged. The peer does not know it and asks for a full
   synchronisation; the answer, in the exchange state, increments `current_state` to
   `MLACP_STATE_ERROR`, which the code calls "should not be here". Only the loss of
   the session leads out, and the heartbeats keep it.
2. **Hang of the request loop** (`eventd_capture_hang`). The capture thread leaves its
   first loop only for `START_CAPTURE`. A cache that is initialised and then, without a
   start, stopped, initialised again or left by the exit of eventd, is joined for ever.

### Where else the code and its comments part

No run keeps these. TLC gave a counterexample on the modules as they were when the
item was found, or on the present ones, except for the items marked *(read)*,
which come from reading the code only.

* mLACP, with removals: the condition that is to unblock a port-channel on removal
  (`mlacp_mlag_intf_detach_handler`) is true only without a peer link, and the second
  attempt comes when `lif->csm` is NULL, so it stays blocked; a port-channel that changes
  state while out of the domain is not marked as changed, and the peer assumes it is up
  when it joins again; a port-channel the peer does not have counts as up there, so it
  is isolated with one side only. After down-up-down-up the acknowledgement of the first
  up unblocks the port-channel before the peer isolates its own again.
* MAC synchronisation: a MAC learnt on a down port-channel sets `pending_local_del` and
  `add_to_syncd` on a local copy after the entry was inserted
  (`mlacp_link_handler.c:2918`), so a later DEL removes the entry and leaves the row,
  against the comment at 3004, "before removing the MAC send del to syncd if added
  before"; a pending entry that is dropped sends no DEL (the code asks "do we need to
  send delete notification to peer .?"), and the peer keeps the address; learning on
  both orphan ports of one name with crossing ADDs leaves both on the peer link. *(read)* A move
  from the port-channel to an orphan port is not told to the peer.
* eventd cache: the missed count differs from the events lost when the overflow begins;
  a read after a partial read returns moved-from events; a `bad_alloc` ends the active
  state without marking the last events as usable.
* eventd counters: heartbeats may be twice the interval apart. *(read)* An interval below
  -1 turns heartbeats off, against "Any other value is ignored as invalid"
  (`eventd.cpp:156`); one above 2147483 s overflows; `eventd.h` calls the interval
  milliseconds, the code takes seconds.
* EVENT_DB: an alarm raised twice has two rows and one lookup entry, so that one row is
  never cleared; a restart forgets the lookup map, and the alarms of before can only be
  acknowledged; an UNACK is not taken off the acknowledged events; an id is given out
  again when the history has aged away, or a raise was cut short, before a restart; an
  alarm is cleared from the counter of the severity its type has now; one whose type is
  disabled by a reload cannot be cleared; a crash between a row and its counters is never
  made up for; a clock set back makes new records old.
* rebootbackend: a thread that could not be launched leaves the status active, and every
  later reboot is refused; a delay in the request is not waited for.
* ctrmgrd: a docker stop that fails is followed by a row that says nothing runs while the
  local container is up. A container of Kubernetes that has
  seen "ready" records itself without another look: if the service was restarted in
  between, it writes over the row of the local container, and both run. Neither is
  needed for two instances: a container of Kubernetes that is first, when the row has
  never been written, runs without being recorded, and the local one is started beside
  it. A second container of Kubernetes that announces itself when the service is about to
  wait on the first is granted all the same and takes the row, while the service waits on
  the first.
* ctrmgrd, when Kubernetes removes its container: `stop` in `docker_image_ctl.j2` skips
  `container stop` because no container runs, the row keeps its owner and id, and the
  feature may stay without an application for ever, against "systemd would restart and
  fallback to local" (`container:428`) and "systemctl-stop process is assured to get
  called" (`container:314`). An owner set to local while the service is starting is not
  acted on (`handle_update`), the service goes on to grant the container of Kubernetes, and
  the local image is not started. *(read)* `not no_fallback` takes the string "false" for
  true.

## Not modelled

* iccpd: ARP and ND entries, whose queues have the shape of the MAC queue and whose
  effect is in the kernel; static MAC addresses; system configuration (system id, node
  id); warm reboot; interfaces that are destroyed and created again, changes of the peer
  link in a running session, several port-channels or domains (`prev_state` in
  `mlacp_fsm_transit` is static and shared by domains). Writes to mclagsyncd are
  taken to succeed. A message is sent and read as a whole: short writes and full socket
  buffers are left out. Time is left out: a time-out may happen at any time. A handler
  of the modelled messages sends an mLACP NAK only when an allocation fails, which is
  left out.
* eventd: the rsyslog plugin and the parsing of profiles (text processing).
* ctrmgrd: the join and retry timers, labels and their hand-over, `container kill` as a
  script of its own, image tags and clean-up timers;
  start limits of systemd; a feature that is disabled; `remote_ctr_enabled` off.
* Daemons that are one loop over table notifications and whose effect is a command or a
  file (bgpcfgd, dhcprelayd, dhcpservd, containercfgd, bmpcfgd, frrcfgd), or whose other
  actors are outside the repository (dplane_fpm_sonic, sonic-pac, docker-wait-any,
  supervisor-proc-exit-listener, system-health).
* Configuration engines, YANG tools, generators, platform and device trees, build
  system: no state between calls, or hardware access.

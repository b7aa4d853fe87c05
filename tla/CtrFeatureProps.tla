--------------------------- MODULE CtrFeatureProps ---------------------------
(* What the scripts of the service, the containers and ctrmgrd guarantee        *)
(* together, however their steps interleave.  Two things break the hand-over    *)
(* between the local container and kubernetes, and `lapse' records them: a      *)
(* docker stop that fails, after which container_stop still writes that the     *)
(* feature is down, and a container of kubernetes that has seen "ready" and     *)
(* records itself when the row no longer says so.                               *)
EXTENDS CtrFeature

\* container_wait lets a container of kubernetes run ("ready") only when the local
\* one is down, and container_start takes a grant back before it starts the local
\* one: no other sequence of starts, stops, restarts, crashes, time-outs and
\* changes of owner leaves a grant beside a local container.
GrantMeansLocalDown ==
  lapse = {} => (row.remote_state = "ready" => loc = "exited")

\* While the local container is up the row names it, so that `container stop' and
\* `container wait' find it: neither container_stop, which clears the id some
\* steps after it has read it, nor a container of kubernetes that records itself
\* writes over it.
LocalRecorded ==
  lapse = {} => (loc # "exited" => row.container_id = Feature)

\* A container of kubernetes that the row names, or whose end the service waits
\* for, has run the application: it is never one that still waits for its grant
\* or is frozen for ever, on which docker wait would hang.
RecordedRan ==
  \A p \in Pod :
    row.container_id = p \/ (main.at = "docker" /\ main.id = p)
      => pod[p].at \in {"app", "gone"}
==============================================================================

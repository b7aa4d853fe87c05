\* One feature, from the local image and from kubernetes, with up to three events:
\* deployments, crashes, failing docker commands, restarts, changes of owner.
CONSTANTS
  Pod = {"p1", "p2"}
  VersionOf <- TwoVersions
  LocalVersion = "v1"
  Fallback = TRUE
  MaxEvents = 3

SPECIFICATION Spec

INVARIANTS
  LocalRecorded
  GrantMeansLocalDown
  RecordedRan
CHECK_DEADLOCK FALSE

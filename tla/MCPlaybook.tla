----------------------------- MODULE MCPlaybook -----------------------------
(***************************************************************************)
(* Slices of the shipped playbooks with a handful of items each.           *)
(***************************************************************************)
EXTENDS RootCauseInvestigation

Item(category, at, says) ==
  [category |-> category, at |-> at, says |-> says, negates |-> FALSE]

Denial(category, at) ==
  [category |-> category, at |-> at, says |-> {}, negates |-> TRUE]

Items ==
  [release    |-> Item("deployment_events", 2, {}),
   nodeploy   |-> Denial("deployment_events", 5),
   alert      |-> Item("alert_events", 4, {}),
   early      |-> Item("application_logs", 1, {"error"}),
   quiet      |-> Item("application_logs", 3, {}),
   restored   |-> Item("metrics", 6, {"recovery"}),
   noconfig   |-> Denial("configuration_changes", 1),
   secret     |-> Item("configuration_changes", 2, {}),
   mention    |-> Item("application_logs", 3, {"config"}),
   evicted    |-> Item("infrastructure_events", 5, {"restart"}),
   slow       |-> Item("metrics", 6, {"latency"}),
   spans      |-> Item("trace_events", 7, {}),
   statements |-> Item("database_events", 1, {}),
   pool       |-> Item("metrics", 2, {"saturation"}),
   flows      |-> Item("network_events", 1, {})]

MCCategory == {"application_logs", "infrastructure_events", "deployment_events",
               "alert_events", "metrics", "trace_events", "configuration_changes",
               "network_events", "database_events", "security_events",
               "human_context", "custom"}

MCCategoryOf  == [e \in Evidence |-> Items[e].category]
MCAt          == [e \in Evidence |-> Items[e].at]
MCSays        == [e \in Evidence |-> Items[e].says]
MCNegates     == {e \in Evidence : Items[e].negates}
NoEntity      == [e \in Evidence |-> ""]
NoRows        == [e \in Evidence |-> -1]
OneAssessment == {Unremarkable}
NoProposals   == {}
NoVerdicts    == [q \in Question |-> 0]

(* A deployment with symptoms before and after it, a denial, a recovery.   *)
DeploySlice == Ids(DeploymentCaused)
DeployItems == {"release", "nodeploy", "alert", "early", "quiet", "restored"}

(* A denied and a real configuration change; a log that mentions one.      *)
ConfigSlice == {"config-changed", "pods-restarted", "traffic-shifted"}
ConfigItems == {"noconfig", "secret", "mention", "release", "evicted", "slow", "spans"}

(* Database events that report no trouble, metrics at their limit.         *)
DatabaseSlice == Ids(DatabaseSaturation)
DatabaseItems == {"statements", "pool", "quiet"}

(* A network report that mentions nothing wrong.                           *)
NetworkSlice == Ids(NetworkFailure)
NetworkItems == {"flows", "quiet"}

TimelineSlice == Ids(TimelinePlaybook)
TimelineItems == {"alert", "release", "early"}

=============================================================================

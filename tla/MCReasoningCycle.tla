-------------------------- MODULE MCReasoningCycle --------------------------
(***************************************************************************)
(* An incident with a lock queue; a release, a denied configuration change *)
(* whose text misses a lock timeout, and evicted pods; slow requests, a    *)
(* hotfix, and the metrics of a recovered and healthy database: submitted  *)
(* in any order, to a host that may speak for or against any of it.        *)
(***************************************************************************)
EXTENDS ReasoningCycle

Item(category, at, says, entity, rows) ==
  [category |-> category, at |-> at, says |-> says, entity |-> entity, rows |-> rows]

Items ==
  [noconfig |-> Item("configuration_changes", 8, {"no_lock_timeout"}, "", -1),
   release  |-> Item("deployment_events", 10, {}, "checkout", -1),
   failing  |-> Item("application_logs", 20, {"error"}, "checkout", -1),
   alert    |-> Item("alert_events", 25, {}, "", -1),
   evicted  |-> Item("infrastructure_events", 30, {"restart"}, "", -1),
   spans    |-> Item("trace_events", 35, {}, "", -1),
   slow     |-> Item("metrics", 40, {"latency"}, "", -1),
   holder   |-> Item("database_events", 50, {}, "orders", 3),
   waiter   |-> Item("database_events", 52, {}, "orders", 0),
   hotfix   |-> Item("deployment_events", 55, {}, "checkout", -1),
   restored |-> Item("metrics", 60, {"recovery", "database"}, "", -1)]

MCEvidence     == DOMAIN Items
MCCategory     == {"application_logs", "infrastructure_events", "deployment_events",
                   "alert_events", "metrics", "trace_events", "configuration_changes",
                   "network_events", "database_events", "security_events",
                   "human_context", "custom"}
MCCategoryOf   == [e \in Evidence |-> Items[e].category]
MCAt           == [e \in Evidence |-> Items[e].at]
MCSays         == [e \in Evidence |-> Items[e].says]
MCEntityOf     == [e \in Evidence |-> Items[e].entity]
MCRowsAffected == [e \in Evidence |-> Items[e].rows]
(* The questions that items like these can settle, and one they cannot.    *)
MCQuestion     == Ids(DeploymentCaused \union DatabaseSaturation \union LockContention
                      \union ConfigurationChange \union NetworkFailure) \union {"pods-restarted"}

MCEchoes       == {<<"slow", "restored">>}

MCBatches ==
  {{"failing", "alert", "spans", "holder", "waiter"}, {"release", "noconfig", "evicted"},
   {"slow", "restored", "hotfix"}}

Of(type, id) == [type |-> type, id |-> id]
Adjust(id, delta) == [type |-> "AdjustHypothesis", id |-> id, delta |-> delta]
Settle(q, s) == [type |-> "SettleQuestion", question |-> q, status |-> s]
Link(from, to) == [type |-> "LinkGraphNodes", edges |-> {<<from, to, "causes">>}]
Opinion(share) ==
  [type |-> "CreateHypothesis",
   hypothesis |-> [id |-> "cosmic", share |-> share, status |-> "proposed", support |-> {}]]

OwnField ==
  [type |-> "ReplaceHypotheses",
   hyps |-> << [id |-> "deployment-caused", share |-> 1000, status |-> "leading",
                support |-> {"release", "failing", "spans"}] >>]

(* Besides an answer that is of no use: an opinion and a refutation, a     *)
(* field of its own with full coverage, a verdict on a question, links of  *)
(* which one leads nowhere, the end of the investigation.                  *)
FullCoverage == [type |-> "SetCoverage", coverage |-> 1000]

MCAnswers ==
  {Silent,
   << Opinion(900), Of("RejectHypothesis", "deployment-caused"), Adjust("unknown", 500),
      [type |-> "MarkContradiction", contradiction |-> <<"reported">>] >>,
   << OwnField, FullCoverage >>,
   << Settle("network-healthy", "answered"), FullCoverage >>,
   << Link(Ev("release"), Ev("alert")), Link(Hyp("unknown"), Hyp("gone")) >>,
   << Of("MarkInvestigationComplete", "") >>}

=============================================================================

-------------------------- MODULE RootCausePlaybook --------------------------
(***************************************************************************)
(* The playbooks the runtime ships: the root-cause playbook assembled from *)
(* the archetypes' question seeds (internal/archetype/builtin), its        *)
(* trigger signals (protocol/engine.go) and its resolution rules           *)
(* (protocol/resolution.go), and the two playbooks written as text.        *)
(*                                                                         *)
(* PlaybookRequires .. PlaybookVerdict give the parameters of              *)
(* QuestionProtocol the values they have in the program.                   *)
(***************************************************************************)
EXTENDS QuestionProtocol, Signals

(* What a verdict does to the hypotheses, in points; a seed names a        *)
(* hypothesis at most once per verdict.                                    *)
Points(hypothesis, n)           == [h \in {hypothesis} |-> n]
PointsEach(first, n, second, m) == [h \in {first, second} |-> IF h = first THEN n ELSE m]

Effects(onConfirmed, onRejected) == [confirmed |-> onConfirmed, rejected |-> onRejected]
Swing(hypothesis, onConfirmed, onRejected) ==
  Effects(Points(hypothesis, onConfirmed), Points(hypothesis, onRejected))
NoEffects == Effects([h \in {} |-> 0], [h \in {} |-> 0])

NoTrigger == ""

(* A question seed without its wording; requires in the seed's order,      *)
(* trigger NoTrigger for a static question.                                *)
Seed(id, priority, requires, trigger, dependsOn, generates, effects) ==
  [id |-> id, priority |-> priority, requires |-> requires, trigger |-> trigger,
   dependsOn |-> dependsOn, generates |-> generates, effects |-> effects]

Triggered(id, priority, requires, trigger, effects) ==
  Seed(id, priority, requires, trigger, {}, {}, effects)

logs  == "application_logs"
infra == "infrastructure_events"

-----------------------------------------------------------------------------
(* Question seeds, by archetype.                                           *)
DeploymentCaused ==
  {Seed("deploy-before-errors", 85, <<"deployment_events", logs, "alert_events">>, NoTrigger, {}, {},
     Effects(Points("deployment-caused", 25),
             PointsEach("deployment-caused", -40, "deployment-unrelated", 20))),
   Seed("deploy-after-incident", 80, <<"deployment_events", "alert_events", logs>>, NoTrigger, {"deploy-before-errors"}, {},
     Effects(PointsEach("deployment-unrelated", 30, "deployment-caused", -35),
             Points("deployment-unrelated", -15))),
   Seed("rollback-restored-service", 75, <<"deployment_events", "metrics">>, NoTrigger, {"deploy-before-errors"}, {},
     Swing("deployment-caused", 15, -20))}

DatabaseSaturation ==
  {Triggered("database-healthy", 70, <<"database_events", "metrics", logs>>, "database",
     Swing("database-saturation", -30, 35)),
   Seed("database-saturated", 72, <<"database_events", "metrics">>, NoTrigger, {"database-healthy"}, {},
     Effects(PointsEach("database-saturation", 30, "lock-contention", -20),
             Points("database-saturation", -20)))}

LockContention ==
  {Triggered("lock-contention-queue", 78, <<"database_events", "trace_events">>, "database",
     Effects(PointsEach("lock-contention", 25, "database-saturation", -25),
             Points("lock-contention", -20))),
   Seed("lock-timeouts-missing", 65, <<"configuration_changes", "database_events">>, NoTrigger, {"lock-contention-queue"}, {},
     Swing("lock-contention", 15, -10))}

ConfigurationChange ==
  {Seed("config-changed", 70, <<"configuration_changes", "deployment_events">>, "config", {}, {"pods-restarted"},
     Swing("configuration-change", 30, -15))}

NetworkFailure ==
  {Seed("network-healthy", 60, <<"network_events", logs>>, NoTrigger, {}, {},
     Swing("network-failure", -25, 30))}

DNSFailure ==
  {Triggered("dns-failure", 75, <<"network_events", logs>>, "dns",
     Swing("dns-failure", 30, -20))}

CertificateExpiry ==
  {Triggered("certificate-expired", 82, <<"security_events", logs>>, "cert",
     Swing("certificate-expiry", 35, -25))}

ResourceExhaustion ==
  {Seed("pods-restarted", 65, <<infra, logs>>, "restart", {"config-changed"}, {"traffic-shifted"},
     Swing("resource-exhaustion", 20, 0)),
   Triggered("memory-pressure", 68, <<"metrics", infra, logs>>, "memory",
     Swing("resource-exhaustion", 30, -20))}

RetryStorm ==
  {Seed("latency-before-retries", 60, <<"metrics", "trace_events">>, NoTrigger, {}, {},
     Swing("retry-storm", 20, -25)),
   Seed("traffic-shifted", 55, <<"metrics", "trace_events">>, NoTrigger, {"pods-restarted"}, {},
     Swing("retry-storm", 15, 0))}

DependencyFailure ==
  {Triggered("dependency-unavailable", 74, <<logs, "trace_events">>, "dependency",
     Swing("dependency-failure", 30, -20))}

PerformanceRegression ==
  {Triggered("latency-regression", 68, <<"metrics", "trace_events">>, "performance",
     Swing("performance-regression", 28, -18))}

ExternalOutage ==
  {Triggered("vendor-outage", 76, <<logs, "network_events">>, "external",
     Swing("external-outage", 32, -22))}

AuthFailure ==
  {Triggered("auth-failure", 72, <<"security_events", logs>>, "auth",
     Swing("auth-failure", 30, -20))}

HumanError ==
  {Triggered("manual-change", 70, <<"human_context", logs>>, "human",
     Swing("human-error", 32, -18))}

CapacityPlanning ==
  {Triggered("capacity-exceeded", 66, <<"metrics", infra>>, "capacity",
     Swing("capacity-planning", 28, -18))}

SecurityIncident ==
  {Triggered("security-breach", 84, <<"security_events", logs>>, "security",
     Swing("security-incident", 35, -25))}

InfrastructureFailure ==
  {Triggered("node-unavailable", 74, <<infra, "alert_events">>, "infrastructure",
     Swing("infrastructure-failure", 30, -20))}

KubernetesFailure ==
  {Triggered("k8s-crashloop", 72, <<infra, logs>>, "kubernetes",
     Swing("kubernetes-failure", 28, -18))}

ContainerFailure ==
  {Triggered("image-pull-failed", 68, <<infra, logs>>, "container",
     Swing("container-failure", 28, -18))}

StorageFailure ==
  {Triggered("storage-unavailable", 70, <<infra, "metrics">>, "storage",
     Swing("storage-failure", 30, -20))}

CacheFailure ==
  {Triggered("cache-unavailable", 66, <<"metrics", logs>>, "cache",
     Swing("cache-failure", 28, -18))}

MessagingFailure ==
  {Triggered("consumer-lag", 68, <<logs, "metrics">>, "messaging",
     Swing("messaging-failure", 28, -18))}

LoadBalancerFailure ==
  {Triggered("lb-health-check", 70, <<"network_events", logs>>, "loadbalancer",
     Swing("load-balancer-failure", 28, -18))}

APIContractFailure ==
  {Triggered("api-breaking-change", 72, <<logs, "deployment_events">>, "apicontract",
     Swing("api-contract-failure", 30, -20))}

DataCorruption ==
  {Triggered("data-corrupted", 74, <<"database_events", logs>>, "datacorruption",
     Swing("data-corruption", 32, -22))}

ClockFailure ==
  {Triggered("clock-drift", 62, <<infra, "security_events">>, "clock",
     Swing("clock-failure", 28, -18))}

FeatureFlagFailure ==
  {Triggered("feature-flag-changed", 71, <<"configuration_changes", "deployment_events">>, "featureflag",
     Effects(PointsEach("feature-flag-failure", 30, "configuration-change", -15),
             Points("feature-flag-failure", -18)))}

RegionalFailure ==
  {Triggered("az-failure", 76, <<infra, "network_events">>, "regional",
     Swing("regional-failure", 32, -22))}

DRFailoverFailure ==
  {Triggered("failover-incomplete", 64, <<infra, "database_events">>, "dr",
     Swing("dr-failover-failure", 28, -18))}

ObservabilityFailure ==
  {Triggered("observability-gap", 58, <<"human_context", logs>>, "observability",
     Swing("observability-failure", 24, -14))}

DefaultRegistry ==
  UNION {DeploymentCaused, DatabaseSaturation, LockContention,
         ConfigurationChange, NetworkFailure, DNSFailure,
         CertificateExpiry, ResourceExhaustion, RetryStorm,
         DependencyFailure, PerformanceRegression, ExternalOutage,
         AuthFailure, HumanError, CapacityPlanning, SecurityIncident,
         InfrastructureFailure, KubernetesFailure, ContainerFailure,
         StorageFailure, CacheFailure, MessagingFailure,
         LoadBalancerFailure, APIContractFailure, DataCorruption,
         ClockFailure, FeatureFlagFailure, RegionalFailure,
         DRFailoverFailure, ObservabilityFailure}

(* SeedQuestions: the order of the assembled playbook.                     *)
PlaybookOrder ==
  << "deploy-before-errors", "deploy-after-incident",
     "rollback-restored-service", "database-healthy", "database-saturated",
     "lock-contention-queue", "lock-timeouts-missing", "config-changed",
     "network-healthy", "dns-failure", "certificate-expired",
     "pods-restarted", "memory-pressure", "latency-before-retries",
     "traffic-shifted", "dependency-unavailable", "latency-regression",
     "vendor-outage", "auth-failure", "manual-change", "capacity-exceeded",
     "security-breach", "node-unavailable", "k8s-crashloop",
     "image-pull-failed", "storage-unavailable", "cache-unavailable",
     "consumer-lag", "lb-health-check", "api-breaking-change",
     "data-corrupted", "clock-drift", "feature-flag-changed", "az-failure",
     "failover-incomplete", "observability-gap" >>

TimelinePlaybook ==
  {Seed("incident-onset", 90, <<"alert_events", logs>>, NoTrigger, {}, {}, NoEffects),
   Seed("deploy-timeline", 50, <<"deployment_events", "alert_events">>, NoTrigger, {"incident-onset"}, {}, NoEffects),
   Seed("recovery-timeline", 50, <<"metrics", logs, "deployment_events">>, NoTrigger, {"incident-onset"}, {}, NoEffects)}

BlastRadiusPlaybook ==
  {Seed("affected-services", 90, <<"metrics", "alert_events", "trace_events">>, NoTrigger, {}, {}, NoEffects),
   Seed("customer-impact", 50, <<"metrics", "trace_events">>, NoTrigger, {"affected-services"}, {}, NoEffects),
   Seed("api-degradation", 50, <<"metrics", logs>>, NoTrigger, {"affected-services"}, {}, NoEffects)}

(* By id; no two seeds share one, so dropping repeated ids drops nothing.  *)
Ids(seeds) == {seed.id : seed \in seeds}
ById(seeds) == [q \in Ids(seeds) |-> CHOOSE seed \in seeds : seed.id = q]

Playbooks == ById(DefaultRegistry \union TimelinePlaybook \union BlastRadiusPlaybook)

-----------------------------------------------------------------------------
(* signalTriggered: the trigger's own keyword, or one of these.            *)
AlsoHeard(trigger) ==
  CASE trigger = "restart"     -> {"memory"}
    [] trigger = "memory"      -> {"restart"}
    [] trigger = "performance" -> {"latency"}
    [] trigger = "kubernetes"  -> {"restart"}
    [] OTHER                   -> {}

AlsoHeld(trigger) ==
  CASE trigger \in {"config", "featureflag"}       -> {"configuration_changes"}
    [] trigger = "database"                        -> {"database_events"}
    [] trigger \in {"cert", "auth"}                -> {"security_events"}
    [] trigger \in {"dns", "loadbalancer"}         -> {"network_events"}
    [] trigger = "dependency"                      -> {"trace_events"}
    [] trigger = "human"                           -> {"human_context"}
    [] trigger = "capacity"                        -> {"metrics"}
    [] trigger \in {"infrastructure", "storage"}   -> {infra}
    [] OTHER                                       -> {}

SignalTriggered(trigger, E) ==
  \/ Keywords(E) \intersect ({trigger} \union AlsoHeard(trigger)) # {}
  \/ HeldCategories(E) \intersect AlsoHeld(trigger) # {}

-----------------------------------------------------------------------------
(* Resolution rules, tried once every required category is present.        *)

FirstOf(isConfirmed, isRejected) ==
  CASE isConfirmed                -> "confirmed"
    [] ~isConfirmed /\ isRejected -> "rejected"
    [] OTHER                      -> "insufficient"

(* Slip: the affirmative reading is tried before the negative one.         *)
ConfigChangedAffirmedFirst(E) ==
  FirstOf(HasAffirmativeConfigurationEvidence(E), AllConfigurationEvidenceRuledOut(E))

ConfigChanged(E) ==
  IF AllConfigurationEvidenceRuledOut(E) THEN "rejected"
  ELSE FirstOf(HasAffirmativeConfigurationEvidence(E),
               "configuration_changes" \notin HeldCategories(E))

(* Slip: any deployment before the last symptom will do.                   *)
DeployBeforeErrorsLoose(E) ==
  FirstOf(\E d \in Deployments(E), s \in Symptoms(E) : At[d] <= At[s],
          DeployAfterIncident(E))

DeployBeforeErrors(E) ==
  IF AllDeploymentEvidenceRuledOut(E) THEN "rejected"
  ELSE FirstOf(DeployBeforeIncident(E), DeployAfterIncident(E))

NetworkHealthy(E) ==
  IF Keywords(E) \intersect {"dns", "network"} # {} THEN "rejected"
  ELSE FirstOf("network_events" \in HeldCategories(E), FALSE)

DatabaseHealthy(E) ==
  CASE LockPresent(E) -> "confirmed"
    [] /\ ~LockPresent(E)
       /\ "database" \in Keywords(E) /\ HasCategoryError(E, "database_events") -> "rejected"
    [] OTHER -> FirstOf("database_events" \in HeldCategories(E), FALSE)

DatabaseSaturated(E) ==
  IF LockPresent(E) \/ HealthyDatabaseMetrics(E) THEN "rejected"
  ELSE FirstOf(HasCategoryError(E, "database_events") \/ HasSaturationMetrics(E),
               "database_events" \in HeldCategories(E))

(* The other questions: confirmed by one of the keywords or by evidence of *)
(* a category alone, else rejected if evidence of some category is there.  *)
ByKeyword(E, words, suffices, rejects) ==
  FirstOf(\/ Keywords(E) \intersect words # {}
          \/ HeldCategories(E) \intersect suffices # {},
          HeldCategories(E) \intersect rejects # {})

(* The remaining questions are confirmed by one of these keywords, if any, *)
(* else left open.                                                         *)
ConfirmedBy(q) ==
  CASE q = "vendor-outage"       -> {"external"}
    [] q = "auth-failure"        -> {"auth"}
    [] q = "capacity-exceeded"   -> {"capacity"}
    [] q = "node-unavailable"    -> {"infrastructure"}
    [] q = "k8s-crashloop"       -> {"kubernetes", "restart"}
    [] q = "image-pull-failed"   -> {"container"}
    [] q = "storage-unavailable" -> {"storage"}
    [] q = "cache-unavailable"   -> {"cache"}
    [] q = "consumer-lag"        -> {"messaging"}
    [] q = "lb-health-check"     -> {"loadbalancer"}
    [] q = "api-breaking-change" -> {"apicontract"}
    [] q = "data-corrupted"      -> {"datacorruption"}
    [] q = "clock-drift"         -> {"clock"}
    [] q = "az-failure"          -> {"regional"}
    [] q = "failover-incomplete" -> {"dr"}
    [] q = "observability-gap"   -> {"observability"}
    [] OTHER -> {}

(* The timeline and blast-radius questions have no rule: no words confirm  *)
(* them.                                                                   *)
ResolutionRule(q, E) ==
  CASE q = "deploy-before-errors"      -> DeployBeforeErrors(E)
    [] q = "deploy-after-incident"     -> FirstOf(DeployAfterIncident(E), DeployBeforeIncident(E))
    [] q = "rollback-restored-service" -> FirstOf(Recoveries(E) # {}, FALSE)
    [] q = "database-healthy"          -> DatabaseHealthy(E)
    [] q = "database-saturated"        -> DatabaseSaturated(E)
    [] q = "lock-contention-queue"     -> FirstOf(LockPresent(E), "database_events" \in HeldCategories(E))
    [] q = "lock-timeouts-missing"     -> FirstOf(MissingLockTimeouts(E),
                                                  "configuration_changes" \in HeldCategories(E))
    [] q = "latency-before-retries"    -> FirstOf({"latency", "retry"} \subseteq Keywords(E), FALSE)
    [] q = "config-changed"            -> ConfigChanged(E)
    [] q = "network-healthy"           -> NetworkHealthy(E)
    [] q = "latency-regression"        ->
         FirstOf(\/ "performance" \in Keywords(E)
                 \/ "latency" \in Keywords(E) /\ Keywords(E) \intersect {"database", "retry"} = {}, FALSE)
    [] q = "pods-restarted"         -> ByKeyword(E, {"restart"}, {infra}, {})
    [] q = "traffic-shifted"        -> ByKeyword(E, {"latency"}, {"metrics"}, {})
    [] q = "memory-pressure"        -> ByKeyword(E, {"memory", "restart"}, {}, {infra, "metrics"})
    [] q = "dns-failure"            -> ByKeyword(E, {"dns"}, {}, {"network_events"})
    [] q = "certificate-expired"    -> ByKeyword(E, {"cert"}, {}, {"security_events"})
    [] q = "dependency-unavailable" -> ByKeyword(E, {"dependency"}, {}, {"trace_events"})
    [] q = "manual-change"          -> ByKeyword(E, {"human"}, {"human_context"}, {})
    [] q = "security-breach"        -> ByKeyword(E, {"security"}, {}, {"security_events"})
    [] q = "feature-flag-changed"   -> ByKeyword(E, {"featureflag"}, {}, {"configuration_changes"})
    [] OTHER -> ByKeyword(E, ConfirmedBy(q), {}, {})

-----------------------------------------------------------------------------
(* The parameters of QuestionProtocol.                                     *)
PlaybookRequires  == [q \in Question |-> ToSet(Playbooks[q].requires)]
PlaybookPriority  == [q \in Question |-> Playbooks[q].priority]
PlaybookDependsOn == [q \in Question |-> Playbooks[q].dependsOn \intersect Question]
PlaybookGenerates == [q \in Question |-> Playbooks[q].generates \intersect Question]
PlaybookDynamic   == {q \in Question : Playbooks[q].trigger # NoTrigger}
PlaybookFires     == [q \in PlaybookDynamic |->
                        [E \in SUBSET Evidence |-> SignalTriggered(Playbooks[q].trigger, E)]]
PlaybookVerdict   == [q \in Question |->
                        [E \in SUBSET Evidence |-> ResolutionRule(q, E)]]

=============================================================================

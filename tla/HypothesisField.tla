--------------------------- MODULE HypothesisField ---------------------------
(***************************************************************************)
(* The archetype library as a scorer: what each built-in archetype         *)
(* (internal/archetype/builtin) says of a set of evidence, and the ranked  *)
(* field of hypotheses the registry (internal/archetype/registry.go) makes *)
(* of the scores.                                                          *)
(*                                                                         *)
(* Scores are the code's own whole points.  A share of the field is kept   *)
(* in tenths of a percent, as round1 leaves it.                            *)
(***************************************************************************)
EXTENDS Signals, FiniteSets, Sorting

Clamp(v, lo, hi) == IF v < lo THEN lo ELSE IF v > hi THEN hi ELSE v

(* round1 of num/den, in units of the result; den is positive.             *)
Rounded(num, den) == (2 * num + den) \div (2 * den)

Heard(E, word) == word \in Keywords(E)
Held(E, c)     == c \in HeldCategories(E)

PointsIf(cond, points) == IF cond THEN points ELSE 0

(* support matters only through the categories it spans.                   *)
Candidate(id, score, support) ==
  [id |-> id, score |-> IF score < 0 THEN 0 ELSE score, keep |-> FALSE, support |-> support]

-----------------------------------------------------------------------------
(* The generic scorer.  boosts: keyword and points; penalties: keyword, a  *)
(* keyword that lifts the penalty or "none", and points.                   *)
ScoreWith(E, id, keyword, base, boosts, penalties) ==
  IF ~Heard(E, keyword) THEN Candidate(id, 0, {})
  ELSE Candidate(id,
         base + SumFunction([b \in boosts |-> PointsIf(Heard(E, b[1]), b[2])])
              - SumFunction([p \in penalties |->
                               PointsIf(Heard(E, p[1]) /\ ~Heard(E, p[2]), p[3])]),
         Mentioning(E, keyword))

Bonus(candidate, cond, points) ==
  [candidate EXCEPT !.score = @ + PointsIf(cond, points)]

ScoreKeyword(E, id, keyword, base) == ScoreWith(E, id, keyword, base, {}, {})

DeploymentCausedScore(E) ==
  LET first == FirstOfKind(Deployments(E)) IN
  IF Deployments(E) = {} THEN Candidate("deployment-caused", 0, {})
  ELSE Candidate("deployment-caused",
         IF DeployAfterIncident(E) THEN 2
         ELSE 5 + PointsIf(DeployBeforeIncident(E), 45)
                + PointsIf(Heard(E, "config") /\ Held(E, "configuration_changes"), 12)
                + PointsIf(Heard(E, "restart"), 10),
         first \union (IF DeployBeforeIncident(E) THEN FirstOfKind(Symptoms(E)) ELSE {})
               \union (IF Heard(E, "config") THEN OfCategory(E, "configuration_changes") ELSE {}))

DeploymentUnrelatedScore(E) ==
  LET ruledOut == AllDeploymentEvidenceRuledOut(E) IN
  Candidate("deployment-unrelated",
    IF ~ruledOut /\ Deployments(E) = {} /\ ~HasAffirmativeDeploymentEvidence(E) THEN 0
    ELSE 8 + PointsIf(DeployAfterIncident(E), 40) + PointsIf(ruledOut, 45),
    IF ruledOut THEN OfCategory(E, "deployment_events") ELSE {})

ConfigurationChangeScore(E) ==
  LET affirmed == HasAffirmativeConfigurationEvidence(E)
      spoken   == Heard(E, "config") /\ ~Heard(E, "featureflag") /\ affirmed
  IN  Candidate("configuration-change",
        PointsIf(spoken, 30) + PointsIf(affirmed /\ ~Heard(E, "kubernetes"), 12)
          - PointsIf(Heard(E, "kubernetes"), 20),
        IF spoken THEN {e \in OfCategory(E, "configuration_changes") \union Mentioning(E, "config") :
                          ~EvidenceRulesOutConfig(e)}
                  ELSE {})

PerformanceRegressionScore(E) ==
  Candidate("performance-regression",
    PointsIf(Heard(E, "performance"), 36)
      + PointsIf(/\ Heard(E, "latency") /\ Held(E, "metrics")
                 /\ ~Heard(E, "database") /\ ~Heard(E, "retry"), 22),
    Mentioning(E, "performance"))

HumanErrorScore(E) ==
  Candidate("human-error", PointsIf(Held(E, "human_context"), 40) + PointsIf(Heard(E, "human"), 28),
            OfCategory(E, "human_context"))

APIContractFailureScore(E) == ScoreKeyword(E, "api-contract-failure", "apicontract", 42)

FeatureFlagFailureScore(E) ==
  ScoreWith(E, "feature-flag-failure", "featureflag", 44, {}, {<<"config", "featureflag", 15>>})

-----------------------------------------------------------------------------
DatabaseSaturationScore(E) ==
  Candidate("database-saturation",
    PointsIf(Heard(E, "database"), 35) + PointsIf(Held(E, "database_events"), 12)
      + PointsIf(Heard(E, "latency") /\ Held(E, "metrics"), 8)
      - PointsIf(Heard(E, "dr"), 15) - PointsIf(LockPresent(E), 25)
      - PointsIf(HealthyDatabaseMetrics(E), 15),
    Mentioning(E, "database"))

LockContentionScore(E) ==
  IF ~LockPresent(E) THEN Candidate("lock-contention", 0, {})
  ELSE Candidate("lock-contention",
         55 + PointsIf(MissingLockTimeouts(E), 15) + PointsIf(HealthyDatabaseMetrics(E), 12)
            + PointsIf(Heard(E, "latency"), 8) + PointsIf(Held(E, "trace_events"), 6),
         UNION {Holders(LockQueue(E)), Waiters(LockQueue(E)), MissingTimeoutItems(E),
                HealthyDatabaseItems(E), OfCategory(E, "trace_events")})

CacheFailureScore(E) ==
  Bonus(ScoreWith(E, "cache-failure", "cache", 40, {}, {<<"database", "none", 18>>}),
        Held(E, "metrics"), 8)

DataCorruptionScore(E) ==
  ScoreWith(E, "data-corruption", "datacorruption", 44, {}, {<<"human", "datacorruption", 20>>})

ExternalOutageScore(E) == ScoreKeyword(E, "external-outage", "external", 42)

-----------------------------------------------------------------------------
InfrastructureFailureScore(E) ==
  Bonus(ScoreWith(E, "infrastructure-failure", "infrastructure", 42, {},
                  {<<"kubernetes", "infrastructure", 18>>, <<"regional", "infrastructure", 12>>}),
        Held(E, "infrastructure_events"), 10)

ResourceExhaustionScore(E) ==
  Candidate("resource-exhaustion",
            PointsIf(Heard(E, "memory"), 35) + PointsIf(Heard(E, "restart"), 12), Mentioning(E, "memory"))

StorageFailureScore(E) ==
  Bonus(ScoreWith(E, "storage-failure", "storage", 42, {}, {<<"memory", "none", 20>>}),
        Held(E, "infrastructure_events"), 8)

RegionalFailureScore(E) ==
  Bonus(ScoreWith(E, "regional-failure", "regional", 42, {}, {<<"infrastructure", "regional", 14>>}),
        Held(E, "infrastructure_events"), 8)

RetryStormScore(E) ==
  Candidate("retry-storm",
            PointsIf(Heard(E, "retry"), 32) + PointsIf(Heard(E, "latency"), 8), Mentioning(E, "retry"))

DependencyFailureScore(E) ==
  Candidate("dependency-failure",
    PointsIf(Heard(E, "dependency"), 38)
      + PointsIf(Heard(E, "error") /\ Held(E, "trace_events"), 12)
      + PointsIf(Heard(E, "latency") /\ Heard(E, "dependency"), 8)
      - PointsIf(Heard(E, "retry"), 30) - PointsIf(Heard(E, "external"), 25),
    Mentioning(E, "dependency"))

MessagingFailureScore(E) ==
  Bonus(ScoreWith(E, "messaging-failure", "messaging", 42, {}, {<<"retry", "messaging", 22>>}),
        Held(E, "metrics"), 8)

CapacityPlanningScore(E) ==
  Candidate("capacity-planning",
    PointsIf(Heard(E, "capacity"), 38)
      + PointsIf(Heard(E, "latency") /\ Held(E, "metrics") /\ ~Heard(E, "database"), 10),
    Mentioning(E, "capacity"))

DRFailoverFailureScore(E) ==
  Bonus(ScoreWith(E, "dr-failover-failure", "dr", 40, {}, {<<"database", "dr", 18>>}),
        Held(E, "infrastructure_events"), 8)

ObservabilityFailureScore(E) ==
  ScoreWith(E, "observability-failure", "observability", 36, {}, {<<"human", "observability", 15>>})

-----------------------------------------------------------------------------
NetworkFailureScore(E) ==
  Candidate("network-failure",
    IF Heard(E, "dns") THEN 0
    ELSE PointsIf(Heard(E, "network"), 38) - PointsIf(Heard(E, "loadbalancer"), 25),
    Mentioning(E, "network"))

DNSFailureScore(E)        == ScoreKeyword(E, "dns-failure", "dns", 42)
CertificateExpiryScore(E) == ScoreKeyword(E, "certificate-expiry", "cert", 48)
AuthFailureScore(E)       == ScoreKeyword(E, "auth-failure", "auth", 44)
ClockFailureScore(E)      == ScoreKeyword(E, "clock-failure", "clock", 40)

KubernetesFailureScore(E) ==
  ScoreWith(E, "kubernetes-failure", "kubernetes", 40, {<<"restart", 12>>},
            {<<"config", "kubernetes", 15>>, <<"container", "kubernetes", 8>>})

ContainerFailureScore(E) ==
  ScoreWith(E, "container-failure", "container", 40, {<<"restart", 8>>},
            {<<"kubernetes", "container", 12>>})

LoadBalancerFailureScore(E) ==
  IF Heard(E, "dns") THEN Candidate("load-balancer-failure", 0, {})
  ELSE ScoreWith(E, "load-balancer-failure", "loadbalancer", 40, {},
                 {<<"network", "loadbalancer", 10>>})

SecurityIncidentScore(E) ==
  Candidate("security-incident",
    PointsIf(Heard(E, "security"), 46)
      + PointsIf(Held(E, "security_events") /\ ~Heard(E, "cert"), 10),
    Mentioning(E, "security"))

UnknownScore(E) ==
  LET residual == 40 - 5 * Cardinality(HeldCategories(E))
  IN  [Candidate("unknown", IF residual < 4 THEN 4 ELSE residual, {}) EXCEPT !.keep = TRUE]

-----------------------------------------------------------------------------
(* The default registry, in the order of the hypothesis ids, which decides *)
(* between equal shares.  No two archetypes share a hypothesis id.         *)
Candidates(E) ==
  << APIContractFailureScore(E), AuthFailureScore(E), CacheFailureScore(E),
     CapacityPlanningScore(E), CertificateExpiryScore(E), ClockFailureScore(E),
     ConfigurationChangeScore(E), ContainerFailureScore(E), DataCorruptionScore(E),
     DatabaseSaturationScore(E), DependencyFailureScore(E), DeploymentCausedScore(E),
     DeploymentUnrelatedScore(E), DNSFailureScore(E), DRFailoverFailureScore(E),
     ExternalOutageScore(E), FeatureFlagFailureScore(E), HumanErrorScore(E),
     InfrastructureFailureScore(E), KubernetesFailureScore(E), LoadBalancerFailureScore(E),
     LockContentionScore(E), MessagingFailureScore(E), NetworkFailureScore(E),
     ObservabilityFailureScore(E), PerformanceRegressionScore(E), RegionalFailureScore(E),
     ResourceExhaustionScore(E), RetryStormScore(E), SecurityIncidentScore(E),
     StorageFailureScore(E), UnknownScore(E) >>

AssignStatus(rank, share) ==
  CASE rank = 1 /\ share >= 600                 -> "leading"
    [] rank = 1 /\ share \in 350 .. 599         -> "supported"
    [] ~(rank = 1 /\ share >= 350) /\ share < 80 -> "refuted"
    [] OTHER                                    -> "proposed"

CandidatesToHypotheses(cands) ==
  LET kept   == {i \in DOMAIN cands : cands[i].score > 0 \/ cands[i].keep}
      points == SumFunction([i \in kept |-> cands[i].score])
      total  == IF points <= 0 THEN 1 ELSE points
      shares == [i \in kept |-> Rounded(cands[i].score * 1000, total)]
      ranked == Descending(shares)
  IN  [r \in DOMAIN ranked |->
         [id      |-> cands[ranked[r]].id,
          share   |-> shares[ranked[r]],
          status  |-> AssignStatus(r, shares[ranked[r]]),
          support |-> cands[ranked[r]].support]]

(* Generate: the registry's ranked field for the evidence.                 *)
Generate(E) == CandidatesToHypotheses(Candidates(E))

=============================================================================

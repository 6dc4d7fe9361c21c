--------------------- MODULE RootCauseInvestigationProofs ---------------------
(***************************************************************************)
(* What an investigation that follows the shipped playbooks promises, for  *)
(* every slice of the playbooks and every finite set of items.             *)
(*                                                                         *)
(* Two invariants carry the argument.  While no host proposes plan         *)
(* actions, every settled question has its verdict on record (OnRecord),   *)
(* and every question asked was unlocked by confirmations that are on      *)
(* record (AskedOnRecord), although a client may have withdrawn them       *)
(* since.  What the questions depend on and generate is then read off the  *)
(* registry, and what their rules make of the evidence off Signals.        *)
(***************************************************************************)
EXTENDS RootCauseInvestigation, InvestigationRuntimeProofs, FiniteInduction

-----------------------------------------------------------------------------
(* The registry.  AsShipped says of a seed what the properties need.       *)
AsDeclared(id, requires, dependsOn, generates) ==
  /\ id = "pods-restarted"            => dependsOn = {"config-changed"}
  /\ id = "traffic-shifted"           => dependsOn = {"pods-restarted"}
  /\ id = "rollback-restored-service" => dependsOn = {"deploy-before-errors"}
  /\ id = "config-changed"            => requires[1] = "configuration_changes"
  /\ id = "deploy-before-errors"      => requires[1] = "deployment_events"
  /\ id \in {"config-changed", "deploy-before-errors"} => 1 \in DOMAIN requires
  /\ "pods-restarted" \in generates  => id = "config-changed"
  /\ "traffic-shifted" \in generates => id = "pods-restarted"
  /\ "rollback-restored-service" \notin generates

AsShipped(seed) == AsDeclared(seed.id, seed.requires, seed.dependsOn, seed.generates)

Shipped(seeds) == \A seed \in seeds : AsShipped(seed)

LEMMA SeedShipped ==
  ASSUME NEW id, NEW priority, NEW requires, NEW trigger, NEW dependsOn, NEW generates,
         NEW effects, AsDeclared(id, requires, dependsOn, generates)
  PROVE  AsShipped(Seed(id, priority, requires, trigger, dependsOn, generates, effects))
  BY DEF AsShipped, Seed

LEMMA TriggeredShipped ==
  ASSUME NEW id, NEW priority, NEW requires, NEW trigger, NEW effects,
         id \notin {"pods-restarted", "traffic-shifted", "rollback-restored-service",
                    "config-changed", "deploy-before-errors"}
  PROVE  AsShipped(Triggered(id, priority, requires, trigger, effects))
  BY DEF AsShipped, AsDeclared, Triggered, Seed

LEMMA DeploymentShipped == Shipped(DeploymentCaused)
<1>1. ASSUME NEW priority, NEW trigger, NEW effects
      PROVE  /\ AsShipped(Seed("deploy-before-errors", priority,
                               <<"deployment_events", logs, "alert_events">>, trigger,
                               {}, {}, effects))
             /\ AsShipped(Seed("deploy-after-incident", priority,
                               <<"deployment_events", "alert_events", logs>>, trigger,
                               {"deploy-before-errors"}, {}, effects))
             /\ AsShipped(Seed("rollback-restored-service", priority,
                               <<"deployment_events", "metrics">>, trigger,
                               {"deploy-before-errors"}, {}, effects))
  BY SeedShipped DEF AsDeclared
<1> QED  BY <1>1 DEF Shipped, DeploymentCaused

LEMMA ConfigurationShipped == Shipped(ConfigurationChange)
  BY SeedShipped DEF Shipped, AsDeclared, ConfigurationChange

LEMMA RestartShipped == Shipped(ResourceExhaustion)
  BY SeedShipped, TriggeredShipped DEF Shipped, AsDeclared, ResourceExhaustion

LEMMA DatabaseShipped == Shipped(DatabaseSaturation) /\ Shipped(LockContention)
  BY SeedShipped, TriggeredShipped DEF Shipped, AsDeclared, DatabaseSaturation, LockContention

LEMMA NetworkShipped == Shipped(NetworkFailure)
  BY SeedShipped DEF Shipped, AsDeclared, NetworkFailure

LEMMA RetryShipped == Shipped(RetryStorm)
  BY SeedShipped DEF Shipped, AsDeclared, RetryStorm

(* The archetypes with one triggered question each.                        *)
LEMMA SingleShipped ==
  ASSUME NEW seeds \in {DNSFailure, CertificateExpiry, DependencyFailure, PerformanceRegression, ExternalOutage,
                     AuthFailure, HumanError, CapacityPlanning, SecurityIncident,
                     InfrastructureFailure, KubernetesFailure, ContainerFailure, StorageFailure,
                     CacheFailure, MessagingFailure, LoadBalancerFailure, APIContractFailure,
                     DataCorruption, ClockFailure, FeatureFlagFailure, RegionalFailure,
                     DRFailoverFailure, ObservabilityFailure}
  PROVE  Shipped(seeds)
  BY TriggeredShipped
  DEF Shipped, DNSFailure, CertificateExpiry, DependencyFailure, PerformanceRegression, ExternalOutage,
      AuthFailure, HumanError, CapacityPlanning, SecurityIncident, InfrastructureFailure,
      KubernetesFailure, ContainerFailure, StorageFailure, CacheFailure, MessagingFailure,
      LoadBalancerFailure, APIContractFailure, DataCorruption, ClockFailure,
      FeatureFlagFailure, RegionalFailure, DRFailoverFailure, ObservabilityFailure

LEMMA TextShipped == Shipped(TimelinePlaybook) /\ Shipped(BlastRadiusPlaybook)
  BY SeedShipped DEF Shipped, AsDeclared, TimelinePlaybook, BlastRadiusPlaybook

LEMMA RegistryShipped ==
  Shipped(DefaultRegistry \union TimelinePlaybook \union BlastRadiusPlaybook)
<1>1. \A seeds \in {DeploymentCaused, DatabaseSaturation, LockContention, ConfigurationChange,
                    NetworkFailure, ResourceExhaustion, RetryStorm} : Shipped(seeds)
  BY DeploymentShipped, DatabaseShipped, ConfigurationShipped, NetworkShipped, RestartShipped,
     RetryShipped
<1>2. Shipped(DefaultRegistry)
  BY <1>1, SingleShipped DEF Shipped, DefaultRegistry
<1> QED  BY <1>2, TextShipped DEF Shipped

(* What Playbooks says of a question.                                      *)
LEMMA PlaybookOf ==
  ASSUME NEW q \in Question
  PROVE  Playbooks[q].id = q /\ AsShipped(Playbooks[q])
<1> DEFINE seeds == DefaultRegistry \union TimelinePlaybook \union BlastRadiusPlaybook
<1>1. Playbooks = [x \in Ids(seeds) |-> CHOOSE seed \in seeds : seed.id = x]
  BY DEF Playbooks, ById
<1>2. Shipped(seeds)
  BY RegistryShipped
<1> HIDE DEF seeds
<1>3. q \in Ids(seeds)
  BY <1>1, SliceAssumption DEF SliceAssumption
<1>4. \E seed \in seeds : seed.id = q
  BY <1>3 DEF Ids
<1>5. Playbooks[q] \in seeds /\ Playbooks[q].id = q
  BY <1>1, <1>3, <1>4
<1> QED  BY <1>2, <1>5 DEF Shipped

-----------------------------------------------------------------------------
(* The parameters of the protocol engine.                                  *)
LEMMA DependenciesShipped ==
  /\ "pods-restarted" \in Question =>
       "config-changed" \in Question /\ DependsOn["pods-restarted"] = {"config-changed"}
  /\ "traffic-shifted" \in Question =>
       "pods-restarted" \in Question /\ DependsOn["traffic-shifted"] = {"pods-restarted"}
  /\ "rollback-restored-service" \in Question =>
       /\ "deploy-before-errors" \in Question
       /\ DependsOn["rollback-restored-service"] = {"deploy-before-errors"}
<1>1. \A q \in Question : DependsOn[q] = Playbooks[q].dependsOn \intersect Question
  BY FollowsPlaybooks DEF FollowsPlaybooks, PlaybookDependsOn
<1>2. \A q \in Question : Playbooks[q].dependsOn \subseteq Question
  BY SliceAssumption DEF SliceAssumption
<1>3. ASSUME NEW q \in Question, NEW d,
             AsShipped(Playbooks[q]) => Playbooks[q].dependsOn = {d}
      PROVE  d \in Question /\ DependsOn[q] = {d}
  BY <1>1, <1>2, <1>3, PlaybookOf
<1> QED  BY <1>3, PlaybookOf DEF AsShipped, AsDeclared

LEMMA GenerationShipped ==
  ASSUME NEW parent \in Question
  PROVE  /\ "pods-restarted" \in Generates[parent]  => parent = "config-changed"
         /\ "traffic-shifted" \in Generates[parent] => parent = "pods-restarted"
         /\ "rollback-restored-service" \notin Generates[parent]
<1>1. Generates[parent] = Playbooks[parent].generates \intersect Question
  BY FollowsPlaybooks DEF FollowsPlaybooks, PlaybookGenerates
<1> QED  BY <1>1, PlaybookOf DEF AsShipped, AsDeclared

LEMMA RequirementsShipped ==
  /\ "config-changed" \in Question => "configuration_changes" \in Requires["config-changed"]
  /\ "deploy-before-errors" \in Question =>
       "deployment_events" \in Requires["deploy-before-errors"]
<1>1. ASSUME NEW q \in Question
      PROVE  Requires[q] = {Playbooks[q].requires[i] : i \in DOMAIN Playbooks[q].requires}
  BY FollowsPlaybooks DEF FollowsPlaybooks, PlaybookRequires, ToSet
<1> QED  BY <1>1, PlaybookOf DEF AsShipped, AsDeclared

LEMMA VerdictShipped ==
  ASSUME NEW q \in Question, NEW E \in SUBSET Evidence
  PROVE  Verdict[q][E] = ResolutionRule(q, E)
<1>1. Verdict = PlaybookVerdict
  BY FollowsPlaybooks DEF FollowsPlaybooks
<1>2. Verdict[q] = [F \in SUBSET Evidence |-> ResolutionRule(q, F)]
  BY <1>1 DEF PlaybookVerdict
<1> QED  BY <1>2

LEMMA RulesShipped ==
  ASSUME NEW E \in SUBSET Evidence
  PROVE  /\ ResolutionRule("config-changed", E) = ConfigChanged(E)
         /\ ResolutionRule("deploy-before-errors", E) = DeployBeforeErrors(E)
         /\ ResolutionRule("rollback-restored-service", E) = FirstOf(Recoveries(E) # {}, FALSE)
  BY DEF ResolutionRule

-----------------------------------------------------------------------------
(* The rules on the evidence.                                              *)
LEMMA FirstOfCases ==
  ASSUME NEW a \in BOOLEAN, NEW b \in BOOLEAN
  PROVE  /\ FirstOf(a, b) = "confirmed" => a
         /\ FirstOf(a, b) = "rejected" => ~a /\ b
  BY DEF FirstOf

LEMMA ConfirmedOnChange ==
  ASSUME NEW E \in SUBSET Evidence, ConfigChanged(E) = "confirmed",
         "configuration_changes" \in HeldCategories(E)
  PROVE  \E e \in E : CategoryOf[e] = "configuration_changes" /\ e \notin Negates
<1>1. ~AllConfigurationEvidenceRuledOut(E)
  BY DEF ConfigChanged
<1>2. OfCategory(E, "configuration_changes") # {}
  BY DEF HeldCategories, OfCategory
<1> QED  BY <1>1, <1>2 DEF AllConfigurationEvidenceRuledOut, OfCategory, EvidenceRulesOutConfig

LEMMA EarliestOf ==
  ASSUME NEW S \in SUBSET Evidence, S # {}
  PROVE  /\ \E e \in S : At[e] = Earliest(S)
         /\ \A e \in S : Earliest(S) <= At[e]
<1>1. IsFiniteSet(S)
  BY SliceAssumption, FS_Subset DEF SliceAssumption
<1>2. [e \in S |-> At[e]] \in [S -> Int]
  BY SignalsAssumption DEF SignalsAssumption
<1>3. PICK first \in S : \A e \in S : At[first] <= At[e]
  BY <1>1, <1>2, LeastValue
<1> DEFINE T == {At[e] : e \in S}
<1>4. Earliest(S) = CHOOSE t \in T : \A e \in S : t <= At[e]
  BY DEF Earliest
<1>5. At[first] \in T /\ \A e \in S : At[first] <= At[e]
  BY <1>3
<1>6. Earliest(S) \in T /\ \A e \in S : Earliest(S) <= At[e]
  <2> HIDE DEF T
  <2> QED  BY <1>4, <1>5
<1> QED  BY <1>6

LEMMA BlameGrounded ==
  ASSUME NEW E \in SUBSET Evidence, DeployBeforeErrors(E) = "confirmed",
         "deployment_events" \in HeldCategories(E)
  PROVE  /\ \E d \in Deployments(E) : \A s \in Symptoms(E) : At[d] <= At[s]
         /\ \E d \in E : CategoryOf[d] = "deployment_events" /\ d \notin Negates
<1>1. ~AllDeploymentEvidenceRuledOut(E) /\ DeployBeforeIncident(E)
  BY FirstOfCases DEF DeployBeforeErrors, DeployBeforeIncident, DeployAfterIncident, Ordered
<1>2. \E d \in E : CategoryOf[d] = "deployment_events" /\ d \notin Negates
  BY <1>1 DEF HeldCategories, AllDeploymentEvidenceRuledOut, OfCategory, EvidenceRulesOutDeploy
<1>3. /\ Deployments(E) \in SUBSET Evidence /\ Deployments(E) # {}
      /\ Symptoms(E) \in SUBSET Evidence /\ Symptoms(E) # {}
      /\ Earliest(Deployments(E)) <= Earliest(Symptoms(E))
  BY <1>1 DEF DeployBeforeIncident, Ordered, Deployments, Symptoms
<1>4. PICK d \in Deployments(E) : At[d] = Earliest(Deployments(E))
  BY <1>3, EarliestOf
<1>5. \A s \in Symptoms(E) : Earliest(Symptoms(E)) <= At[s]
  BY <1>3, EarliestOf
<1>6. PICK s \in Symptoms(E) : At[s] = Earliest(Symptoms(E))
  BY <1>3, EarliestOf
<1>7. \A e \in Evidence : At[e] \in Int
  BY SignalsAssumption DEF SignalsAssumption
<1>8. \A x \in Symptoms(E) : At[d] <= At[x]
  BY <1>3, <1>4, <1>5, <1>6, <1>7
<1> QED  BY <1>2, <1>8

LEMMA ClearanceGrounded ==
  ASSUME NEW E \in SUBSET Evidence, DeployBeforeErrors(E) = "rejected"
  PROVE  \/ \A d \in E : CategoryOf[d] = "deployment_events" => d \in Negates
         \/ \E s \in Symptoms(E) : \A d \in Deployments(E) : At[s] < At[d]
<1>1. CASE AllDeploymentEvidenceRuledOut(E)
  BY <1>1 DEF AllDeploymentEvidenceRuledOut, OfCategory, EvidenceRulesOutDeploy
<1>2. CASE DeployAfterIncident(E)
  <2>1. /\ Deployments(E) \in SUBSET Evidence /\ Deployments(E) # {}
        /\ Symptoms(E) \in SUBSET Evidence /\ Symptoms(E) # {}
        /\ Earliest(Deployments(E)) > Earliest(Symptoms(E))
    BY <1>2 DEF DeployAfterIncident, Ordered, Deployments, Symptoms
  <2>2. PICK s \in Symptoms(E) : At[s] = Earliest(Symptoms(E))
    BY <2>1, EarliestOf
  <2>3. \A d \in Deployments(E) : Earliest(Deployments(E)) <= At[d]
    BY <2>1, EarliestOf
  <2>4. PICK d \in Deployments(E) : At[d] = Earliest(Deployments(E))
    BY <2>1, EarliestOf
  <2>5. \A e \in Evidence : At[e] \in Int
    BY SignalsAssumption DEF SignalsAssumption
  <2>6. \A x \in Deployments(E) : At[s] < At[x]
    BY <2>1, <2>2, <2>3, <2>4, <2>5
  <2> QED  BY <2>6
<1> QED  BY <1>1, <1>2, FirstOfCases
         DEF DeployBeforeErrors, DeployBeforeIncident, DeployAfterIncident, Ordered

-----------------------------------------------------------------------------
(* Verdicts on record.  As long as no host proposes plan actions, every    *)
(* settled question has a verdict in the history.                          *)
OnRecord(p) == \A q \in Question : p.status[q] \in Settled => p.history[q] # << >>

LEMMA AdmitOnRecord ==
  ASSUME NEW p \in Plan, OnRecord(p), NEW Q \in SUBSET Question
  PROVE  OnRecord(Admit(p, Q))
  BY AdmitKeeps DEF OnRecord, Settled

LEMMA AskedOnRecordAfter ==
  ASSUME NEW p \in Plan, Agree(p), OnRecord(p), NEW E \in SUBSET Evidence
  PROVE  OnRecord(AskedAfter(p, E))
<1> DEFINE ensured == EnsureQuestions(p)
           Q == {q \in Question : /\ ensured.status[q] = "absent"
                                  /\ \/ /\ q \in Dynamic
                                        /\ Fires[q][E]
                                        /\ DependenciesMet(ensured, q)
                                     \/ \E parent \in Question : q \in GeneratedBy(ensured, parent)}
<1>1. ensured \in Plan
  BY EnsureAdvances DEF Advances
<1>2. OnRecord(ensured)
  BY AdmitOnRecord DEF EnsureQuestions
<1>3. AskedAfter(p, E) = Admit(ensured, Q) /\ Q \in SUBSET Question
  BY DEF AskedAfter, GenerateDynamicQuestions
<1> HIDE DEF ensured, Q
<1> QED  BY <1>1, <1>2, <1>3, AdmitOnRecord

LEMMA ResolvedOnRecord ==
  ASSUME NEW p \in Plan, OnRecord(p), NEW E \in SUBSET Evidence
  PROVE  OnRecord(ResolveQuestions(p, E))
<1> DEFINE r == ResolveQuestions(p, E)
<1> SUFFICES ASSUME NEW q \in Question, r.status[q] \in Settled
             PROVE  r.history[q] # << >>
  BY DEF OnRecord
<1>1. CASE Conclusive(p, q, E)
  <2>1. r.history[q] = Append(p.history[q], Resolve(p, q, E))
    BY <1>1 DEF ResolveQuestions, Plan
  <2>2. p.history[q] \in Seq(Outcome) /\ Resolve(p, q, E) \in Outcome
    BY <1>1 DEF Conclusive, Plan
  <2> QED  BY <2>1, <2>2
<1>2. CASE ~Conclusive(p, q, E)
  <2>1. r.history[q] = p.history[q]
    BY <1>2 DEF ResolveQuestions, Plan
  <2>2. r.status[q] = IF p.status[q] \in Open THEN PartialStatus(p, q, E) ELSE p.status[q]
    BY <1>2 DEF ResolveQuestions, Plan
  <2>3. PartialStatus(p, q, E) \in Settled => PartialStatus(p, q, E) = p.status[q]
    BY DEF PartialStatus, Settled
  <2> QED  BY <2>1, <2>2, <2>3 DEF OnRecord
<1> QED  BY <1>1, <1>2

LEMMA RunOnRecord ==
  ASSUME NEW p \in Plan, Agree(p), OnRecord(p), NEW E \in SUBSET Evidence,
         NEW r \in ProtocolRuns(p, E)
  PROVE  OnRecord(r)
<1> DEFINE asked    == AskedAfter(p, E)
           resolved == ResolveQuestions(asked, E)
           again    == AskedAfter(resolved, E)
<1>1. r \in SyncEvidenceRequests(again, E)
  BY DEF ProtocolRuns
<1>2. asked \in Plan /\ Agree(asked) /\ OnRecord(asked)
  BY AskedAfterAdvances, AskedOnRecordAfter DEF Advances
<1>3. resolved \in Plan /\ Agree(resolved) /\ OnRecord(resolved)
  BY <1>2, ResolveAdvances, ResolvedOnRecord DEF Advances
<1>4. again \in Plan /\ OnRecord(again)
  BY <1>3, AskedAfterAdvances, AskedOnRecordAfter DEF Advances
<1> HIDE DEF asked, resolved, again
<1> QED  BY <1>1, <1>4, SyncKeeps DEF OnRecord

LEMMA SilentHost ==
  ASSUME HostSilent, NEW p, NEW E, NEW m \in ReasoningOutcomes(p, E)
  PROVE  m = Proposed(p, FALSE)
  BY DEF HostSilent, ReasoningOutcomes

(* Every question asked was unlocked by confirmations that are on record.  *)
Unlocked(q) ==
  \/ \A d \in DependsOn[q] : Recorded(d, "confirmed")
  \/ \E parent \in Question : q \in Generates[parent] /\ Recorded(parent, "confirmed")

AskedOnRecord == \A q \in Question : plan.status[q] # "absent" => Unlocked(q)

(* What was confirmed by evidence alone still has that evidence.           *)
ConfirmedGrounded ==
  /\ "config-changed" \in Question /\ Recorded("config-changed", "confirmed") =>
       \E e \in evidence : CategoryOf[e] = "configuration_changes" /\ e \notin Negates
  /\ "rollback-restored-service" \in Question
       /\ Recorded("rollback-restored-service", "confirmed") => Recoveries(evidence) # {}

ChainInv ==
  /\ PlanInv
  /\ HostSilent => plan.bare = {} /\ OnRecord(plan) /\ AskedOnRecord
  /\ ClientSilent => ConfirmedGrounded

-----------------------------------------------------------------------------
(* Histories only grow.                                                    *)
LEMMA HistoryStep ==
  ASSUME Inv, [Next]_vars, NEW q \in Question
  PROVE  \/ plan'.history[q] = plan.history[q]
         \/ \E o \in Outcome : plan'.history[q] = Append(plan.history[q], o)
<1>1. plan \in Plan /\ Agree(plan) /\ plan.history[q] \in Seq(Outcome)
  BY RecordsAgreeIsAgree DEF Inv, TypeOK, Plan
<1>2. CASE Advances(plan, plan')
  <2>1. FirstVerdict(plan, plan', q)
    BY <1>2 DEF Advances
  <2>2. \A o : Append(<< >>, o) = <<o>>
    OBVIOUS
  <2> QED  BY <2>1, <2>2 DEF FirstVerdict
<1>3. ASSUME NEW u \in Question, NEW outcome \in Outcome, ResolveQuestion(u, outcome)
      PROVE  \/ plan'.history[q] = plan.history[q]
             \/ \E o \in Outcome : plan'.history[q] = Append(plan.history[q], o)
  <2>1. plan' = ClientResolve(plan, u, outcome)
    BY <1>3 DEF ResolveQuestion
  <2>2. plan'.history = [plan.history EXCEPT ![u] = Append(@, outcome)]
    BY <1>1, <2>1, ClientResolveEffect
  <2>3. plan.history \in [Question -> Seq(Outcome)]
    BY <1>1 DEF Plan
  <2> QED  BY <2>2, <2>3
<1> QED  BY <1>2, <1>3, StepAdvances

LEMMA RecordedStays ==
  ASSUME Inv, [Next]_vars, NEW q \in Question, NEW outcome, Recorded(q, outcome)
  PROVE  Recorded(q, outcome)'
<1>1. plan.history[q] \in Seq(Outcome)
  BY DEF Inv, TypeOK, Plan
<1>2. PICK i \in DOMAIN plan.history[q] : plan.history[q][i] = outcome
  BY DEF Recorded
<1>3. CASE plan'.history[q] = plan.history[q]
  BY <1>2, <1>3 DEF Recorded
<1>4. ASSUME NEW o \in Outcome, plan'.history[q] = Append(plan.history[q], o)
      PROVE  Recorded(q, outcome)'
  <2>1. i \in DOMAIN plan'.history[q] /\ plan'.history[q][i] = outcome
    BY <1>1, <1>2, <1>4
  <2> QED  BY <2>1 DEF Recorded
<1> QED  BY <1>3, <1>4, HistoryStep

(* A verdict on record that was not there before was given in this step.   *)
LEMMA RecordedFresh ==
  ASSUME Inv, Inv', [Next]_vars, NEW q \in Question, NEW outcome,
         ~Recorded(q, outcome), Recorded(q, outcome)'
  PROVE  plan'.history[q] # plan.history[q] /\ plan'.resolution[q] = outcome
<1>1. plan.history[q] \in Seq(Outcome)
  BY DEF Inv, TypeOK, Plan
<1>2. plan'.history[q] # plan.history[q]
  BY DEF Recorded
<1>3. PICK o \in Outcome : plan'.history[q] = Append(plan.history[q], o)
  BY <1>2, HistoryStep
<1>4. PICK i \in DOMAIN plan'.history[q] : plan'.history[q][i] = outcome
  BY DEF Recorded
<1>5. i = Len(plan.history[q]) + 1
  <2>1. i \in 1 .. Len(plan.history[q]) + 1
    BY <1>1, <1>3, <1>4
  <2>2. i \in DOMAIN plan.history[q] => plan.history[q][i] = outcome
    BY <1>1, <1>3, <1>4
  <2>3. i \notin DOMAIN plan.history[q]
    BY <2>2 DEF Recorded
  <2> QED  BY <1>1, <2>1, <2>3
<1>6. o = outcome
  BY <1>1, <1>3, <1>4, <1>5
<1>7. plan'.resolution[q] = o
  <2>1. plan'.history[q] # << >> /\ plan'.history[q][Len(plan'.history[q])] = o
    BY <1>1, <1>3
  <2> QED  BY <2>1 DEF Inv, RecordsAgree
<1> QED  BY <1>2, <1>6, <1>7

(* An answered question with its verdict on record was confirmed.          *)
LEMMA ConfirmedLogged ==
  ASSUME NEW p \in Plan, Agree(p), NEW q \in Question,
         \/ p.resolution[q] = "confirmed"
         \/ OnRecord(p) /\ p.status[q] = "answered"
  PROVE  \E i \in DOMAIN p.history[q] : p.history[q][i] = "confirmed"
<1>1. p.history[q] \in Seq(Outcome) /\ p.history[q] # << >>
  BY DEF Plan, Agree, OnRecord, Settled
<1>2. /\ p.resolution[q] = p.history[q][Len(p.history[q])]
      /\ p.status[q] = StatusFor(p.resolution[q])
  BY <1>1 DEF Agree
<1>3. p.resolution[q] = "confirmed"
  BY <1>2 DEF StatusFor
<1>4. Len(p.history[q]) \in DOMAIN p.history[q]
  BY <1>1
<1> QED  BY <1>2, <1>3, <1>4

LEMMA AnsweredRecorded ==
  ASSUME Inv, OnRecord(plan), NEW q \in Question, plan.status[q] = "answered"
  PROVE  Recorded(q, "confirmed")
  BY ConfirmedLogged, RecordsAgreeIsAgree DEF Inv, TypeOK, Recorded

(* A new entry in the history leaves a verdict.                            *)
LEMMA LoggedOutcome ==
  ASSUME Inv, Inv', [Next]_vars, NEW q \in Question, plan'.history[q] # plan.history[q]
  PROVE  plan'.resolution[q] \in Outcome
<1>1. plan.history[q] \in Seq(Outcome)
  BY DEF Inv, TypeOK, Plan
<1>2. PICK o \in Outcome : plan'.history[q] = Append(plan.history[q], o)
  BY HistoryStep
<1>3. plan'.history[q] # << >> /\ plan'.history[q][Len(plan'.history[q])] = o
  BY <1>1, <1>2
<1> QED  BY <1>3 DEF Inv, RecordsAgree

LEMMA NoClientVerdict ==
  ASSUME Inv, ClientSilent, NEW q \in Question
  PROVE  ~ \E outcome \in Outcome : ResolveQuestion(q, outcome)
<1>1. plan.history[q] \in Seq(Outcome)
  BY DEF Inv, TypeOK, Plan
<1>2. Len(plan.history[q]) \in Nat
  BY <1>1
<1> QED  BY <1>2 DEF ResolveQuestion, ClientSilent

LEMMA EvidenceGrows ==
  ASSUME [Next]_vars
  PROVE  evidence \subseteq evidence'
  BY DEF Next, Start, SubmitBatch, SubmitTorn, Get, ResolveQuestion, FinishOpen, FinishAgain, vars

-----------------------------------------------------------------------------
(* The invariants step by step.                                            *)
LEMMA OnRecordStep ==
  ASSUME PlanInv, PlanInv', [Next]_vars, HostSilent, plan.bare = {}, OnRecord(plan)
  PROVE  plan'.bare = {} /\ OnRecord(plan')
<1>1. plan \in Plan /\ Agree(plan) /\ evidence' \in SUBSET Evidence
  BY RecordsAgreeIsAgree DEF PlanInv, Inv, TypeOK
<1>2. CASE Recomputed
  <2>1. PICK m \in ReasoningOutcomes(plan, evidence') : plan' \in ProtocolRuns(m.plan, evidence')
    BY <1>2 DEF Recomputed
  <2>2. m.plan = plan
    BY <2>1, SilentHost DEF Proposed
  <2> QED  BY <1>1, <2>1, <2>2, RunOnRecord, RunKeepsBare
<1>3. CASE plan' = plan
  BY <1>3
<1>4. ASSUME NEW u \in Question, NEW outcome \in Outcome, ResolveQuestion(u, outcome)
      PROVE  plan'.bare = {} /\ OnRecord(plan')
  <2>1. plan' = ClientResolve(plan, u, outcome)
    BY <1>4 DEF ResolveQuestion
  <2>2. plan'.bare = plan.bare /\ \A q \in Question \ {u} : plan'.status[q] = plan.status[q]
    BY <1>1, <2>1 DEF ClientResolve, Plan
  <2>3. plan'.history = [plan.history EXCEPT ![u] = Append(@, outcome)]
    BY <1>1, <2>1, ClientResolveEffect
  <2>4. plan.history \in [Question -> Seq(Outcome)]
    BY <1>1 DEF Plan
  <2>5. plan'.history[u] = Append(plan.history[u], outcome)
    BY <2>3, <2>4
  <2>6. plan'.history[u] # << >>
    BY <2>4, <2>5
  <2>7. \A q \in Question \ {u} : plan'.history[q] = plan.history[q]
    BY <2>3, <2>4
  <2> QED  BY <2>2, <2>6, <2>7 DEF OnRecord
<1> QED  BY <1>2, <1>3, <1>4, PlanSteps DEF PlanInv

LEMMA AskedOnRecordStep ==
  ASSUME PlanInv, PlanInv', [Next]_vars, AskedOnRecord, plan'.bare = {}, OnRecord(plan')
  PROVE  AskedOnRecord'
<1> SUFFICES ASSUME NEW q \in Question, plan'.status[q] # "absent"
             PROVE  Unlocked(q)'
  BY DEF AskedOnRecord
<1>1. CASE plan.status[q] # "absent"
  <2>1. CASE \A d \in DependsOn[q] : Recorded(d, "confirmed")
    <3>1. \A d \in DependsOn[q] : d \in Question
      BY PlaybookAssumption
    <3>2. \A d \in DependsOn[q] : Recorded(d, "confirmed")'
      BY <2>1, <3>1, RecordedStays DEF PlanInv
    <3> QED  BY <3>2 DEF Unlocked
  <2>2. ASSUME NEW parent \in Question, q \in Generates[parent], Recorded(parent, "confirmed")
        PROVE  Unlocked(q)'
    <3>1. Recorded(parent, "confirmed")'
      BY <2>2, RecordedStays DEF PlanInv
    <3> QED  BY <2>2, <3>1 DEF Unlocked
  <2> QED  BY <1>1, <2>1, <2>2 DEF AskedOnRecord, Unlocked
<1>2. plan' \in Plan /\ Agree(plan')
  BY DEF PlanInv, Inv, TypeOK, RecordsAgree, Agree
<1>3. CASE plan.status[q] = "absent"
  <2>1. Justified(plan', q)
    BY <1>3, UnlockStep
  <2>2. CASE DependenciesMet(plan', q)
    <3>1. \A d \in DependsOn[q] : d \in Question /\ plan'.status[d] = "answered"
      BY <2>2, PlaybookAssumption DEF DependenciesMet
    <3>2. \A d \in DependsOn[q] : Recorded(d, "confirmed")'
      BY <1>2, <3>1, ConfirmedLogged DEF Recorded
    <3> QED  BY <3>2 DEF Unlocked
  <2>3. ASSUME NEW parent \in Question, q \in GeneratedBy(plan', parent)
        PROVE  Unlocked(q)'
    <3>1. plan'.resolution[parent] = "confirmed" /\ q \in Generates[parent]
      BY <2>3 DEF GeneratedBy
    <3>2. Recorded(parent, "confirmed")'
      BY <1>2, <3>1, ConfirmedLogged DEF Recorded
    <3> QED  BY <3>1, <3>2 DEF Unlocked
  <2> QED  BY <2>1, <2>2, <2>3 DEF Justified
<1> QED  BY <1>1, <1>3

LEMMA GroundedStep ==
  ASSUME PlanInv, PlanInv', [Next]_vars, ClientSilent, ConfirmedGrounded
  PROVE  ConfirmedGrounded'
<1>1. evidence \subseteq evidence' /\ evidence' \in SUBSET Evidence
  BY EvidenceGrows DEF PlanInv, Inv, TypeOK
<1>2. ASSUME NEW q \in Question, ~Recorded(q, "confirmed"), Recorded(q, "confirmed")'
      PROVE  /\ ResolutionRule(q, evidence') = "confirmed"
             /\ Requires[q] \subseteq HeldCategories(evidence')
  <2>1. plan'.history[q] # plan.history[q] /\ plan'.resolution[q] = "confirmed"
    BY <1>2, RecordedFresh DEF PlanInv
  <2>2. ~ \E outcome \in Outcome : ResolveQuestion(q, outcome)
    BY NoClientVerdict DEF PlanInv
  <2> QED  BY <1>1, <2>1, <2>2, VerdictStep, VerdictShipped
<1>3. ASSUME "config-changed" \in Question, Recorded("config-changed", "confirmed")'
      PROVE  \E e \in evidence' : CategoryOf[e] = "configuration_changes" /\ e \notin Negates
  <2>1. CASE Recorded("config-changed", "confirmed")
    BY <1>1, <1>3, <2>1 DEF ConfirmedGrounded
  <2>2. CASE ~Recorded("config-changed", "confirmed")
    <3>1. ResolutionRule("config-changed", evidence') = "confirmed"
      BY <1>2, <1>3, <2>2
    <3>2. "configuration_changes" \in HeldCategories(evidence')
      BY <1>2, <1>3, <2>2, RequirementsShipped
    <3> QED  BY <1>1, <3>1, <3>2, RulesShipped, ConfirmedOnChange
  <2> QED  BY <2>1, <2>2
<1>4. ASSUME "rollback-restored-service" \in Question,
             Recorded("rollback-restored-service", "confirmed")'
      PROVE  Recoveries(evidence') # {}
  <2>1. CASE Recorded("rollback-restored-service", "confirmed")
    BY <1>1, <1>4, <2>1 DEF ConfirmedGrounded, Recoveries
  <2>2. CASE ~Recorded("rollback-restored-service", "confirmed")
    <3>1. ResolutionRule("rollback-restored-service", evidence') = "confirmed"
      BY <1>2, <1>4, <2>2
    <3> QED  BY <1>1, <3>1, RulesShipped, FirstOfCases
  <2> QED  BY <2>1, <2>2
<1> QED  BY <1>3, <1>4 DEF ConfirmedGrounded

LEMMA ChainInvHolds == Spec => []ChainInv
<1>1. Init => ChainInv
  <2> SUFFICES ASSUME Init PROVE ChainInv
    OBVIOUS
  <2>1. PlanInv
    BY InitPlanInv
  <2>2. /\ plan.bare = {}
        /\ \A q \in Question : plan.status[q] = "absent" /\ plan.history[q] = << >>
    BY DEF Init, EmptyPlan
  <2>3. OnRecord(plan) /\ AskedOnRecord
    BY <2>2 DEF OnRecord, AskedOnRecord, Settled
  <2>4. \A q \in Question : \A o : ~Recorded(q, o)
    BY <2>2 DEF Recorded
  <2> QED  BY <2>1, <2>2, <2>3, <2>4 DEF ChainInv, ConfirmedGrounded
<1>2. ChainInv /\ [Next]_vars => ChainInv'
  <2> SUFFICES ASSUME ChainInv, [Next]_vars PROVE ChainInv'
    OBVIOUS
  <2>1. PlanInv'
    BY PlanInvStep DEF ChainInv
  <2>2. HostSilent => plan'.bare = {} /\ OnRecord(plan') /\ AskedOnRecord'
    BY <2>1, OnRecordStep, AskedOnRecordStep DEF ChainInv
  <2>3. ClientSilent => ConfirmedGrounded'
    BY <2>1, GroundedStep DEF ChainInv
  <2> QED  BY <2>1, <2>2, <2>3 DEF ChainInv, OnRecord, HostSilent, ClientSilent
<1> QED  BY <1>1, <1>2, PTL DEF Spec

-----------------------------------------------------------------------------
(* No question of the configuration chain is asked before the one that     *)
(* leads to it was confirmed, whichever way and in whatever order the      *)
(* questions came into the plan, and although the confirmation may have    *)
(* been withdrawn since.                                                   *)
THEOREM ChainAlwaysInOrder == Spec => []ChainInOrder
<1>1. ChainInv => ChainInOrder
  BY DependenciesShipped, GenerationShipped
     DEF ChainInv, AskedOnRecord, Unlocked, ChainInOrder
<1> QED  BY <1>1, ChainInvHolds, PTL

(* A session all of whose configuration items deny a change never takes    *)
(* the configuration chain beyond its first question.                      *)
THEOREM RuledOutAlwaysStopsChain == Spec => []RuledOutStopsChain
<1>1. ChainInv => RuledOutStopsChain
  <2> SUFFICES ASSUME ChainInv, Unassisted, AllConfigurationEvidenceRuledOut(evidence)
               PROVE  /\ "config-changed" \in Question => plan.status["config-changed"] # "answered"
                      /\ "pods-restarted" \in Question => plan.status["pods-restarted"] = "absent"
    BY DEF RuledOutStopsChain
  <2>1. ~ \E e \in evidence : CategoryOf[e] = "configuration_changes" /\ e \notin Negates
    BY DEF AllConfigurationEvidenceRuledOut, OfCategory, EvidenceRulesOutConfig
  <2>2. "config-changed" \in Question => ~Recorded("config-changed", "confirmed")
    BY <2>1 DEF ChainInv, ConfirmedGrounded, Unassisted
  <2>3. "config-changed" \in Question => plan.status["config-changed"] # "answered"
    BY <2>2, AnsweredRecorded DEF ChainInv, PlanInv, Unassisted
  <2>4. "pods-restarted" \in Question => plan.status["pods-restarted"] = "absent"
    BY <2>2, DependenciesShipped, GenerationShipped
       DEF ChainInv, AskedOnRecord, Unlocked, Unassisted
  <2> QED  BY <2>3, <2>4
<1> QED  BY <1>1, ChainInvHolds, PTL

(* Whether a rollback helped is asked only after a deployment was blamed,  *)
(* and answered from evidence only with a recovery at hand.                *)
THEOREM RollbackAlwaysJudgedOnBlame == Spec => []RollbackJudgedOnBlame
<1>1. ChainInv => RollbackJudgedOnBlame
  <2> DEFINE q == "rollback-restored-service"
  <2> SUFFICES ASSUME ChainInv, HostSilent, q \in Question, plan.status[q] # "absent"
               PROVE  /\ Recorded("deploy-before-errors", "confirmed")
                      /\ ClientSilent /\ plan.status[q] = "answered" => Recoveries(evidence) # {}
    BY DEF RollbackJudgedOnBlame
  <2>1. Recorded("deploy-before-errors", "confirmed")
    BY DependenciesShipped, GenerationShipped DEF ChainInv, AskedOnRecord, Unlocked
  <2>2. plan.status[q] = "answered" => Recorded(q, "confirmed")
    BY AnsweredRecorded DEF ChainInv, PlanInv
  <2> QED  BY <2>1, <2>2 DEF ChainInv, ConfirmedGrounded
<1> QED  BY <1>1, ChainInvHolds, PTL

(* A recompute blames or clears a deployment only on the order in time of  *)
(* the deployments and symptoms it knows of, or on denials, whatever order *)
(* they arrived in.                                                        *)
THEOREM DeployVerdictAlwaysGrounded == Spec => DeployVerdictGrounded
<1> DEFINE Grounded ==
      \A q \in Question \intersect {"deploy-before-errors"} :
        plan'.history[q] # plan.history[q] /\ ClientSilent =>
          LET landed   == {d \in evidence' : IsDeployment(d)}
              suffered == {s \in evidence' : ~IsRecovery(s) /\ LooksLikeSymptom(s)}
          IN  CASE plan'.resolution[q] = "confirmed" ->
                     /\ \E d \in landed : \A s \in suffered : At[d] <= At[s]
                     /\ \E d \in evidence' : /\ CategoryOf[d] = "deployment_events"
                                             /\ d \notin Negates
                [] plan'.resolution[q] = "rejected" ->
                     \/ \A d \in evidence' :
                          CategoryOf[d] = "deployment_events" => d \in Negates
                     \/ \E s \in suffered : \A d \in landed : At[s] < At[d]
<1>1. PlanInv /\ PlanInv' /\ [Next]_vars => [Grounded]_vars
  <2> DEFINE q == "deploy-before-errors"
  <2> SUFFICES ASSUME PlanInv, PlanInv', [Next]_vars, q \in Question,
                      plan'.history[q] # plan.history[q], ClientSilent
               PROVE  Grounded
    OBVIOUS
  <2>1. evidence' \in SUBSET Evidence
    BY DEF PlanInv, Inv, TypeOK
  <2>2. ~ \E outcome \in Outcome : ResolveQuestion(q, outcome)
    BY NoClientVerdict DEF PlanInv
  <2>3. /\ plan'.resolution[q] = DeployBeforeErrors(evidence')
        /\ "deployment_events" \in HeldCategories(evidence')
    <3>1. /\ plan'.resolution[q] = Verdict[q][evidence']
          /\ Requires[q] \subseteq HeldCategories(evidence')
      BY <2>2, VerdictStep
    <3>2. Verdict[q][evidence'] = DeployBeforeErrors(evidence')
      BY <2>1, VerdictShipped, RulesShipped
    <3> QED  BY <3>1, <3>2, RequirementsShipped
  <2>4. plan'.resolution[q] \in {"confirmed", "rejected"}
    BY LoggedOutcome DEF PlanInv, Outcome
  <2>5. plan'.resolution[q] = "confirmed" =>
          /\ \E d \in Deployments(evidence') : \A s \in Symptoms(evidence') : At[d] <= At[s]
          /\ \E d \in evidence' : CategoryOf[d] = "deployment_events" /\ d \notin Negates
    BY <2>1, <2>3, BlameGrounded
  <2>6. plan'.resolution[q] = "rejected" =>
          \/ \A d \in evidence' : CategoryOf[d] = "deployment_events" => d \in Negates
          \/ \E s \in Symptoms(evidence') : \A d \in Deployments(evidence') : At[s] < At[d]
    BY <2>1, <2>3, ClearanceGrounded
  <2> QED  BY <2>4, <2>5, <2>6 DEF Deployments, Symptoms
<1>2. DeployVerdictGrounded <=> [][Grounded]_vars
  BY DEF DeployVerdictGrounded
<1> QED  BY <1>1, <1>2, PlanInvHolds, PTL DEF Spec
=============================================================================

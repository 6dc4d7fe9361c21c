----------------------- MODULE RootCauseInvestigation -----------------------
(***************************************************************************)
(* An investigation that follows the shipped playbooks: the runtime of     *)
(* InvestigationRuntime with its playbook parameters taken from            *)
(* RootCausePlaybook.  The MC modules choose the questions and the items.  *)
(***************************************************************************)
EXTENDS InvestigationRuntime, RootCausePlaybook

ASSUME FollowsPlaybooks ==
  /\ Requires  = PlaybookRequires
  /\ Priority  = PlaybookPriority
  /\ DependsOn = PlaybookDependsOn
  /\ Generates = PlaybookGenerates
  /\ Dynamic   = PlaybookDynamic
  /\ Fires     = PlaybookFires
  /\ Verdict   = PlaybookVerdict

(* The questions are the playbooks' own, with whatever they depend on, and *)
(* a session holds finitely many items.                                    *)
ASSUME SliceAssumption ==
  /\ Question \subseteq DOMAIN Playbooks
  /\ \A q \in Question : Playbooks[q].dependsOn \subseteq Question
  /\ IsFiniteSet(Evidence)

Recorded(q, outcome) ==
  \E i \in DOMAIN plan.history[q] : plan.history[q][i] = outcome

(* No client overrules the playbook, no host proposes plan actions.        *)
ClientSilent == \A q \in Question : MaxResolutions[q] = 0
HostSilent   == Proposals = {}
Unassisted   == ClientSilent /\ HostSilent

-----------------------------------------------------------------------------
(* Deployment questions.                                                   *)

(* A recompute blames a deployment only if some deployment nobody denied   *)
(* is no later than every symptom known by then, and clears it only if     *)
(* every item filed as one denies it or some symptom is earlier than all   *)
(* deployments; whatever order the evidence arrived in (resolution.go,     *)
(* signals.go).                                                            *)
DeployVerdictGrounded ==
  [][\A q \in Question \intersect {"deploy-before-errors"} :
       plan'.history[q] # plan.history[q] /\ ClientSilent =>
         LET landed   == {d \in evidence' : IsDeployment(d)}
             suffered == {s \in evidence' : ~IsRecovery(s) /\ LooksLikeSymptom(s)}
         IN  CASE plan'.resolution[q] = "confirmed" ->
                    /\ \E d \in landed : \A s \in suffered : At[d] <= At[s]
                    /\ \E d \in evidence' : /\ CategoryOf[d] = "deployment_events"
                                            /\ d \notin Negates
               [] plan'.resolution[q] = "rejected" ->
                    \/ \A d \in evidence' :
                         CategoryOf[d] = "deployment_events" => d \in Negates
                    \/ \E s \in suffered : \A d \in landed : At[s] < At[d]]_vars

(* Whether a rollback restored service is only ever judged on a deployment *)
(* that was blamed, by a client if not by evidence, and on evidence alone  *)
(* only with a recovery in it.                                             *)
RollbackJudgedOnBlame ==
  HostSilent /\ "rollback-restored-service" \in Question =>
    LET q == "rollback-restored-service" IN
    plan.status[q] # "absent" =>
      /\ Recorded("deploy-before-errors", "confirmed")
      /\ ClientSilent /\ plan.status[q] = "answered" => Recoveries(evidence) # {}

(* Once everything the client has is submitted, a client that keeps        *)
(* reading gets the deployment question settled, and if the deployment is  *)
(* blamed, the two questions that hang on it as well.                      *)
DeploymentSettles ==
  (Live /\ evidence = Evidence) ~>
    /\ plan.status["deploy-before-errors"] \in Settled
    /\ plan.status["deploy-before-errors"] = "answered" =>
         /\ plan.status["deploy-after-incident"] \in Settled
         /\ plan.status["rollback-restored-service"] \in Settled

-----------------------------------------------------------------------------
(* Configuration chain: config-changed generates pods-restarted, which     *)
(* generates traffic-shifted; the latter two bypass their triggers.        *)

(* No question of the chain is asked before the one that leads to it was   *)
(* confirmed, at some time, by evidence or a client.                       *)
ChainInOrder ==
  HostSilent =>
    /\ "pods-restarted" \in Question /\ plan.status["pods-restarted"] # "absent" =>
         Recorded("config-changed", "confirmed")
    /\ "traffic-shifted" \in Question /\ plan.status["traffic-shifted"] # "absent" =>
         Recorded("pods-restarted", "confirmed")

(* As long as every configuration item the session holds denies a change,  *)
(* the chain stops at its first question, even if other evidence mentions  *)
(* configuration.                                                          *)
RuledOutStopsChain ==
  Unassisted /\ AllConfigurationEvidenceRuledOut(evidence) =>
    /\ "config-changed" \in Question => plan.status["config-changed"] # "answered"
    /\ "pods-restarted" \in Question => plan.status["pods-restarted"] = "absent"

-----------------------------------------------------------------------------
(* What the playbook's own texts lead a reader to expect; the runs on      *)
(* these show that the code does otherwise.                                *)

(* Healthy database capacity argues against saturation: not both.          *)
DatabaseVerdictsExclusive ==
  ~ /\ plan.resolution["database-healthy"] = "confirmed"
    /\ plan.resolution["database-saturated"] = "confirmed"

(* Without network symptoms in any item's text, network connectivity is    *)
(* not declared unhealthy.                                                 *)
QuietNetworkIsHealthy ==
  (\A e \in evidence : Says[e] \intersect {"dns", "network"} = {}) =>
    plan.resolution["network-healthy"] # "rejected"

(* Questions whose required evidence is all there get resolved.            *)
EvidenceResolvesQuestions ==
  \A q \in Question :
    (Live /\ plan.status[q] \in Open /\ Requires[q] \subseteq HeldCategories(evidence))
      ~> (plan.status[q] \in Settled)

=============================================================================

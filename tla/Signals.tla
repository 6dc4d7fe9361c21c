------------------------------ MODULE Signals ------------------------------
(***************************************************************************)
(* What internal/signals reads out of a set of evidence: keywords, the     *)
(* first deployment, the onset of the incident, a recovery, and explicit   *)
(* negative findings.  Text is abstracted to the keyword groups an item's  *)
(* summary, entity and payload match; the category's own name is part of   *)
(* the scanned text as well, see CategoryWords.                            *)
(***************************************************************************)
EXTENDS Integers, SequencesExt, EvidenceItems

CONSTANTS
  At,           (* timestamp of each item, in seconds                      *)
  Says,         (* keyword groups and markers the client's own text matches *)
  Negates,      (* items whose text or payload denies what their category   *)
                (* would record: "no deployment", config_changed: false     *)
  EntityOf,     (* the entity each item names, "" for none                  *)
  RowsAffected  (* rows_affected of an item's payload, -1 for none          *)

ASSUME SignalsAssumption == /\ At \in [Evidence -> Int]
                            /\ DOMAIN Says = Evidence
                            /\ Negates \subseteq Evidence
                            /\ DOMAIN EntityOf = Evidence
                            /\ RowsAffected \in [Evidence -> Int]

(* Haystack appends the category's name to the text before keywords are    *)
(* looked up, and four of the names contain a keyword.                     *)
CategoryWords(c) ==
  CASE c = "deployment_events"     -> {"deployment"}
    [] c = "configuration_changes" -> {"config"}
    [] c = "network_events"        -> {"network"}
    [] c = "database_events"       -> {"database"}
    [] OTHER                       -> {}

Haystack(e) == Says[e] \union CategoryWords(CategoryOf[e])

EvidenceRulesOutDeploy(e) == e \in Negates /\ CategoryOf[e] = "deployment_events"
EvidenceRulesOutConfig(e) == e \in Negates /\ CategoryOf[e] = "configuration_changes"

-----------------------------------------------------------------------------
(* Analyze.                                                                *)

(* A negative finding does not bring up its own subject.                   *)
WordsHeard(e) ==
  Haystack(e) \ ((IF EvidenceRulesOutDeploy(e) THEN {"deployment"} ELSE {})
                 \union (IF EvidenceRulesOutConfig(e) THEN {"config"} ELSE {}))

Keywords(E) == UNION {WordsHeard(e) : e \in E}

IsRecovery(e) == Haystack(e) \intersect {"rollback", "recovery"} # {}

(* The second disjunct also takes in a rollback filed under                *)
(* deployment_events: the category's name matches the keyword.             *)
IsDeployment(e) ==
  /\ ~EvidenceRulesOutDeploy(e)
  /\ \/ ~IsRecovery(e) /\ CategoryOf[e] = "deployment_events"
     \/ CategoryOf[e] # "configuration_changes" /\ "deployment" \in Haystack(e)

LooksLikeSymptom(e) ==
  CASE CategoryOf[e] = "alert_events" -> TRUE
    [] CategoryOf[e] \in {"application_logs", "metrics", "trace_events"} ->
         Haystack(e) \intersect {"error", "latency"} # {}
    [] CategoryOf[e] \in {"deployment_events", "configuration_changes"} -> FALSE
    [] OTHER -> "error" \in Haystack(e)

Deployments(E) == {e \in E : IsDeployment(e)}
Symptoms(E)    == {e \in E : ~IsRecovery(e) /\ LooksLikeSymptom(e)}
Recoveries(E)  == {e \in E : IsRecovery(e)}

Earliest(S) == CHOOSE t \in {At[e] : e \in S} : \A e \in S : t <= At[e]

(* The item a set is known by: FirstDeployment, IncidentOnset, Recovery.   *)
FirstAmong(S) == CHOOSE e \in S : At[e] = Earliest(S)

FirstOfKind(S) == IF S = {} THEN {} ELSE {FirstAmong(S)}

Ordered(E) == Deployments(E) # {} /\ Symptoms(E) # {}

DeployBeforeIncident(E) ==
  Ordered(E) /\ Earliest(Deployments(E)) <= Earliest(Symptoms(E))

DeployAfterIncident(E) ==
  Ordered(E) /\ Earliest(Deployments(E)) > Earliest(Symptoms(E))

-----------------------------------------------------------------------------
(* Negative findings over the whole session.                               *)

OfCategory(E, c) == {e \in E : CategoryOf[e] = c}

AllDeploymentEvidenceRuledOut(E) ==
  /\ OfCategory(E, "deployment_events") # {}
  /\ \A e \in OfCategory(E, "deployment_events") : EvidenceRulesOutDeploy(e)

AllConfigurationEvidenceRuledOut(E) ==
  /\ OfCategory(E, "configuration_changes") # {}
  /\ \A e \in OfCategory(E, "configuration_changes") : EvidenceRulesOutConfig(e)

HasAffirmativeConfigurationEvidence(E) ==
  \E e \in E : /\ ~EvidenceRulesOutConfig(e)
               /\ \/ CategoryOf[e] = "configuration_changes"
                  \/ "config" \in Haystack(e)

HasAffirmativeDeploymentEvidence(E) ==
  \E e \in OfCategory(E, "deployment_events") : ~EvidenceRulesOutDeploy(e)

(* EvidenceMatching a keyword group: the items whose text is in it, denied *)
(* or not.                                                                 *)
Mentioning(E, word) == {e \in E : word \in Haystack(e)}

-----------------------------------------------------------------------------
(* Database capacity, read from summaries.  "trouble" stands for a summary *)
(* with saturat, exhaust, timeout or error in it, "saturation" for text    *)
(* with saturat, exhaust, 100/100 or cpu 9.                                *)
HasCategoryError(E, c) == \E e \in OfCategory(E, c) : "trouble" \in Says[e]

HasSaturationMetrics(E) == \E e \in OfCategory(E, "metrics") : "saturation" \in Says[e]

(* The metrics of a database that is not saturated.                        *)
HealthyDatabaseItems(E) ==
  {e \in OfCategory(E, "metrics") :
     "database" \in Haystack(e) /\ Says[e] \intersect {"saturation", "cpu8"} = {}}

HealthyDatabaseMetrics(E) == HealthyDatabaseItems(E) # {}

(* The configuration that mentions a missing lock or statement timeout.    *)
MissingTimeoutItems(E) ==
  {e \in OfCategory(E, "configuration_changes") : "no_lock_timeout" \in Says[e]}

MissingLockTimeouts(E) == MissingTimeoutItems(E) # {}

-----------------------------------------------------------------------------
(* Lock queues: database events of one entity, cut into release windows by *)
(* a greedy scan, one window holding both a statement that changed rows    *)
(* and one that changed none.                                              *)
lockReleaseWindow == 2

(* The first item, then the first of the others, and so on; of items of    *)
(* one time a fixed one is first (the code goes by their ids).             *)
WithNext(seq, E) == Append(seq, FirstAmong(E \ ToSet(seq)))

SortedByTime(E) == FoldLeft(WithNext, << >>, [i \in 1 .. Cardinality(E) |-> E])

(* A window opens at the first event the one before it does not reach.     *)
ClusterByTimestamp(E) ==
  FoldLeft(LAMBDA clusters, e :
             IF clusters # << >> /\ At[e] - At[Head(Last(clusters))] <= lockReleaseWindow
               THEN Front(clusters) \o << Append(Last(clusters), e) >>
               ELSE Append(clusters, << e >>),
           << >>, SortedByTime(E))

Holders(cluster) == {e \in ToSet(cluster) : RowsAffected[e] > 0}
Waiters(cluster) == {e \in ToSet(cluster) : RowsAffected[e] = 0}

ByEntity(E) ==
  {{e \in OfCategory(E, "database_events") : EntityOf[e] = n} :
     n \in {EntityOf[e] : e \in OfCategory(E, "database_events")} \ {""}}

LockQueues(E) ==
  {c \in UNION {ToSet(ClusterByTimestamp(S)) : S \in ByEntity(E)} :
     Holders(c) # {} /\ Waiters(c) # {}}

LockPresent(E) == LockQueues(E) # {}

(* The queue reported is the earliest of its entity; between entities the  *)
(* code takes whichever the map yields first.                              *)
LockQueue(E) ==
  CHOOSE c \in LockQueues(E) : \A d \in LockQueues(E) : At[Head(c)] <= At[Head(d)]

=============================================================================

----------------------------- MODULE Heuristics -----------------------------
(***************************************************************************)
(* The heuristic engines of internal/engine for one session with the       *)
(* root-cause goal: planner, missing evidence and progress, coverage,      *)
(* contradictions, confidence, sufficiency, progress of the investigation. *)
(*                                                                         *)
(* Percentages are in tenths, as round1 leaves them; the code's floating   *)
(* point is taken as exact.                                                *)
(***************************************************************************)
EXTENDS HypothesisField

CONSTANTS
  Hints,    (* keyword groups the question and the service's name match    *)
  Echoes,   (* pairs <<first, later>> of items with one category, entity and *)
            (* summary under two ids                                       *)
  GoesWell  (* items whose text says success, completed or healthy         *)

ASSUME HeuristicsAssumption ==
  /\ Echoes \subseteq Evidence \X Evidence
  /\ GoesWell \subseteq Evidence

High == 3  Medium == 2  Low == 1      (* Priority.Weight                   *)

-----------------------------------------------------------------------------
(* HeuristicPlanner.Plan: the categories wanted and their weight, the      *)
(* strongest one asked for.                                                *)
Wanted(E) ==
  {<<"deployment_events", High>>, <<"application_logs", High>>,
   <<"alert_events", Medium>>, <<"metrics", Medium>>}
  \union (IF "database" \in Hints THEN {<<"database_events", High>>} ELSE {})
  \union (IF "latency" \in Hints THEN {<<"trace_events", Medium>>} ELSE {})
  \union (IF Deployments(E) # {}
            THEN {<<"configuration_changes", High>>, <<"trace_events", Medium>>} ELSE {})
  \union (IF Heard(E, "database") \/ Held(E, "metrics") THEN {<<"database_events", High>>} ELSE {})
  \union (IF Heard(E, "dns") \/ Heard(E, "network") THEN {<<"network_events", High>>} ELSE {})
  \union (IF Heard(E, "cert") THEN {<<"security_events", High>>} ELSE {})
  \union (IF Heard(E, "restart") \/ Heard(E, "memory")
            THEN {<<"infrastructure_events", Medium>>} ELSE {})
  \union (IF Symptoms(E) # {} THEN {<<"human_context", Low>>} ELSE {})

Required(E) ==
  [c \in {w[1] : w \in Wanted(E)} |-> Max({w[2] : w \in {v \in Wanted(E) : v[1] = c}})]

TotalWeight(required, C) ==
  SumFunction([c \in DOMAIN required |-> IF c \in C THEN required[c] ELSE 0])

Missing(E, required) == DOMAIN required \ HeldCategories(E)

Progress(E, required) ==
  IF DOMAIN required = {} THEN 0
  ELSE Rounded(1000 * TotalWeight(required, HeldCategories(E)),
               TotalWeight(required, DOMAIN required))

-----------------------------------------------------------------------------
(* Coverage: how deeply each category is represented.                      *)
GoalCategories == {"deployment_events", "application_logs", "alert_events", "metrics"}

Targets(E, required) ==
  [c \in GoalCategories \union DOMAIN required \union HeldCategories(E) |->
     CASE c \in GoalCategories                      -> High
       [] c \in DOMAIN required \ GoalCategories    -> required[c]
       [] OTHER                                     -> 1]

Coverage(E, required) ==
  LET target == Targets(E, required)
      Depth(c) == Min({Cardinality(OfCategory(E, c)), target[c]})
  IN  Rounded(SumFunction([c \in DOMAIN target |-> Rounded(1000 * Depth(c), target[c]) * target[c]]),
              TotalWeight(target, DOMAIN target))

-----------------------------------------------------------------------------
(* Contradictions, with the penalty their severity carries.  "reported" is *)
(* one of high severity that came from a reasoner.                         *)
Penalty(contradiction) ==
  CASE contradiction[1] \in {"deploy-after-incident", "reported"} -> 12
    [] contradiction[1] = "recovery-before-incident"              -> 6
    [] OTHER                                                      -> 3

Detect(E) ==
  (IF DeployAfterIncident(E) THEN {<<"deploy-after-incident">>} ELSE {})
  \union (IF /\ Recoveries(E) # {} /\ Symptoms(E) # {}
             /\ Earliest(Recoveries(E)) < Earliest(Symptoms(E))
            THEN {<<"recovery-before-incident">>} ELSE {})
  \union (IF /\ FirstOfKind(Deployments(E)) \intersect GoesWell # {}
             /\ Symptoms(E) # {} /\ ~Heard(E, "restart")
            THEN {<<"deploy-success-no-restart">>} ELSE {})
  \union {<<"duplicate", p[2]>> : p \in {e \in Echoes : {e[1], e[2]} \subseteq E}}

HasHighSeverity(contradictions) == \E c \in contradictions : Penalty(c) = 12

-----------------------------------------------------------------------------
(* HeuristicConfidenceScorer.Score.                                        *)
Share(hyps, rank) == IF rank \in DOMAIN hyps THEN hyps[rank].share ELSE 0

Corroboration(E, hyps) == Min({3, Cardinality(HeldCategories(hyps[1].support \intersect E))})

WellOrdered(E) ==
  DeployBeforeIncident(E) \/ (Symptoms(E) # {} /\ Recoveries(E) # {})

(* Thousandths of a point, before the collected share of the evidence      *)
(* scales them.                                                            *)
Base(E, hyps) ==
  45 * Share(hyps, 1) + 25 * (Share(hyps, 1) - Share(hyps, 2))
    + 5000 * Corroboration(E, hyps) + PointsIf(WellOrdered(E), 15000)

Score(E, hyps, contradictions, progress) ==
  IF hyps = << >> THEN 0
  ELSE Clamp(Rounded(Base(E, hyps) * (4000 + 6 * progress), 1000000)
               - 10 * SumFunction([c \in contradictions |-> Penalty(c)]), 0, 990)

-----------------------------------------------------------------------------
(* Sufficiency.                                                            *)
MinConfidence == 700
MinCoverage   == 650

BlockingQuestions(E, hyps) ==
  {b \in {"deploy-before-errors", "rollback-success", "database-health",
          "latency-before-retries", "hypothesis-separation"} :
     CASE b = "deploy-before-errors"   -> Deployments(E) # {} /\ Symptoms(E) = {}
       [] b = "rollback-success"       -> Recoveries(E) = {} /\ DeployBeforeIncident(E)
       [] b = "database-health"        -> Heard(E, "database") /\ ~Held(E, "database_events")
       [] b = "latency-before-retries" -> /\ Heard(E, "latency") /\ Heard(E, "retry")
                                          /\ ~Held(E, "metrics")
       [] b = "hypothesis-separation"  -> /\ Len(hyps) >= 2
                                          /\ hyps[1].share - hyps[2].share < 150}

Evaluate(E, hyps, contradictions, confidence, coverage) ==
  /\ E # {}
  /\ confidence >= MinConfidence
  /\ coverage >= MinCoverage
  /\ BlockingQuestions(E, hyps) = {}
  /\ ~HasHighSeverity(contradictions)

(* ComputeInvestigationProgress; five blocking questions at most keep the  *)
(* question factor above its floor of 0.2.                                 *)
InvestigationProgress(E, required, coverage, confidence, blocking) ==
  LET percent == Rounded(4500 * Progress(E, required) + 3500 * coverage
                           + 20 * confidence * (100 - 12 * Cardinality(blocking)), 10000)
  IN  IF percent > 1000 THEN 1000 ELSE percent

=============================================================================

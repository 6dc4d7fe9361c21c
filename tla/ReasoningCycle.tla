---------------------------- MODULE ReasoningCycle ----------------------------
(***************************************************************************)
(* One recompute of a root-cause session, reasoner by reasoner             *)
(* (internal/reasoning, internal/reasoners, Runtime.recompute): the        *)
(* reasoners read the session and propose actions, one after the other or  *)
(* in parallel; the orchestrator merges the actions and applies them; the  *)
(* protocol runs, its verdicts move the hypotheses; the session is scored. *)
(*                                                                         *)
(* The session is the one the whole playbook and every archetype speak     *)
(* about, with the numbers the code computes.  The archive is empty, so    *)
(* calibration changes nothing (see SharedArchive).                        *)
(***************************************************************************)
EXTENDS Heuristics, RootCausePlaybook, InvestigationGraph

CONSTANTS
  Strategies,  (* orchestration strategies: "sequential", "parallel"       *)
  Batches,     (* the batches the client may submit                        *)
  Answers,     (* what the host's model may answer: sequences of actions   *)
  MaxSpoken    (* bound: the host has something to say so many times       *)

Silent == << >>   (* no sampling, an error, or an answer without actions   *)

ASSUME ReasoningAssumption ==
  /\ Question \subseteq ToSet(PlaybookOrder) \intersect DOMAIN Playbooks
  /\ Strategies \subseteq {"sequential", "parallel"}
  /\ \A batch \in Batches : batch \subseteq Evidence /\ IsFiniteSet(batch)
  /\ IsFiniteSet(Category)
  /\ Silent \in Answers
  /\ MaxSpoken \in Nat

VARIABLES
  evidence,    (* Session.Evidence                                         *)
  considered,  (* the evidence of the last recompute that is over          *)
  session,     (* what a recompute derives, see NewSession                 *)
  plan,        (* Session.Plan                                             *)
  order,       (* the questions in the order the plan lists them           *)
  turn,        (* questions resolved by the last protocol run, LastTurn    *)
  strategy,    (* HybridOrchestrator.strategy                              *)
  phase,       (* "idle", or where the recompute under way is              *)
  results,     (* reasoners whose results are in, in order of arrival      *)
  draft,       (* what the recompute under way has made of session and plan *)
  answer,      (* the host's answer in the last recompute                  *)
  spoken,      (* recomputes in which it had something to say              *)
  calm         (* recomputes in a row nothing came into, counted up to 2   *)

vars == <<evidence, considered, session, plan, order, turn, strategy, phase,
          results, draft, answer, spoken, calm>>

NewSession ==
  [required |-> [c \in {} |-> 0], progress |-> 0, hyps |-> << >>, contradictions |-> {},
   coverage |-> 0, graph |-> NewInvestigationGraph, confidence |-> 0, canAnswer |-> FALSE,
   blocking |-> {}, percent |-> 0, state |-> "started", status |-> "collecting_evidence"]

-----------------------------------------------------------------------------
(* The reasoners.  Each reads the session as the recompute found it.       *)
Temporal ==
  LET linked == {edge \in OccurredBefore(evidence) : {edge[1], edge[2]} \subseteq session.graph.nodes}
  IN  << [type |-> "SetProgress", progress |-> Progress(evidence, Required(evidence))],
         [type |-> "LinkGraphNodes", edges |-> linked] >>

(* The path queries ask for "hyp:" and the id without "hypothesis-", a     *)
(* node the builder never makes, so no boost is ever proposed.             *)
Causal == << >>

(* Generate, tabulated over the evidence the batches can add up to.        *)
Field == [E \in {UNION S : S \in SUBSET Batches} |-> Generate(E)]

(* Coverage and graph are computed from the required evidence, hypotheses  *)
(* and plan of the recompute before.  What else the reasoner sets is set   *)
(* again below before anything reads it.                                   *)
Hypothesis ==
  LET field    == Field[evidence]
      required == IF DOMAIN session.required = {} THEN Required(evidence) ELSE session.required
  IN  << [type |-> "ReplaceHypotheses", hyps |-> field],
         [type |-> "SetCoverage", coverage |-> Coverage(evidence, required)],
         [type |-> "UpdateGraph", graph |-> Build(evidence, session.hyps, plan)] >>
      \o (IF field # << >> /\ field[1].share >= 400
            THEN << [type |-> "PromoteHypothesis", id |-> field[1].id] >> ELSE << >>)

Consistency ==
  LET found == Detect(evidence)
  IN  << [type |-> "SetContradictions", contradictions |-> found] >>
      \o (IF <<"deploy-after-incident">> \in found
            THEN << [type |-> "AdjustHypothesis", id |-> "deployment-caused", delta |-> -150] >>
            ELSE << >>)

Analyze(reasoner) ==
  CASE reasoner = "temporal"    -> Temporal
    [] reasoner = "causal"      -> Causal
    [] reasoner = "hypothesis"  -> Hypothesis
    [] reasoner = "consistency" -> Consistency
    [] reasoner = "semantic"    -> answer

(* Slip: two reasoners tie, so their results stay as they came in.         *)
reasonerPriorityTied == [temporal |-> 100, causal |-> 90, hypothesis |-> 80,
                         consistency |-> 80, semantic |-> 50]

reasonerPriority == [temporal |-> 100, causal |-> 90, hypothesis |-> 80,
                     consistency |-> 70, semantic |-> 50]

Supporting ==
  {r \in DOMAIN reasonerPriority : r = "causal" => session.graph.nodes # {}}

(* mergeSequential, a stable sort; the parallel strategy sorts its results *)
(* the same way first.                                                     *)
MergeSequential(arrived) ==
  SortedBy(arrived, [i \in DOMAIN arrived |-> reasonerPriority[arrived[i]]])

-----------------------------------------------------------------------------
(* A status of any other name, which the host may use, stands here as      *)
(* "proposed": the code only tells the refuted from all the others.        *)
HypothesisStatus == {"leading", "supported", "proposed", "refuted"}

IsHypothesis(h) ==
  h \in [id : {h.id}, share : Int, status : HypothesisStatus, support : {h.support}]

(* An action of the host's answer, once it is parsed.                      *)
IsAction(a) ==
  CASE a.type = "AdjustHypothesis"  -> a.delta \in Int
    [] a.type = "CreateHypothesis"  -> IsHypothesis(a.hypothesis)
    [] a.type = "ReplaceHypotheses" -> /\ a.hyps \in Seq(ToSet(a.hyps))
                                       /\ \A h \in ToSet(a.hyps) : IsHypothesis(h)
    [] a.type = "SetProgress"       -> a.progress \in Int
    [] a.type = "SetCoverage"       -> a.coverage \in Int
    [] a.type = "SetContradictions" -> IsFiniteSet(a.contradictions)
    [] a.type = "SettleQuestion"    -> a.status \in Settled
    [] OTHER                        -> TRUE

ASSUME AnswerAssumption ==
  \A said \in Answers : said \in Seq(ToSet(said)) /\ \A a \in ToSet(said) : IsAction(a)

-----------------------------------------------------------------------------
(* Applying an action to what is applied so far: work.session, work.plan   *)
(* and work.graph, the graph the recompute started with.                   *)

Validate(work, a) ==
  CASE a.type = "AdjustHypothesis" -> a.delta # 0 /\ a.delta \in -500 .. 500
    [] a.type = "SettleQuestion"   -> a.question \in OpenQuestions(work.plan)
    [] OTHER                       -> TRUE

Total(hyps, counts) ==
  SumFunction([i \in DOMAIN hyps |-> IF counts[hyps[i].status] THEN hyps[i].share ELSE 0])

ScaledBy(hyps, counts, total) ==
  IF total <= 0 THEN hyps
  ELSE [i \in DOMAIN hyps |->
          LET h == hyps[i] IN
          IF counts[h.status] THEN [h EXCEPT !.share = Rounded(@ * 1000, total)] ELSE h]

(* normalizeHypothesisConfidences, of the reasoning and protocol packages. *)
Rescaled(hyps, counts) == ScaledBy(hyps, counts, Total(hyps, counts))

Unrefuted == [s \in HypothesisStatus |-> s # "refuted"]
Everyone  == [s \in HypothesisStatus |-> TRUE]

Shifted(h, points) == [h EXCEPT !.share = Clamp(@ + points, 0, 1000)]

(* moves: what each hypothesis gains or loses, by its id.                  *)
Moved(hyps, moves) ==
  [i \in DOMAIN hyps |->
     LET h == hyps[i] IN IF h.id \in DOMAIN moves THEN Shifted(h, moves[h.id]) ELSE h]

(* An action is on the first hypothesis with its id: the host's model may  *)
(* make up two alike.                                                      *)
IsFirst(hyps, i, id) == hyps[i].id = id /\ \A j \in 1 .. i - 1 : hyps[j].id # id

Adjusted(hyps, id, delta) ==
  [i \in DOMAIN hyps |-> IF IsFirst(hyps, i, id) THEN Shifted(hyps[i], delta) ELSE hyps[i]]

Marked(hyps, id, status) ==
  [i \in DOMAIN hyps |->
     IF IsFirst(hyps, i, id) THEN [hyps[i] EXCEPT !.status = status] ELSE hyps[i]]

Knows(hyps, id) == \E h \in ToSet(hyps) : h.id = id

ApplyToHypotheses(hyps, a) ==
  CASE a.type = "AdjustHypothesis" /\ Knows(hyps, a.id) ->
         Rescaled(Adjusted(hyps, a.id, a.delta), Unrefuted)
    [] a.type = "CreateHypothesis" /\ ~Knows(hyps, a.hypothesis.id) -> Append(hyps, a.hypothesis)
    [] a.type = "RejectHypothesis"  -> Marked(hyps, a.id, "refuted")
    [] a.type = "PromoteHypothesis" -> Marked(hyps, a.id, "leading")
    [] a.type = "ReplaceHypotheses" -> a.hyps
    [] OTHER -> hyps

(* Slip: the ends of a link are not looked up.                             *)
LinkableByType(graph, edges) == edges

(* Validate looks up the ends of each link.                                *)
Linkable(graph, edges) == {edge \in edges : {edge[1], edge[2]} \subseteq graph.nodes}

(* New links are added to the graph the recompute started with, and that   *)
(* graph becomes the session's.                                            *)
ApplyLinks(work, edges) ==
  IF Linkable(work.graph, edges) \subseteq work.graph.edges THEN work
  ELSE LET linked == AddEdges(work.graph, Linkable(work.graph, edges))
       IN  [work EXCEPT !.graph = linked, !.session.graph = linked]

(* What the host creates besides hypotheses has no effect here.  A request *)
(* for evidence or a recommendation has none in the code that outlasts the *)
(* recompute: the next sync overwrites the requests.  A question does: it  *)
(* is appended as decoded, for which see InvestigationRuntime.             *)
applyOne(work, a) ==
  CASE a.type = "SetProgress"       -> [work EXCEPT !.session.progress = Clamp(a.progress, 0, 1000)]
    [] a.type = "SetCoverage"       -> [work EXCEPT !.session.coverage = a.coverage]
    [] a.type = "SetContradictions" -> [work EXCEPT !.session.contradictions = a.contradictions]
    [] a.type = "MarkContradiction" -> [work EXCEPT !.session.contradictions = @ \union {a.contradiction}]
    [] a.type = "UpdateGraph"       -> [work EXCEPT !.session.graph = a.graph]
    [] a.type = "LinkGraphNodes"    -> ApplyLinks(work, a.edges)
    [] a.type = "SettleQuestion"    -> [work EXCEPT !.plan.status[a.question] = a.status]
    [] a.type = "MarkInvestigationComplete" ->
         [work EXCEPT !.session.state = "completed", !.session.status = "completed"]
    [] OTHER -> [work EXCEPT !.session.hyps = ApplyToHypotheses(@, a)]

Tried(work, a) == IF Validate(work, a) THEN applyOne(work, a) ELSE work

Taken(work, reasoner) == FoldLeft(Tried, work, Analyze(reasoner))

Applied(work, arrived) == FoldLeft(Taken, work, arrived)

-----------------------------------------------------------------------------
(* The protocol run: the plan's order, this turn's verdicts, their effects. *)

(* Slip: what the plan lists already is listed again.                      *)
ListedTwice(listing, Q) ==
  listing \o Selected(PlaybookOrder, {i \in DOMAIN PlaybookOrder : PlaybookOrder[i] \in Q})

Listed(listing, Q) ==
  LET fresh == Q \ ToSet(listing)
  IN  listing \o Selected(PlaybookOrder, {i \in DOMAIN PlaybookOrder : PlaybookOrder[i] \in fresh})

(* ensureQuestions lists its own, then come the triggered ones, then the   *)
(* children of confirmed questions.                                        *)
Triggerable(ensured) ==
  {q \in Dynamic \ Asked(ensured) : Fires[q][evidence] /\ DependenciesMet(ensured, q)}

ListedAfter(listing, p) ==
  Listed(Listed(Listed(listing, Asked(EnsureQuestions(p))), Triggerable(EnsureQuestions(p))),
         Asked(AskedAfter(p, evidence)))

Resolved(p, listing) ==
  Selected(listing, {i \in DOMAIN listing : Conclusive(p, listing[i], evidence)})

MovesOf(p, q) ==
  LET points == Playbooks[q].effects[Resolve(p, q, evidence)]
  IN  [id \in DOMAIN points |-> 10 * points[id]]

Affected(hyps, p, questions) ==
  FoldLeft(Moved, hyps, [i \in DOMAIN questions |-> MovesOf(p, questions[i])])

NoneNegative(hyps) ==
  [i \in DOMAIN hyps |-> [hyps[i] EXCEPT !.share = IF @ < 0 THEN 0 ELSE @]]

(* Slip: refuted hypotheses keep their share.                              *)
applyPlaybookEffectsUnevenly(hyps, p, questions) ==
  Rescaled(NoneNegative(Affected(hyps, p, questions)), Unrefuted)

applyPlaybookEffects(hyps, p, questions) ==
  Rescaled(NoneNegative(Affected(hyps, p, questions)), Everyone)

Weight(q) == IF Priority[q] >= 80 THEN High ELSE IF Priority[q] >= 50 THEN Medium ELSE Low

FirstMissing(q) ==
  LET requires == Playbooks[q].requires
  IN  requires[Min({i \in DOMAIN requires : requires[i] \notin HeldCategories(evidence)})]

(* Slip: settled questions count as well.                                  *)
LegacyOfAll(p) ==
  {w \in Category \X Question : w[2] \in Asked(p) /\ w[1] \in Needs(p, w[2])}

(* protocolToLegacyRequests: the first category of each request or, when   *)
(* nothing is requested, all the categories the open questions need.       *)
protocolToLegacyRequests(p) ==
  IF p.requests # {} THEN {<<FirstMissing(r.question), r.question>> : r \in p.requests}
  ELSE {w \in Category \X Question : w[2] \in OpenQuestions(p) /\ w[1] \in Needs(p, w[2])}

Heaviest(wanted) ==
  [c \in {w[1] : w \in wanted} |-> Max({Weight(w[2]) : w \in {v \in wanted : v[1] = c}})]

-----------------------------------------------------------------------------
(* Assessment and state, as Runtime.recompute derives them last.           *)
Transition(s) ==
  CASE s.state = "completed" -> "completed"
    [] s.state # "completed" /\ evidence = {} -> "collecting_evidence"
    [] s.state # "completed" /\ evidence # {} ->
         IF s.canAnswer /\ s.confidence >= MinConfidence THEN "high_confidence"
         ELSE IF s.blocking # {} \/ Missing(evidence, s.required) # {} THEN "waiting_for_evidence"
         ELSE IF s.confidence >= MinConfidence THEN "high_confidence"
         ELSE "collecting_evidence"

deriveStatus(s) ==
  CASE s.status = "completed" \/ s.state = "completed" -> "completed"
    [] /\ s.status # "completed" /\ s.state # "completed"
       /\ s.canAnswer \/ (s.confidence >= 700 /\ s.percent >= 700) -> "ready_to_conclude"
    [] OTHER -> IF s.state = "high_confidence" THEN "ready_to_conclude" ELSE "collecting_evidence"

Judged(s, required, confidence, blocking) ==
  [s EXCEPT !.required   = required,
            !.confidence = confidence,
            !.blocking   = blocking,
            !.canAnswer  = Evaluate(evidence, s.hyps, s.contradictions, confidence, s.coverage),
            !.percent    = InvestigationProgress(evidence, required, s.coverage, confidence, blocking)]

InState(s)    == [s EXCEPT !.state = Transition(s)]
WithStatus(s) == [s EXCEPT !.status = deriveStatus(s)]

Assessed(s, required) ==
  WithStatus(InState(Judged(s, required,
                            Score(evidence, s.hyps, s.contradictions, s.progress),
                            BlockingQuestions(evidence, s.hyps))))

-----------------------------------------------------------------------------
(* Slip: a completed session is reasoned about like any other.             *)
BegunAgain(s) == [s EXCEPT !.state = "reasoning"]

Begun(s) == [s EXCEPT !.state = IF @ = "completed" THEN @ ELSE "reasoning"]

(* The graph of the session as the recompute found it takes the links.     *)
Draft == [session |-> Begun(session), plan |-> plan, graph |-> session.graph, turn |-> {}]

NoDraft == [session |-> NewSession, plan |-> EmptyPlan, graph |-> NewInvestigationGraph,
            turn |-> {}]

Init ==
  /\ evidence = {}
  /\ considered = {}
  /\ session = NewSession
  /\ plan = EmptyPlan
  /\ order = << >>
  /\ turn = {}
  /\ strategy \in Strategies
  /\ phase = "reasoning"          (* Start recomputes the new session       *)
  /\ results = << >>
  /\ draft = NoDraft
  /\ answer = Silent
  /\ spoken = 0
  /\ calm = 0

Recompute(E) ==
  /\ phase = "idle"
  /\ phase' = "reasoning"
  /\ evidence' = E
  /\ answer' = Silent
  /\ UNCHANGED <<considered, session, plan, order, turn, strategy, results, draft, spoken, calm>>

Submit(batch) ==
  /\ session.status # "completed"
  /\ batch \intersect evidence = {}
  /\ Recompute(evidence \union batch)

Get == Recompute(evidence)

Due == Supporting \ ToSet(results)

(* A reasoner's result comes in: in turn, or as the goroutines finish.     *)
Reason(reasoner) ==
  /\ phase = "reasoning"
  /\ reasoner \in Due
  /\ strategy = "sequential" =>
       \A r \in Due : reasonerPriority[r] <= reasonerPriority[reasoner]
  /\ results' = Append(results, reasoner)
  /\ answer' \in IF reasoner = "semantic" /\ evidence # {} /\ spoken < MaxSpoken
                   THEN Answers ELSE {answer}
  /\ spoken' = IF answer' = answer THEN spoken ELSE spoken + 1
  /\ UNCHANGED <<evidence, considered, session, plan, order, turn, strategy, phase, draft, calm>>

Merge ==
  /\ phase = "reasoning"
  /\ Due = {}
  /\ phase' = "applying"
  /\ results' = MergeSequential(results)
  /\ UNCHANGED <<evidence, considered, session, plan, order, turn, strategy, draft, answer,
                 spoken, calm>>

Apply ==
  /\ phase = "applying"
  /\ phase' = "asking"
  /\ results' = << >>
  /\ draft' = Applied(Draft, results)
  /\ UNCHANGED <<evidence, considered, session, plan, order, turn, strategy, answer, spoken, calm>>

(* The protocol run asks before it resolves and once more after it.        *)
Ask ==
  /\ phase \in {"asking", "following"}
  /\ phase' = IF phase = "asking" THEN "resolving" ELSE "concluding"
  /\ draft' = [draft EXCEPT !.plan = AskedAfter(@, evidence)]
  /\ order' = ListedAfter(order, draft.plan)
  /\ UNCHANGED <<evidence, considered, session, plan, turn, strategy, results, answer, spoken, calm>>

(* The hypotheses are moved in the order the plan lists the questions.     *)
ResolveTurn ==
  /\ phase = "resolving"
  /\ phase' = "following"
  /\ draft' = [draft EXCEPT
                 !.plan         = ResolveQuestions(@, evidence),
                 !.session.hyps = applyPlaybookEffects(@, draft.plan, Resolved(draft.plan, order)),
                 !.turn         = ToSet(Resolved(draft.plan, order))]
  /\ UNCHANGED <<evidence, considered, session, plan, order, turn, strategy, results, answer, spoken, calm>>

(* The session is scored, and the call that recomputed it returns.         *)
Conclude ==
  /\ phase = "concluding"
  /\ phase' = "idle"
  /\ plan' \in SyncEvidenceRequests(draft.plan, evidence)
  /\ turn' = draft.turn
  /\ session' = Assessed(draft.session, Heaviest(protocolToLegacyRequests(plan')))
  /\ considered' = evidence
  /\ calm' = IF evidence = considered /\ answer = Silent /\ plan' = plan
               THEN Min({calm + 1, 2}) ELSE 0
  /\ draft' = NoDraft
  /\ UNCHANGED <<evidence, order, strategy, results, answer, spoken>>

Next ==
  \/ \E batch \in Batches : Submit(batch)
  \/ Get
  \/ \E reasoner \in DOMAIN reasonerPriority : Reason(reasoner)
  \/ Merge
  \/ Apply
  \/ Ask
  \/ ResolveTurn
  \/ Conclude

Spec == Init /\ [][Next]_vars

-----------------------------------------------------------------------------
(* Properties.                                                             *)

Idle == phase = "idle"

(* Every figure stays in its range, whatever the host's model answered:    *)
(* shares, confidence, coverage and progress are percentages, a session    *)
(* that answered a call is never in a transient state.  Only the coverage  *)
(* is as the host set it (applyOne clamps the others): an answer with a    *)
(* coverage off the scale is not among Answers.                            *)
TypeOK ==
  /\ considered \subseteq evidence /\ evidence \subseteq Evidence
  /\ plan \in Plan
  /\ Len(order) = Cardinality(ToSet(order)) /\ (Idle => ToSet(order) = Asked(plan))
  /\ turn \subseteq Question
  /\ \A r \in ToSet(session.hyps) : r.share \in 0 .. 1000
  /\ {session.confidence, session.progress, session.coverage, session.percent} \subseteq 0 .. 1000
  /\ Idle => session.state \notin {"started", "reasoning"}
  /\ phase \in {"reasoning", "applying", "asking", "resolving", "following", "concluding", "idle"}
  /\ calm \in 0 .. 2

(* The competing hypotheses divide one certainty among them: after every   *)
(* recompute the shares of all of them, the refuted ones included, add up  *)
(* to 100 percent but for the rounding of each, however archetypes,        *)
(* reasoners and verdicts moved them (normalizeHypothesisConfidences),     *)
(* unless they left nothing to anyone.                                     *)
SharesAddUp ==
  Idle => \/ \A h \in ToSet(session.hyps) : h.share = 0
          \/ 2 * (Total(session.hyps, Everyone) - 1000)
               \in -Len(session.hyps) .. Len(session.hyps)

(* No session stored between two calls has an edge to a node its graph     *)
(* does not have, whatever was linked to whatever graph, and all its       *)
(* evidence is in the graph unless the host linked nodes of the graph      *)
(* before (Build, Validate, ApplyLinks).  The host adds no question of its *)
(* own here: one that depends on an unknown question would dangle.         *)
GraphFaithful ==
  Idle => /\ Dangling(session.graph) = {}
          /\ \/ {e \in Evidence : Ev(e) \in session.graph.nodes} = evidence
             \/ "LinkGraphNodes" \in {a.type : a \in ToSet(answer)}

(* Once two recomputes in a row had nothing new to consider and the host   *)
(* kept silent, another one changes nothing at all, in whatever order the  *)
(* reasoners' results come in: what one recompute carries over to the next *)
(* (coverage, graph, required evidence) has caught up.                     *)
RereadingChangesNothing ==
  [][Conclude /\ calm = 2 /\ calm' = 2 => UNCHANGED <<session, plan, turn>>]_vars

(* Every recompute computes what the runtime's own specification lets the  *)
(* heuristics choose: each step is a step of InvestigationRuntime.         *)
(* Questions of the host's own making are left to that module.             *)
Runtime == INSTANCE InvestigationRuntime WITH
  evidence       <- considered,
  weighed        <- turn,
  confident      <- session.confidence >= MinConfidence,
  state          <- IF session.state = "started" THEN "absent" ELSE session.state,
  status         <- session.status,
  archive        <- [evidence |-> {}, status |-> EmptyPlan.status, stored |-> FALSE],
  Proposals      <- {"ResolveQuestion", "RejectQuestion", "MarkInvestigationComplete"},
  Heuristics     <- [confident : BOOLEAN, blocked : BOOLEAN, sufficient : BOOLEAN,
                     progressed : BOOLEAN],
  MaxResolutions <- [q \in Question |-> 0]

(* The calls this module makes are Runtime!Start, SubmitBatch and Get.     *)
RuntimeCall ==
  \/ Runtime!Start
  \/ \E batch \in Batches : Runtime!SubmitBatch(batch)
  \/ Runtime!Get

ImplementsRuntime ==
  Runtime!Init /\ [][UNCHANGED <<considered, session, plan, turn>> \/ RuntimeCall]_vars

(* The percentage the status is read from passes its threshold only while  *)
(* a question is still open: it counts the categories the open questions   *)
(* want, and falls back once there are none (protocolToLegacyRequests).    *)
ProgressNeedsOpenQuestion ==
  Idle /\ session.percent >= 700 => OpenQuestions(plan) # {}

=============================================================================

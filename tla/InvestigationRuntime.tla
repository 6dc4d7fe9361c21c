------------------------ MODULE InvestigationRuntime ------------------------
(***************************************************************************)
(* One investigation session as the runtime (internal/runtime) drives it:  *)
(* the handlers Start, Submit, Get, ResolveQuestion and Finish, each run   *)
(* under the store's exclusive lock and therefore one atomic step here.    *)
(*                                                                         *)
(* Every handler but ResolveQuestion re-derives the session by a recompute *)
(* (reasoner proposals, one protocol run, assessment, state machine).      *)
(*                                                                         *)
(* Numbers are abstracted to the thresholds that steer control: confidence *)
(* is "at least 70" or not, and what the heuristic engines compute from    *)
(* the evidence is a choice among the combinations they can produce.       *)
(***************************************************************************)
EXTENDS QuestionProtocol

CONSTANTS
  Proposals,       (* kinds of plan actions the semantic reasoner may propose *)
  Heuristics,      (* assessments the heuristic engines may come to          *)
  MaxResolutions   (* bound: explicit verdicts stop at this many recorded    *)

ProposalKind == {"ResolveQuestion", "RejectQuestion", "CreateQuestion",
                 "MarkInvestigationComplete"}

(* What control reads of an assessment: confidence at least 70, blocking   *)
(* questions present, CanAnswer, progress at its threshold.                *)
Assessment == [confident : BOOLEAN, blocked : BOOLEAN, sufficient : BOOLEAN,
               progressed : BOOLEAN]

Unremarkable == [confident |-> FALSE, blocked |-> FALSE, sufficient |-> FALSE,
                 progressed |-> FALSE]

ASSUME RuntimeAssumption ==
  /\ Proposals \subseteq ProposalKind
  /\ Heuristics \subseteq Assessment
  /\ Unremarkable \in Heuristics
  /\ MaxResolutions \in [Question -> Nat]

VARIABLES
  evidence,     (* Session.Evidence                                        *)
  considered,   (* the evidence the last recompute derived the session from *)
  plan,         (* Session.Plan                                            *)
  weighed,      (* resolutions whose effects are in Session.Hypotheses     *)
  confident,    (* Session.Confidence >= 70                                *)
  state,        (* Session.State, "absent" until Start returns             *)
  status,       (* Session.Status                                          *)
  archive       (* the intelligence archive's snapshot of the session      *)

vars == <<evidence, considered, plan, weighed, confident, state,
          status, archive>>

State  == {"started", "collecting_evidence", "reasoning",
           "waiting_for_evidence", "high_confidence", "completed"}
Status == {"collecting_evidence", "ready_to_conclude", "completed"}

NotArchived == [evidence |-> {}, status |-> EmptyPlan.status, stored |-> FALSE]
Snapshot(E, p) == [evidence |-> E, status |-> p.status, stored |-> TRUE]

-----------------------------------------------------------------------------
(* The reasoning cycle: what an applied proposal does to the plan.  Of the *)
(* shipped reasoners only the semantic one reaches these actions, and it   *)
(* is silent without evidence.  At most one proposal per cycle (a bound).  *)

Proposed(p, done) == [plan |-> p, completes |-> done]

(* Slip: a verdict is accepted on any question of the plan.                *)
ReasonerSettlesAny(p, s) ==
  {Proposed([p EXCEPT !.status[q] = s], FALSE) : q \in Asked(p)}

(* Validate rejects a verdict on a settled question; applyOne then writes  *)
(* the status alone: no Resolution, no history, no playbook effects.       *)
ReasonerSettles(p, s) ==
  {Proposed([p EXCEPT !.status[q] = s], FALSE) : q \in OpenQuestions(p)}

(* A created question carries the reasoner's own fields: it may arrive     *)
(* settled, and takes the id whether or not a playbook question uses it.   *)
(* The prompt's schema has no field for required evidence, a resolution or *)
(* dependencies, which the decoder would take, and the prompt allows two   *)
(* questions an answer; here it is one, without any of the three.          *)
ReasonerCreates(p, s) ==
  {Proposed([p EXCEPT !.status[q] = s,
                      !.bare      = @ \union {q}], FALSE) : q \in Question \ Asked(p)}

ReasoningOutcomes(p, E) ==
  {Proposed(p, FALSE)} \union
  IF E = {} THEN {}
  ELSE UNION {
    IF "ResolveQuestion" \in Proposals THEN ReasonerSettles(p, "answered") ELSE {},
    IF "RejectQuestion" \in Proposals THEN ReasonerSettles(p, "rejected") ELSE {},
    IF "CreateQuestion" \in Proposals
      THEN UNION {ReasonerCreates(p, s) : s \in {"waiting_for_evidence"} \union Settled}
      ELSE {},
    IF "MarkInvestigationComplete" \in Proposals THEN {Proposed(p, TRUE)} ELSE {}}

-----------------------------------------------------------------------------
(* Assessment: confidence, sufficiency and progress after a protocol run.  *)
(* Sufficiency is judged on the confidence before calibration, so a        *)
(* sufficient session need not be confident afterwards.  Without evidence  *)
(* confidence stays below 70 (Score weighs coverage) and CanAnswer is      *)
(* FALSE.                                                                  *)
Assessments(E) ==
  {a \in Heuristics :
     /\ a.confident => E # {}
     /\ a.sufficient => E # {} /\ ~a.blocked}

BeginReasoning(current) ==
  IF current = "completed" THEN current ELSE "reasoning"

(* Slip: without evidence the state is left as it is.                      *)
TransitionIdle(current, E, requests, a) ==
  IF E = {} THEN current ELSE "collecting_evidence"

(* MissingEvidence is empty exactly when no evidence request is left.      *)
Transition(current, E, requests, a) ==
  CASE current = "completed" -> "completed"
    [] /\ current # "completed" /\ E = {} ->
         IF current = "started" THEN "started" ELSE "collecting_evidence"
    [] /\ current # "completed" /\ E # {} ->
         CASE a.sufficient /\ a.confident -> "high_confidence"
           [] /\ ~(a.sufficient /\ a.confident)
              /\ a.blocked \/ requests # {} -> "waiting_for_evidence"
           [] /\ ~(a.sufficient /\ a.confident)
              /\ ~(a.blocked \/ requests # {}) ->
                IF a.confident THEN "high_confidence" ELSE "collecting_evidence"

LegacyStatus(st) ==
  CASE st = "high_confidence" -> "ready_to_conclude"
    [] st = "completed"       -> "completed"
    [] OTHER                  -> "collecting_evidence"

(* Slip: readiness is looked at before completion.                         *)
DeriveStatusReadyFirst(done, st, a) ==
  CASE a.sufficient -> "ready_to_conclude"
    [] ~a.sufficient /\ done -> "completed"
    [] OTHER -> LegacyStatus(st)

DeriveStatus(done, st, a) ==
  CASE done -> "completed"
    [] ~done /\ (a.sufficient \/ (a.confident /\ a.progressed)) -> "ready_to_conclude"
    [] OTHER -> LegacyStatus(st)

-----------------------------------------------------------------------------
(* Recompute, first half: the plans a reasoning cycle and a protocol run   *)
(* over evidence E can produce, and whether the session is completed after *)
(* it (it already was, or a reasoner marked it complete).                  *)
Reasoned(E) ==
  UNION {{[plan |-> p, done |-> r.completes \/ status = "completed"] :
            p \in ProtocolRuns(r.plan, E)} : r \in ReasoningOutcomes(plan, E)}

(* Hypotheses are regenerated by every reasoning cycle; only this turn's   *)
(* resolutions are weighed into the new list.                              *)
AdoptPlan(E, r) ==
  /\ plan' = r.plan
  /\ weighed' = {q \in Question : r.plan.history[q] # plan.history[q]}
  /\ considered' = E

(* Recompute, second half.                                                 *)
Derive(E, r) ==
  /\ AdoptPlan(E, r)
  /\ \E a \in Assessments(E) :
       /\ confident' = a.confident
       /\ state' = Transition(IF r.done THEN "completed" ELSE BeginReasoning(state),
                              E, r.plan.requests, a)
       /\ status' = DeriveStatus(r.done, state', a)

-----------------------------------------------------------------------------
Init ==
  /\ evidence = {}
  /\ considered = {}
  /\ plan = EmptyPlan
  /\ weighed = {}
  /\ confident = FALSE
  /\ state = "absent"
  /\ status = "collecting_evidence"
  /\ archive = NotArchived

Live == state # "absent"

(* Runtime.Start: a first recompute without evidence, then the session is  *)
(* created in the store.                                                   *)
Start ==
  /\ ~Live
  /\ \E r \in Reasoned({}) : Derive({}, r)
  /\ UNCHANGED <<evidence, archive>>

(* Runtime.Submit of a batch that is accepted as a whole.                  *)
SubmitBatch(batch) ==
  /\ Live /\ status # "completed"
  /\ batch # {} /\ batch \intersect evidence = {}
  /\ evidence' = evidence \union batch
  /\ \E r \in Reasoned(evidence \union batch) : Derive(evidence \union batch, r)
  /\ UNCHANGED archive

(* Slip: the completion check comes after the loop over the items.         *)
SubmitTornLate(prefix) ==
  /\ Live
  /\ prefix # {} /\ prefix \intersect evidence = {}
  /\ evidence' = evidence \union prefix
  /\ UNCHANGED <<considered, plan, weighed, confident, state, status, archive>>

(* Runtime.Submit of a batch with a duplicate or blank item behind a good  *)
(* prefix: the prefix is appended already when the item is found, and the  *)
(* call returns the error without recompute, history, journal or event.    *)
SubmitTorn(prefix) ==
  /\ Live /\ status # "completed"
  /\ prefix # {} /\ prefix \intersect evidence = {}
  /\ evidence' = evidence \union prefix
  /\ UNCHANGED <<considered, plan, weighed, confident, state, status, archive>>

(* Slip: a read returns the session as it is stored.                       *)
GetStored == Live /\ UNCHANGED vars

(* Runtime.Get, behind every reading tool.  It has no status check.        *)
Get ==
  /\ Live
  /\ \E r \in Reasoned(evidence) : Derive(evidence, r)
  /\ UNCHANGED <<evidence, archive>>

(* Runtime.ResolveQuestion: the verdict, its effects and a new confidence; *)
(* no recompute.                                                           *)
ResolveQuestion(q, outcome) ==
  /\ Live /\ status # "completed"
  /\ q \in Asked(plan)
  /\ Len(plan.history[q]) < MaxResolutions[q]
  /\ plan' = ClientResolve(plan, q, outcome)
  /\ weighed' = weighed \union {q}
  /\ confident' \in {c \in BOOLEAN : c => evidence # {}}
  /\ UNCHANGED <<evidence, considered, state, status, archive>>

(* Slip: the snapshot is taken of the session before Finish's recompute.   *)
FinishOpenEarlySnapshot ==
  /\ Live
  /\ \E r \in Reasoned(evidence) : ~r.done /\ AdoptPlan(evidence, r)
  /\ archive' = Snapshot(considered, plan)
  /\ confident' \in {c \in BOOLEAN : c => evidence # {}}
  /\ state' = "completed"
  /\ status' = "completed"
  /\ UNCHANGED evidence

(* Runtime.Finish on a session its own recompute leaves open: completed,   *)
(* archived, and its confidence calibrated once more.                      *)
FinishOpen ==
  /\ Live
  /\ \E r \in Reasoned(evidence) :
       /\ ~r.done
       /\ AdoptPlan(evidence, r)
       /\ archive' = Snapshot(evidence, r.plan)
  /\ confident' \in {c \in BOOLEAN : c => evidence # {}}
  /\ state' = "completed"
  /\ status' = "completed"
  /\ UNCHANGED evidence

(* Runtime.Finish on a session that is completed already, or that a        *)
(* reasoner completes during Finish's own recompute: a new report only.    *)
FinishAgain ==
  /\ Live
  /\ \E r \in Reasoned(evidence) : r.done /\ Derive(evidence, r)
  /\ UNCHANGED <<evidence, archive>>

Next ==
  \/ Start
  \/ \E batch \in SUBSET Evidence : SubmitBatch(batch)
  \/ \E prefix \in SUBSET Evidence : SubmitTorn(prefix)
  \/ Get
  \/ \E q \in Question, outcome \in Outcome : ResolveQuestion(q, outcome)
  \/ FinishOpen
  \/ FinishAgain

Spec == Init /\ [][Next]_vars

(* The client keeps reading the investigation.  Nothing in the runtime     *)
(* schedules a recompute by itself, and no other call is owed.             *)
FairSpec == Spec /\ WF_vars(Get)

-----------------------------------------------------------------------------
(* Properties.                                                             *)

(* Every variable holds a value the program could hold: the plan is a      *)
(* well-formed plan, State is "absent" until Start returned and never the  *)
(* transient "reasoning" or "started" between two calls.                   *)
TypeOK ==
  /\ evidence \subseteq Evidence
  /\ considered \subseteq evidence
  /\ plan \in Plan
  /\ weighed \subseteq Question
  /\ confident \in BOOLEAN
  /\ state \in {"absent"} \union (State \ {"reasoning", "started"})
  /\ status \in Status
  /\ archive \in [evidence : SUBSET Evidence, status : [Question -> QuestionStatus],
                  stored : BOOLEAN]

(* The archived snapshot stays true of the session it was taken from: it   *)
(* exists only for a completed session, holds exactly the evidence the     *)
(* session ends with, and every verdict it records still stands, although  *)
(* reads keep recomputing the completed session (Finish, Submit, Get).     *)
ArchiveFaithful ==
  archive.stored =>
    /\ status = "completed"
    /\ archive.evidence = evidence
    /\ \A q \in Question : archive.status[q] \in Settled =>
                             plan.status[q] = archive.status[q]

(* A question that carries a Resolution has the matching status, its       *)
(* Resolution is the last entry the history records for it, and a question *)
(* without one has no history: automatic, client and reasoner verdicts may *)
(* interleave in any order without the three records drifting apart        *)
(* (resolveQuestions, ResolveQuestion, applier.resolveQuestion).           *)
RecordsAgree ==
  \A q \in Question :
    LET log == plan.history[q] IN
    IF log = << >>
      THEN plan.resolution[q] = "none"
      ELSE /\ plan.resolution[q] = log[Len(log)]
           /\ plan.status[q] = StatusFor(plan.resolution[q])

(* Guidance: as long as some open question still lacks evidence, at least  *)
(* one request is on offer, at most two are, and no request asks for       *)
(* anything the session already held when it was last derived              *)
(* (syncEvidenceRequests against Submit, ResolveQuestion and Get).         *)
GuidanceOnOffer ==
  /\ Lacking(plan, considered) # {} => plan.requests # {}
  /\ Cardinality(plan.requests) <= 2
  /\ \A r \in plan.requests : /\ r.categories # {}
                              /\ r.categories \intersect HeldCategories(considered) = {}

(* State and Status, kept by different code (Transition and deriveStatus,  *)
(* Finish, a reasoner's MarkInvestigationComplete), agree on completion.   *)
CompletionAgrees == (state = "completed") <=> (status = "completed")

(* Only an explicit resolve_question call changes the verdict on a settled *)
(* question: no recompute, with whatever new evidence or reasoner          *)
(* proposals, reopens or flips it.                                         *)
VerdictsStand ==
  [][\A q \in Question :
       plan.status[q] \in Settled /\ plan'.status[q] # plan.status[q] =>
         \E outcome \in Outcome : ResolveQuestion(q, outcome)]_vars

(* A question enters the plan only when its dependencies are answered, or  *)
(* a confirmed question generates it, or a reasoner created it, and all of *)
(* this still holds when the step that added it is over (ensureQuestions,  *)
(* generateDynamicQuestions, appendQuestion).                              *)
UnlockJustified ==
  [][\A q \in Question :
       plan.status[q] = "absent" /\ plan'.status[q] # "absent" =>
         \/ DependenciesMet(plan', q)
         \/ \E parent \in Question : q \in GeneratedBy(plan', parent)
         \/ q \in plan'.bare]_vars

(* A verdict recorded by a recompute is what the resolver says of all the  *)
(* evidence the session holds at that moment, never of an earlier state of *)
(* it: a torn batch's items are weighed by whichever call comes next.      *)
VerdictsFromAllEvidence ==
  [][\A q \in Question :
       plan'.history[q] # plan.history[q]
       /\ ~(\E outcome \in Outcome : ResolveQuestion(q, outcome)) =>
            /\ plan'.resolution[q] = Verdict[q][evidence']
            /\ Requires[q] \subseteq HeldCategories(evidence')]_vars

(* A client that keeps reading sees the plan settle down: whatever verdicts *)
(* and evidence came in, in whatever order, it ends in a plan one more     *)
(* protocol run would not change.  One run makes a single resolving pass,  *)
(* so it takes several reads when one answer unlocks the next question.    *)
Converges == <>[](Live => plan \in ProtocolRuns(plan, evidence))

(* A question unlocked outside a recompute (by a client's verdict) is      *)
(* asked, unless a later verdict takes the reason back first.              *)
UnlockedIsAsked ==
  \A q \in Question :
    LET unlocked == \/ q \notin Dynamic /\ DependenciesMet(plan, q)
                    \/ \E parent \in Question : q \in GeneratedBy(plan, parent)
    IN  (Live /\ unlocked) ~> (plan.status[q] # "absent" \/ ~unlocked)

(* Evidence left behind by a torn batch eventually takes part in the       *)
(* derivation of the session.                                              *)
TornEvidenceConsidered == (evidence # considered) ~> (evidence = considered)

-----------------------------------------------------------------------------
(* What the documentation says of the runtime; the runs on these show      *)
(* that the code does otherwise.                                           *)

(* Every mutation, ResolveQuestion included, ends in a recompute, so no    *)
(* call leaves a request standing for a question that is settled.          *)
RequestsForOpenQuestions ==
  \A r \in plan.requests : plan.status[r.question] \in Open

(* A resolution updates the hypotheses' confidence: the ranking in the     *)
(* final report and archive weighs every verdict the session recorded.     *)
VerdictsWeighInReport ==
  archive.stored => {q \in Question : plan.resolution[q] # "none"} \subseteq weighed

-----------------------------------------------------------------------------
(* The runtime implements the case file its clients see.                   *)
Phase == CASE ~Live                      -> "absent"
           [] Live /\ status # "completed" -> "open"
           [] Live /\ status = "completed" -> "completed"

Archived == IF archive.stored THEN {archive.evidence} ELSE {}

File == INSTANCE CaseFile WITH Item     <- Evidence,
                               phase    <- Phase,
                               items    <- evidence,
                               log      <- plan.history,
                               archived <- Archived

(* Evidence only ever grows and only before completion, a completed        *)
(* session's verdicts are final, one archive snapshot at most and of all   *)
(* the evidence: every step of every handler is a step of the case file.   *)
ImplementsCaseFile == File!CaseSpec

=============================================================================

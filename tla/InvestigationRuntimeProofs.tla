--------------------- MODULE InvestigationRuntimeProofs ---------------------
(***************************************************************************)
(* Theorems about InvestigationRuntime for every playbook, every set of    *)
(* evidence and every reasoner: type correctness, agreement of the verdict *)
(* records, faithfulness of the archive, that the runtime implements the   *)
(* case file its clients see, and what a recompute adds to a plan.         *)
(*                                                                         *)
(* Every operation of a recompute advances the plan in the sense of        *)
(* QuestionProtocolProofs, so a whole recompute does; the steps of the     *)
(* runtime follow from that.                                               *)
(***************************************************************************)
EXTENDS InvestigationRuntime, QuestionProtocolProofs

(* What a cycle may have proposed, by the action it applied.               *)
LEMMA OutcomeCases ==
  ASSUME NEW p, NEW E, NEW r \in ReasoningOutcomes(p, E)
  PROVE  \/ r = Proposed(p, FALSE) \/ r = Proposed(p, TRUE)
         \/ r \in ReasonerSettles(p, "answered")
         \/ r \in ReasonerSettles(p, "rejected")
         \/ \E s \in {"waiting_for_evidence"} \union Settled : r \in ReasonerCreates(p, s)
<1> DEFINE Created == UNION {ReasonerCreates(p, s) : s \in {"waiting_for_evidence"} \union Settled}
<1>1. r \in Created => \E s \in {"waiting_for_evidence"} \union Settled : r \in ReasonerCreates(p, s)
  OBVIOUS
<1>2. ReasoningOutcomes(p, E) =
        {Proposed(p, FALSE)} \union
        IF E = {} THEN {}
        ELSE UNION {
          IF "ResolveQuestion" \in Proposals THEN ReasonerSettles(p, "answered") ELSE {},
          IF "RejectQuestion" \in Proposals THEN ReasonerSettles(p, "rejected") ELSE {},
          IF "CreateQuestion" \in Proposals THEN Created ELSE {},
          IF "MarkInvestigationComplete" \in Proposals THEN {Proposed(p, TRUE)} ELSE {}}
  BY DEF ReasoningOutcomes
<1> HIDE DEF Created
<1>3. \/ r = Proposed(p, FALSE) \/ r = Proposed(p, TRUE)
      \/ r \in ReasonerSettles(p, "answered")
      \/ r \in ReasonerSettles(p, "rejected")
      \/ r \in Created
  BY <1>2
<1> QED BY <1>1, <1>3

LEMMA ReasonerAdvances ==
  ASSUME NEW p \in Plan, Agree(p), NEW E \in SUBSET Evidence,
         NEW r \in ReasoningOutcomes(p, E)
  PROVE  Advances(p, r.plan) /\ r.completes \in BOOLEAN
<1>1. CASE r = Proposed(p, FALSE) \/ r = Proposed(p, TRUE)
  <2>1. Advances(p, p)
    BY AdvancesReflexive
  <2>2. r.plan = p
    BY <1>1 DEF Proposed
  <2>3. r = Proposed(p, FALSE) => r.completes \in BOOLEAN
    BY DEF Proposed
  <2>4. r = Proposed(p, TRUE) => r.completes \in BOOLEAN
    BY DEF Proposed
  <2> QED BY <1>1, <2>1, <2>2, <2>3, <2>4
<1>2. ASSUME NEW s \in {"answered", "rejected"}, r \in ReasonerSettles(p, s)
      PROVE  Advances(p, r.plan) /\ r.completes \in BOOLEAN
  <2>1. PICK q \in OpenQuestions(p) : r = Proposed([p EXCEPT !.status[q] = s], FALSE)
    BY <1>2 DEF ReasonerSettles
  <2>2. q \in Question /\ p.status[q] \notin Settled /\ s \in QuestionStatus
    BY DEF OpenQuestions, Open, Settled, QuestionStatus
  <2>3. [p EXCEPT !.status[q] = s] = [p EXCEPT !.status[q] = s, !.bare = p.bare]
        /\ p.bare \in SUBSET Question
    BY DEF Plan
  <2>4. Advances(p, [p EXCEPT !.status[q] = s, !.bare = p.bare])
    BY <2>2, <2>3, SetStatusAdvances
  <2> QED BY <2>1, <2>3, <2>4 DEF Proposed
<1>3. ASSUME NEW s \in {"waiting_for_evidence"} \union Settled, r \in ReasonerCreates(p, s)
      PROVE  Advances(p, r.plan) /\ r.completes \in BOOLEAN
  <2>1. PICK q \in Question \ Asked(p) :
          r = Proposed([p EXCEPT !.status[q] = s,
                                 !.bare      = @ \union {q}], FALSE)
    BY <1>3 DEF ReasonerCreates
  <2>2. /\ q \in Question
        /\ p.status[q] \notin Settled
        /\ s \in QuestionStatus
        /\ p.bare \union {q} \in SUBSET Question
    BY DEF Asked, Settled, QuestionStatus, Open, Plan
  <2>3. Advances(p, [p EXCEPT !.status[q] = s,
                              !.bare = p.bare \union {q}])
    BY <2>2, SetStatusAdvances
  <2> QED BY <2>1, <2>3 DEF Proposed
<1>4. \/ r = Proposed(p, FALSE) \/ r = Proposed(p, TRUE)
      \/ r \in ReasonerSettles(p, "answered")
      \/ r \in ReasonerSettles(p, "rejected")
      \/ \E s \in {"waiting_for_evidence"} \union Settled : r \in ReasonerCreates(p, s)
  BY OutcomeCases
<1> QED BY <1>1, <1>2, <1>3, <1>4

(* A reasoner writes no record, and a question it adds carries nothing.    *)
LEMMA ReasonerKeeps ==
  ASSUME NEW p \in Plan, NEW E \in SUBSET Evidence, NEW m \in ReasoningOutcomes(p, E)
  PROVE  /\ m.plan.history = p.history
         /\ \A q \in Question :
              p.status[q] = "absent" /\ m.plan.status[q] # "absent" => q \in m.plan.bare
<1>1. CASE m = Proposed(p, FALSE) \/ m = Proposed(p, TRUE)
  BY <1>1 DEF Proposed
<1>2. ASSUME NEW s \in {"answered", "rejected"}, m \in ReasonerSettles(p, s)
      PROVE  /\ m.plan.history = p.history
             /\ \A q \in Question : p.status[q] = "absent" => m.plan.status[q] = "absent"
  <2>1. PICK q \in OpenQuestions(p) : m = Proposed([p EXCEPT !.status[q] = s], FALSE)
    BY <1>2 DEF ReasonerSettles
  <2>2. p.status[q] # "absent"
    BY DEF OpenQuestions, Open
  <2> QED  BY <2>1, <2>2 DEF Proposed, Plan, OpenQuestions
<1>3. ASSUME NEW s \in {"waiting_for_evidence"} \union Settled, m \in ReasonerCreates(p, s)
      PROVE  /\ m.plan.history = p.history
             /\ \A q \in Question :
                  p.status[q] = "absent" /\ m.plan.status[q] # "absent" => q \in m.plan.bare
  <2>1. PICK q \in Question \ Asked(p) :
          m = Proposed([p EXCEPT !.status[q] = s, !.bare = @ \union {q}], FALSE)
    BY <1>3 DEF ReasonerCreates
  <2> QED  BY <2>1 DEF Proposed, Plan
<1> QED  BY <1>1, <1>2, <1>3, OutcomeCases

(***************************************************************************)
(* The runtime.  Inv is inductive; its conjuncts need one another:         *)
(* a completed session's reads keep the archive true because a recompute   *)
(* advances a plan whose records agree, and the archive is of a completed  *)
(* session only because State and Status agree on completion.              *)
(***************************************************************************)
Inv == TypeOK /\ RecordsAgree /\ CompletionAgrees /\ ArchiveFaithful

LEMMA RecordsAgreeIsAgree == RecordsAgree <=> Agree(plan)
  BY DEF RecordsAgree, Agree

LEMMA ReasonedAdvances ==
  ASSUME TypeOK, RecordsAgree, NEW E \in SUBSET Evidence, NEW r \in Reasoned(E)
  PROVE  /\ Advances(plan, r.plan)
         /\ r.done \in BOOLEAN
         /\ status = "completed" => r.done
<1>1. plan \in Plan /\ Agree(plan)
  BY RecordsAgreeIsAgree DEF TypeOK
<1>2. PICK m \in ReasoningOutcomes(plan, E) :
        \E p \in ProtocolRuns(m.plan, E) :
          r = [plan |-> p, done |-> m.completes \/ status = "completed"]
  BY DEF Reasoned
<1>3. PICK p \in ProtocolRuns(m.plan, E) :
        r = [plan |-> p, done |-> m.completes \/ status = "completed"]
  BY <1>2
<1>4. Advances(plan, m.plan) /\ m.completes \in BOOLEAN
  BY <1>1, ReasonerAdvances
<1>5. m.plan \in Plan /\ Agree(m.plan)
  BY <1>4 DEF Advances
<1>6. Advances(m.plan, p)
  BY <1>5, ProtocolAdvances
<1>7. Advances(plan, p)
  BY <1>1, <1>4, <1>6, AdvancesTransitive
<1> QED BY <1>3, <1>4, <1>7

(* What a recompute leaves behind, whatever it was given.                  *)
LEMMA DeriveResult ==
  ASSUME TypeOK, RecordsAgree, CompletionAgrees, NEW E \in SUBSET Evidence,
         NEW r \in Reasoned(E), Derive(E, r)
  PROVE  /\ plan' = r.plan /\ Advances(plan, plan')
         /\ weighed' \subseteq Question
         /\ considered' = E
         /\ confident' \in BOOLEAN
         /\ state' \in State \ {"reasoning", "started"}
         /\ status' \in Status
         /\ (state' = "completed") <=> r.done
         /\ (status' = "completed") <=> r.done
         /\ status = "completed" => r.done
<1>1. Advances(plan, r.plan) /\ r.done \in BOOLEAN /\ (status = "completed" => r.done)
  BY ReasonedAdvances
<1>2. /\ plan' = r.plan
      /\ weighed' \subseteq Question
      /\ considered' = E
  BY DEF Derive, AdoptPlan
<1>3. PICK a \in Assessments(E) :
        /\ confident' = a.confident
        /\ state' = Transition(IF r.done THEN "completed" ELSE BeginReasoning(state),
                               E, r.plan.requests, a)
        /\ status' = DeriveStatus(r.done, state', a)
  BY DEF Derive
<1>4. a \in Assessment
  BY RuntimeAssumption DEF Assessments
<1>5. CASE r.done
  <2>1. state' = "completed"
    BY <1>3, <1>5 DEF Transition
  <2>2. status' = "completed"
    BY <1>3, <1>5 DEF DeriveStatus
  <2> QED BY <1>1, <1>2, <1>3, <1>4, <1>5, <2>1, <2>2 DEF State, Status, Assessment
<1>6. CASE ~r.done
  <2>1. BeginReasoning(state) = "reasoning"
    BY <1>1, <1>6 DEF BeginReasoning, CompletionAgrees
  <2>2. state' = Transition("reasoning", E, r.plan.requests, a)
    BY <1>3, <1>6, <2>1
  <2>3. state' \in {"collecting_evidence", "waiting_for_evidence", "high_confidence"}
    BY <2>2, <1>4 DEF Transition, Assessment
  <2>4. status' \in {"ready_to_conclude", "collecting_evidence"}
    BY <1>3, <1>6, <2>3, <1>4 DEF DeriveStatus, LegacyStatus, Assessment
  <2> QED BY <1>1, <1>2, <1>3, <1>4, <1>6, <2>3, <2>4 DEF State, Status, Assessment
<1> QED BY <1>5, <1>6

(* Inv holds of the new session, and every step keeps it.                  *)
LEMMA InitInv == Init => Inv
<1> SUFFICES ASSUME Init PROVE Inv
  OBVIOUS
<1>1. EmptyPlan \in Plan
  <2>1. << >> \in Seq(Outcome)
    OBVIOUS
  <2> QED BY <2>1 DEF EmptyPlan, Plan, QuestionStatus
<1>2. TypeOK
  BY <1>1 DEF Init, TypeOK, NotArchived, EmptyPlan, Plan, Status
<1>3. RecordsAgree
  BY DEF Init, RecordsAgree, EmptyPlan
<1> QED BY <1>2, <1>3 DEF Init, Inv, CompletionAgrees, ArchiveFaithful, NotArchived

LEMMA StartInv == Inv /\ Start => Inv'
<1> SUFFICES ASSUME Inv, Start PROVE Inv'
  OBVIOUS
<1>1. PICK r \in Reasoned({}) : Derive({}, r)
  BY DEF Start
<1>2. /\ TypeOK /\ RecordsAgree /\ CompletionAgrees /\ ArchiveFaithful
      /\ {} \in SUBSET Evidence
  BY DEF Inv
<1>3. /\ Advances(plan, plan')
      /\ weighed' \subseteq Question
      /\ considered' = {}
      /\ confident' \in BOOLEAN
      /\ state' \in State \ {"reasoning", "started"}
      /\ status' \in Status
      /\ (state' = "completed") <=> (status' = "completed")
  BY <1>1, <1>2, DeriveResult
<1>4. evidence' = evidence /\ archive' = archive
  BY DEF Start
<1>5. ~archive.stored
  BY <1>2 DEF ArchiveFaithful, CompletionAgrees, Start, Live
<1>6. TypeOK'
  BY <1>2, <1>3, <1>4 DEF TypeOK, Advances
<1>7. RecordsAgree'
  BY <1>3 DEF Advances, Agree, RecordsAgree
<1> QED BY <1>3, <1>4, <1>5, <1>6, <1>7 DEF Inv, CompletionAgrees, ArchiveFaithful

LEMMA SubmitBatchInv ==
  ASSUME Inv, NEW batch \in SUBSET Evidence, SubmitBatch(batch)
  PROVE  Inv'
<1> DEFINE E == evidence \union batch
<1>1. PICK r \in Reasoned(E) : Derive(E, r)
  BY DEF SubmitBatch
<1>2. /\ TypeOK /\ RecordsAgree /\ CompletionAgrees /\ ArchiveFaithful
      /\ E \in SUBSET Evidence
  BY DEF Inv, TypeOK
<1> HIDE DEF E
<1>3. /\ Advances(plan, plan')
      /\ weighed' \subseteq Question
      /\ considered' = E
      /\ confident' \in BOOLEAN
      /\ state' \in State \ {"reasoning", "started"}
      /\ status' \in Status
      /\ (state' = "completed") <=> (status' = "completed")
  BY <1>1, <1>2, DeriveResult
<1>4. evidence' = E /\ archive' = archive /\ ~archive.stored
  BY <1>2 DEF SubmitBatch, E, ArchiveFaithful
<1>5. TypeOK'
  BY <1>2, <1>3, <1>4 DEF TypeOK, Advances
<1>6. RecordsAgree'
  BY <1>3 DEF Advances, Agree, RecordsAgree
<1> QED BY <1>3, <1>4, <1>5, <1>6 DEF Inv, CompletionAgrees, ArchiveFaithful

LEMMA SubmitTornInv ==
  ASSUME Inv, NEW prefix \in SUBSET Evidence, SubmitTorn(prefix)
  PROVE  Inv'
<1>1. TypeOK'
  BY DEF Inv, TypeOK, SubmitTorn
<1>2. RecordsAgree' /\ CompletionAgrees'
  BY DEF Inv, RecordsAgree, CompletionAgrees, SubmitTorn
<1>3. ArchiveFaithful'
  BY DEF Inv, ArchiveFaithful, SubmitTorn
<1> QED BY <1>1, <1>2, <1>3 DEF Inv

(* A step that only recomputes: Get, and Finish of a completed session.    *)
LEMMA RecomputeInv ==
  ASSUME Inv, NEW r \in Reasoned(evidence), Derive(evidence, r),
         UNCHANGED <<evidence, archive>>
  PROVE  Inv'
<1>1. /\ TypeOK /\ RecordsAgree /\ CompletionAgrees /\ ArchiveFaithful
      /\ evidence \in SUBSET Evidence
  BY DEF Inv, TypeOK
<1>2. /\ Advances(plan, plan')
      /\ weighed' \subseteq Question
      /\ considered' = evidence
      /\ confident' \in BOOLEAN
      /\ state' \in State \ {"reasoning", "started"}
      /\ status' \in Status
      /\ (state' = "completed") <=> (status' = "completed")
      /\ status = "completed" => status' = "completed"
  BY <1>1, DeriveResult
<1>3. TypeOK'
  BY <1>1, <1>2 DEF TypeOK, Advances
<1>4. RecordsAgree'
  BY <1>2 DEF Advances, Agree, RecordsAgree
<1>5. ASSUME archive'.stored
      PROVE  /\ status' = "completed"
             /\ archive'.evidence = evidence'
             /\ \A q \in Question : archive'.status[q] \in Settled =>
                                      plan'.status[q] = archive'.status[q]
  <2>1. /\ status = "completed"
        /\ archive.evidence = evidence
        /\ \A q \in Question : archive.status[q] \in Settled =>
                                 plan.status[q] = archive.status[q]
    BY <1>1, <1>5 DEF ArchiveFaithful
  <2>2. \A q \in Question : plan.status[q] \in Settled =>
                              plan'.status[q] = plan.status[q]
    BY <1>2 DEF Advances, Kept
  <2> QED BY <1>2, <2>1, <2>2
<1> QED BY <1>2, <1>3, <1>4, <1>5 DEF Inv, CompletionAgrees, ArchiveFaithful

(* A client's verdict leaves well-formed records behind.                    *)
LEMMA ClientResolveEffect ==
  ASSUME NEW p \in Plan, Agree(p), NEW q \in Question, NEW outcome \in Outcome,
         NEW r, r = ClientResolve(p, q, outcome)
  PROVE  /\ r \in Plan
         /\ Agree(r)
         /\ r.history = [p.history EXCEPT ![q] = Append(@, outcome)]
<1> DEFINE H == Append(p.history[q], outcome)
<1>1. p.history \in [Question -> Seq(Outcome)]
  BY DEF Plan
<1>2. H \in Seq(Outcome) /\ H # << >> /\ H[Len(H)] = outcome
  BY <1>1
<1>3. StatusFor(outcome) \in QuestionStatus
  BY DEF StatusFor, QuestionStatus, Settled
<1> HIDE DEF H
<1>4. /\ r \in Plan
      /\ r.history = [p.history EXCEPT ![q] = H]
      /\ r.status = [p.status EXCEPT ![q] = StatusFor(outcome)]
      /\ r.resolution = [p.resolution EXCEPT ![q] = outcome]
  BY <1>2, <1>3 DEF Plan, ClientResolve, H
<1>5. /\ r.history[q] = H /\ r.resolution[q] = outcome /\ r.status[q] = StatusFor(outcome)
      /\ \A u \in Question \ {q} : /\ r.history[u] = p.history[u]
                                   /\ r.resolution[u] = p.resolution[u]
                                   /\ r.status[u] = p.status[u]
  BY <1>4 DEF Plan
<1>6. Agree(r)
  <2> SUFFICES ASSUME NEW u \in Question
               PROVE  IF r.history[u] = << >>
                        THEN r.resolution[u] = "none"
                        ELSE /\ r.resolution[u] = r.history[u][Len(r.history[u])]
                             /\ r.status[u] = StatusFor(r.resolution[u])
    BY DEF Agree
  <2>1. CASE u = q
    BY <2>1, <1>2, <1>5
  <2>2. CASE u # q
    BY <2>2, <1>5 DEF Agree
  <2> QED BY <2>1, <2>2
<1>7. r.history = [p.history EXCEPT ![q] = Append(@, outcome)]
  BY <1>1, <1>4 DEF H
<1> QED BY <1>4, <1>5, <1>6, <1>7

LEMMA ResolveQuestionInv ==
  ASSUME Inv, NEW q \in Question, NEW outcome \in Outcome, ResolveQuestion(q, outcome)
  PROVE  Inv'
<1>1. plan \in Plan /\ Agree(plan)
  BY RecordsAgreeIsAgree DEF Inv, TypeOK
<1>2. plan' = ClientResolve(plan, q, outcome)
  BY DEF ResolveQuestion
<1>3. plan' \in Plan /\ Agree(plan')
  BY <1>1, <1>2, ClientResolveEffect
<1>4. TypeOK'
  BY <1>3 DEF Inv, TypeOK, ResolveQuestion
<1>5. RecordsAgree'
  BY <1>3 DEF RecordsAgree, Agree
<1>6. CompletionAgrees' /\ ArchiveFaithful'
  BY DEF Inv, CompletionAgrees, ArchiveFaithful, ResolveQuestion
<1> QED BY <1>4, <1>5, <1>6 DEF Inv

LEMMA FinishOpenInv == Inv /\ FinishOpen => Inv'
<1> SUFFICES ASSUME Inv, FinishOpen PROVE Inv'
  OBVIOUS
<1>1. PICK r \in Reasoned(evidence) : /\ AdoptPlan(evidence, r)
                                      /\ archive' = Snapshot(evidence, r.plan)
  BY DEF FinishOpen
<1>2. Advances(plan, r.plan)
  BY ReasonedAdvances DEF Inv, TypeOK
<1>3. r.plan \in Plan /\ Agree(r.plan) /\ plan' = r.plan
  BY <1>1, <1>2 DEF Advances, AdoptPlan
<1>4. TypeOK'
  <2>1. archive' \in [evidence : SUBSET Evidence, status : [Question -> QuestionStatus],
                      stored : BOOLEAN]
    BY <1>1, <1>3 DEF Snapshot, Plan, Inv, TypeOK
  <2>2. considered' = evidence /\ weighed' \subseteq Question
    BY <1>1 DEF AdoptPlan
  <2> QED BY <1>3, <2>1, <2>2 DEF Inv, TypeOK, FinishOpen, State, Status
<1>5. RecordsAgree'
  BY <1>3 DEF RecordsAgree, Agree
<1>6. CompletionAgrees'
  BY DEF CompletionAgrees, FinishOpen
<1>7. ArchiveFaithful'
  BY <1>1, <1>3 DEF ArchiveFaithful, FinishOpen, Snapshot
<1> QED BY <1>4, <1>5, <1>6, <1>7 DEF Inv

LEMMA StepInv == Inv /\ [Next]_vars => Inv'
<1> SUFFICES ASSUME Inv, [Next]_vars PROVE Inv'
  OBVIOUS
<1>1. CASE Start
  BY <1>1, StartInv
<1>2. ASSUME NEW batch \in SUBSET Evidence, SubmitBatch(batch) PROVE Inv'
  BY <1>2, SubmitBatchInv
<1>3. ASSUME NEW prefix \in SUBSET Evidence, SubmitTorn(prefix) PROVE Inv'
  BY <1>3, SubmitTornInv
<1>4. CASE Get
  BY <1>4, RecomputeInv DEF Get
<1>5. ASSUME NEW q \in Question, NEW outcome \in Outcome, ResolveQuestion(q, outcome)
      PROVE  Inv'
  BY <1>5, ResolveQuestionInv
<1>6. CASE FinishOpen
  BY <1>6, FinishOpenInv
<1>7. CASE FinishAgain
  BY <1>7, RecomputeInv DEF FinishAgain
<1>8. CASE UNCHANGED vars
  BY <1>8 DEF vars, Inv, TypeOK, RecordsAgree, CompletionAgrees, ArchiveFaithful
<1> QED BY <1>1, <1>2, <1>3, <1>4, <1>5, <1>6, <1>7, <1>8 DEF Next

LEMMA InvHolds == Spec => []Inv
<1> QED BY InitInv, StepInv, PTL DEF Spec

(* Every variable always holds a value of its type: in particular no call  *)
(* ever leaves the transient state "reasoning" behind (recompute).         *)
THEOREM TypeCorrect == Spec => []TypeOK
<1>1. Inv => TypeOK
  BY DEF Inv
<1> QED BY <1>1, InvHolds, PTL

(* Status, Resolution and history of a question never drift apart, however *)
(* automatic, client and reasoner verdicts interleave.                     *)
THEOREM RecordsAlwaysAgree == Spec => []RecordsAgree
<1>1. Inv => RecordsAgree
  BY DEF Inv
<1> QED BY <1>1, InvHolds, PTL

(* State and Status agree on completion after every call.                  *)
THEOREM CompletionAlwaysAgrees == Spec => []CompletionAgrees
<1>1. Inv => CompletionAgrees
  BY DEF Inv
<1> QED BY <1>1, InvHolds, PTL

(* What Finish archived stays true of the session, whatever is read later. *)
THEOREM ArchiveStaysFaithful == Spec => []ArchiveFaithful
<1>1. Inv => ArchiveFaithful
  BY DEF Inv
<1> QED BY <1>1, InvHolds, PTL

(* Every step but a client's verdict advances the plan.                    *)
LEMMA StepAdvances ==
  ASSUME Inv, [Next]_vars
  PROVE  \/ Advances(plan, plan')
         \/ \E q \in Question, outcome \in Outcome : ResolveQuestion(q, outcome)
<1> USE DEF Inv
<1>1. /\ evidence \in SUBSET Evidence /\ {} \in SUBSET Evidence
      /\ plan \in Plan /\ Agree(plan)
  BY RecordsAgreeIsAgree DEF TypeOK
<1>2. CASE Start
  <2>1. PICK r \in Reasoned({}) : Derive({}, r)
    BY <1>2 DEF Start
  <2> QED BY <1>1, <2>1, DeriveResult
<1>3. ASSUME NEW batch \in SUBSET Evidence, SubmitBatch(batch)
      PROVE  Advances(plan, plan')
  <2>1. PICK r \in Reasoned(evidence \union batch) : Derive(evidence \union batch, r)
    BY <1>3 DEF SubmitBatch
  <2>2. evidence \union batch \in SUBSET Evidence
    BY <1>1
  <2> QED BY <2>1, <2>2, DeriveResult
<1>4. ASSUME plan' = plan PROVE Advances(plan, plan')
  BY <1>1, <1>4, AdvancesReflexive
<1>5. CASE Get
  <2>1. PICK r \in Reasoned(evidence) : Derive(evidence, r)
    BY <1>5 DEF Get
  <2> QED BY <1>1, <2>1, DeriveResult
<1>6. CASE FinishOpen
  <2>1. PICK r \in Reasoned(evidence) : plan' = r.plan
    BY <1>6 DEF FinishOpen, AdoptPlan
  <2> QED BY <1>1, <2>1, ReasonedAdvances
<1>7. CASE FinishAgain
  <2>1. PICK r \in Reasoned(evidence) : Derive(evidence, r)
    BY <1>7 DEF FinishAgain
  <2> QED BY <1>1, <2>1, DeriveResult
<1>8. ASSUME NEW prefix \in SUBSET Evidence, SubmitTorn(prefix) PROVE plan' = plan
  BY <1>8 DEF SubmitTorn
<1>9. CASE UNCHANGED vars
  BY <1>9, <1>4 DEF vars
<1> QED BY <1>2, <1>3, <1>4, <1>5, <1>6, <1>7, <1>8, <1>9 DEF Next

(* No recompute, whatever the evidence and the reasoner's proposals, takes *)
(* back the verdict on a settled question: only resolve_question does.     *)
THEOREM VerdictsAlwaysStand == Spec => VerdictsStand
<1> DEFINE Stand == \A q \in Question :
              plan.status[q] \in Settled /\ plan'.status[q] # plan.status[q] =>
                \E outcome \in Outcome : ResolveQuestion(q, outcome)
<1>1. Inv /\ [Next]_vars => [Stand]_vars
  <2> SUFFICES ASSUME Inv, [Next]_vars, NEW q \in Question,
                      plan.status[q] \in Settled, plan'.status[q] # plan.status[q]
               PROVE  \E outcome \in Outcome : ResolveQuestion(q, outcome)
    OBVIOUS
  <2>1. ~Advances(plan, plan')
    BY DEF Advances, Kept
  <2>2. PICK u \in Question, outcome \in Outcome : ResolveQuestion(u, outcome)
    BY <2>1, StepAdvances
  <2>3. plan \in Plan /\ Agree(plan) /\ plan' = ClientResolve(plan, u, outcome)
    BY <2>2, RecordsAgreeIsAgree DEF Inv, TypeOK, ResolveQuestion
  <2>4. u = q
    <3>1. u \in Question /\ outcome \in Outcome
      BY <2>2
    <3>2. \A w \in Question \ {u} : plan'.status[w] = plan.status[w]
      BY <2>3, <3>1 DEF ClientResolve, Plan
    <3> QED BY <3>1, <3>2
  <2> QED BY <2>2, <2>4
<1>2. VerdictsStand <=> [][Stand]_vars
  BY DEF VerdictsStand
<1> QED BY <1>1, <1>2, InvHolds, PTL DEF Spec

(* Reading the runtime's step as a step of the case file.                  *)
LEMMA FirstVerdictsOfCase ==
  ASSUME Advances(plan, plan')
  PROVE  File!FirstVerdicts
  BY DEF Advances, FirstVerdict, File!FirstVerdicts

LEMMA CaseInitHolds == Init => File!CaseInit
  BY DEF Init, File!CaseInit, Phase, Live, EmptyPlan, Archived, NotArchived

LEMMA PhaseOfLive ==
  ASSUME Inv
  PROVE  /\ Phase = "absent" <=> ~Live
         /\ Phase = "open" <=> Live /\ status # "completed"
         /\ Phase = "completed" <=> Live /\ status = "completed"
  BY DEF Phase

LEMMA ArchivedOnlyCompleted ==
  ASSUME Inv, status # "completed"
  PROVE  Archived = {}
  BY DEF Inv, ArchiveFaithful, Archived

LEMMA RecomputeIsCaseStep ==
  ASSUME Inv, Inv', Live, Live', Advances(plan, plan'), UNCHANGED <<evidence, archive>>,
         status = "completed" => status' = "completed"
  PROVE  File!CaseNext
<1>1. File!FirstVerdicts
  BY FirstVerdictsOfCase
<1>2. Archived' = Archived
  BY DEF Archived
<1>3. CASE status = "completed" \/ status' # "completed"
  <2>1. Phase' = Phase /\ Phase # "absent"
    BY <1>3 DEF Phase, Live
  <2>2. File!Read
    BY <1>1, <1>2, <2>1 DEF File!Read
  <2> QED BY <2>2 DEF File!CaseNext
<1>4. CASE status # "completed" /\ status' = "completed"
  <2>1. Phase = "open" /\ Phase' = "completed"
    BY <1>4 DEF Phase, Live
  <2>2. Archived = {}
    BY <1>4, ArchivedOnlyCompleted
  <2>3. File!Complete
    BY <1>1, <1>2, <2>1, <2>2 DEF File!Complete
  <2> QED BY <2>3 DEF File!CaseNext
<1> QED BY <1>3, <1>4

LEMMA StepImplements == Inv /\ Inv' /\ [Next]_vars => [File!CaseNext]_(File!caseVars)
<1> SUFFICES ASSUME Inv, Inv', [Next]_vars PROVE [File!CaseNext]_(File!caseVars)
  OBVIOUS
<1>0. /\ evidence \in SUBSET Evidence /\ {} \in SUBSET Evidence
      /\ plan \in Plan /\ Agree(plan)
  BY RecordsAgreeIsAgree DEF Inv, TypeOK
<1>1. CASE Start
  <2>1. PICK r \in Reasoned({}) : Derive({}, r)
    BY <1>1 DEF Start
  <2>2. /\ Advances(plan, plan')
        /\ state' \in State
        /\ status' = "completed" <=> r.done
    BY <1>0, <2>1, DeriveResult DEF Inv
  <2>3. ~r.done
    <3>0. PICK m \in ReasoningOutcomes(plan, {}) :
            \E p \in ProtocolRuns(m.plan, {}) :
              r = [plan |-> p, done |-> m.completes \/ status = "completed"]
      BY <2>1 DEF Reasoned
    <3>1. m = Proposed(plan, FALSE)
      BY DEF ReasoningOutcomes
    <3>2. PICK p \in ProtocolRuns(m.plan, {}) :
            r = [plan |-> p, done |-> m.completes \/ status = "completed"]
      BY <3>0
    <3>3. m.completes = FALSE
      BY <3>1 DEF Proposed
    <3>4. r.done = (m.completes \/ status = "completed")
      BY <3>2
    <3>5. r.done => status = "completed"
      BY <3>3, <3>4
    <3> QED BY <1>1, <3>5 DEF Start, Live, Inv, CompletionAgrees
  <2>4. Phase = "absent" /\ Phase' = "open"
    BY <1>1, <2>2, <2>3 DEF Start, Phase, Live, State
  <2>5. File!FirstVerdicts
    BY <2>2, FirstVerdictsOfCase
  <2>6. File!OpenCase
    BY <1>1, <2>4, <2>5 DEF Start, Archived, File!OpenCase
  <2> QED BY <2>6 DEF File!CaseNext
<1>2. ASSUME NEW batch \in SUBSET Evidence, SubmitBatch(batch)
      PROVE  File!CaseNext
  <2>1. PICK r \in Reasoned(evidence \union batch) : Derive(evidence \union batch, r)
    BY <1>2 DEF SubmitBatch
  <2>2. evidence \union batch \in SUBSET Evidence
    BY <1>0
  <2>3. Advances(plan, plan') /\ state' \in State
    BY <2>1, <2>2, DeriveResult DEF Inv
  <2>4. Phase = "open" /\ Phase' \in {"open", "completed"}
    BY <1>2, <2>3 DEF SubmitBatch, Phase, Live, State
  <2>5. File!FirstVerdicts
    BY <2>3, FirstVerdictsOfCase
  <2>6. File!AddItems
    BY <1>2, <2>2, <2>4, <2>5 DEF SubmitBatch, Archived, File!AddItems
  <2> QED BY <2>6 DEF File!CaseNext
<1>3. ASSUME NEW prefix \in SUBSET Evidence, SubmitTorn(prefix)
      PROVE  File!CaseNext
  <2>1. Advances(plan, plan')
    BY <1>0, <1>3, AdvancesReflexive DEF SubmitTorn
  <2>2. Phase = "open" /\ Phase' = "open"
    BY <1>3 DEF SubmitTorn, Phase, Live
  <2>3. File!AddItems
    BY <1>0, <1>3, <2>1, <2>2, FirstVerdictsOfCase DEF SubmitTorn, Archived, File!AddItems
  <2> QED BY <2>3 DEF File!CaseNext
<1>4. ASSUME Live, UNCHANGED <<evidence, archive>>,
             NEW r \in Reasoned(evidence), Derive(evidence, r)
      PROVE  File!CaseNext
  <2>1. /\ Advances(plan, plan')
        /\ state' \in State
        /\ status = "completed" => status' = "completed"
    BY <1>0, <1>4, DeriveResult DEF Inv
  <2>2. Live'
    BY <2>1 DEF Live, State
  <2> QED BY <1>4, <2>1, <2>2, RecomputeIsCaseStep
<1>5. ASSUME NEW q \in Question, NEW outcome \in Outcome, ResolveQuestion(q, outcome)
      PROVE  File!CaseNext
  <2>1. plan'.history = [plan.history EXCEPT ![q] = Append(@, outcome)]
    BY <1>0, <1>5, ClientResolveEffect DEF ResolveQuestion
  <2>2. Phase = "open" /\ Phase' = Phase
    BY <1>5 DEF ResolveQuestion, Phase, Live
  <2>3. Archived' = Archived
    BY <1>5 DEF ResolveQuestion, Archived
  <2>4. File!Correct
    BY <1>5, <2>1, <2>2, <2>3 DEF ResolveQuestion, File!Correct
  <2> QED BY <2>4 DEF File!CaseNext
<1>6. CASE FinishOpen
  <2>1. PICK r \in Reasoned(evidence) : /\ ~r.done
                                        /\ plan' = r.plan
                                        /\ archive' = Snapshot(evidence, r.plan)
    BY <1>6 DEF FinishOpen, AdoptPlan
  <2>2. Advances(plan, plan') /\ status # "completed"
    BY <1>0, <2>1, ReasonedAdvances DEF Inv
  <2>3. Phase = "open" /\ Phase' = "completed"
    BY <1>6, <2>2 DEF FinishOpen, Phase, Live
  <2>4. Archived' = {evidence}
    BY <2>1 DEF Archived, Snapshot
  <2>5. File!Complete
    BY <1>6, <2>2, <2>3, <2>4, FirstVerdictsOfCase DEF FinishOpen, File!Complete
  <2> QED BY <2>5 DEF File!CaseNext
<1>7. CASE UNCHANGED vars
  BY <1>7 DEF vars, File!caseVars, Phase, Live, Archived
<1> QED BY <1>1, <1>2, <1>3, <1>4, <1>5, <1>6, <1>7 DEF Next, Get, FinishAgain

(* The runtime, with its recomputes, reasoner and requests, is a case file *)
(* to its clients.                                                         *)
THEOREM RuntimeImplementsCaseFile == Spec => ImplementsCaseFile
<1> QED BY CaseInitHolds, StepImplements, InvHolds, PTL
        DEF Spec, ImplementsCaseFile, File!CaseSpec

-----------------------------------------------------------------------------
(* A step recomputes the plan from all the evidence, leaves it alone, or   *)
(* records a client's verdict.                                             *)
Unstarted == ~Live => evidence = {}

PlanInv == Inv /\ Unstarted /\ GuidanceOnOffer

Recomputed ==
  \E m \in ReasoningOutcomes(plan, evidence') :
    plan' \in ProtocolRuns(m.plan, evidence') /\ considered' = evidence'

LEMMA AdoptsRun ==
  ASSUME NEW r \in Reasoned(evidence'), AdoptPlan(evidence', r)
  PROVE  Recomputed
<1>1. PICK m \in ReasoningOutcomes(plan, evidence') :
        \E p \in ProtocolRuns(m.plan, evidence') :
          r = [plan |-> p, done |-> m.completes \/ status = "completed"]
  BY DEF Reasoned
<1>2. r.plan \in ProtocolRuns(m.plan, evidence')
  BY <1>1
<1> QED  BY <1>2 DEF AdoptPlan, Recomputed

LEMMA PlanSteps ==
  ASSUME Unstarted, [Next]_vars
  PROVE  \/ Recomputed
         \/ plan' = plan /\ considered' = considered
         \/ \E q \in Question, outcome \in Outcome : ResolveQuestion(q, outcome)
<1>1. CASE Start
  BY <1>1, AdoptsRun DEF Start, Derive, Unstarted
<1>2. ASSUME NEW batch \in SUBSET Evidence, SubmitBatch(batch)
      PROVE  Recomputed
  BY <1>2, AdoptsRun DEF SubmitBatch, Derive
<1>3. ASSUME NEW prefix \in SUBSET Evidence, SubmitTorn(prefix)
      PROVE  plan' = plan /\ considered' = considered
  BY <1>3 DEF SubmitTorn
<1>4. CASE Get
  BY <1>4, AdoptsRun DEF Get, Derive
<1>5. CASE FinishOpen
  BY <1>5, AdoptsRun DEF FinishOpen
<1>6. CASE FinishAgain
  BY <1>6, AdoptsRun DEF FinishAgain, Derive
<1>7. CASE UNCHANGED vars
  BY <1>7 DEF vars
<1> QED  BY <1>1, <1>2, <1>3, <1>4, <1>5, <1>6, <1>7 DEF Next

(* Once started, a session stays so.                                       *)
LEMMA UnstartedNext ==
  ASSUME Inv, Unstarted, [Next]_vars
  PROVE  Unstarted'
<1>1. evidence \in SUBSET Evidence
  BY DEF Inv, TypeOK
<1>2. CASE evidence' = evidence /\ (~Live' => ~Live)
  BY <1>2 DEF Unstarted
<1>3. ASSUME NEW E \in SUBSET Evidence, NEW r \in Reasoned(E), Derive(E, r)
      PROVE  Live'
  <2>1. state' \in State
    BY <1>3, DeriveResult DEF Inv
  <2> QED  BY <2>1 DEF Live, State
<1>4. CASE Start
  BY <1>2, <1>4 DEF Start
<1>5. ASSUME NEW batch \in SUBSET Evidence, SubmitBatch(batch)
      PROVE  Live'
  <2>1. evidence \union batch \in SUBSET Evidence
    BY <1>1
  <2> QED  BY <1>3, <1>5, <2>1 DEF SubmitBatch
<1>6. ASSUME NEW prefix \in SUBSET Evidence, SubmitTorn(prefix)
      PROVE  Live'
  BY <1>6 DEF SubmitTorn, Live
<1>7. CASE Get
  BY <1>1, <1>2, <1>3, <1>7 DEF Get
<1>8. ASSUME NEW q \in Question, NEW outcome \in Outcome, ResolveQuestion(q, outcome)
      PROVE  Live'
  BY <1>8 DEF ResolveQuestion, Live
<1>9. CASE FinishOpen
  BY <1>2, <1>9 DEF FinishOpen, Live
<1>10. CASE FinishAgain
  BY <1>1, <1>2, <1>3, <1>10 DEF FinishAgain
<1>11. CASE UNCHANGED vars
  BY <1>2, <1>11 DEF vars, Live
<1>12. Live' => Unstarted'
  BY DEF Unstarted
<1> QED  BY <1>4, <1>5, <1>6, <1>7, <1>8, <1>9, <1>10, <1>11, <1>12 DEF Next

LEMMA GuidanceNext ==
  ASSUME Inv, Inv', Unstarted, GuidanceOnOffer, [Next]_vars
  PROVE  GuidanceOnOffer'
<1>1. plan \in Plan /\ Agree(plan) /\ evidence' \in SUBSET Evidence
  BY RecordsAgreeIsAgree DEF Inv, TypeOK
<1>2. Guides(plan, considered)
  BY DEF GuidanceOnOffer, Guides
<1>3. CASE Recomputed
  <2>1. PICK m \in ReasoningOutcomes(plan, evidence') :
          plan' \in ProtocolRuns(m.plan, evidence') /\ considered' = evidence'
    BY <1>3 DEF Recomputed
  <2>2. m.plan \in Plan /\ Agree(m.plan)
    BY <1>1, <2>1, ReasonerAdvances DEF Advances
  <2>3. Guides(plan', considered')
    BY <1>1, <2>1, <2>2, RunGuides
  <2> QED  BY <2>3 DEF GuidanceOnOffer, Guides
<1>4. CASE plan' = plan /\ considered' = considered
  BY <1>2, <1>4 DEF GuidanceOnOffer, Guides
<1>5. ASSUME NEW q \in Question, NEW outcome \in Outcome, ResolveQuestion(q, outcome)
      PROVE  GuidanceOnOffer'
  <2>1. plan' = ClientResolve(plan, q, outcome) /\ considered' = considered
    BY <1>5 DEF ResolveQuestion
  <2>2. /\ plan'.requests = plan.requests /\ plan'.bare = plan.bare
        /\ plan'.status[q] = StatusFor(outcome)
        /\ \A u \in Question \ {q} : plan'.status[u] = plan.status[u]
    BY <1>1, <2>1 DEF ClientResolve, Plan
  <2>3. Lacking(plan', considered) \subseteq Lacking(plan, considered)
    BY <2>2 DEF Lacking, OpenQuestions, MissingCategories, Needs, StatusFor, Open
  <2>4. Guides(plan', considered)
    BY <1>2, <2>2, <2>3 DEF Guides
  <2> QED  BY <2>1, <2>4 DEF GuidanceOnOffer, Guides
<1> QED  BY <1>3, <1>4, <1>5, PlanSteps

LEMMA InitPlanInv == Init => PlanInv
<1>1. ASSUME Init PROVE Unstarted /\ GuidanceOnOffer
  <2>1. Cardinality({}) = 0
    BY FS_EmptySet
  <2>2. Lacking(plan, considered) = {} /\ plan.requests = {}
    BY <1>1 DEF Init, EmptyPlan, Lacking, OpenQuestions, Open
  <2> QED  BY <1>1, <2>1, <2>2 DEF Init, Unstarted, GuidanceOnOffer
<1> QED  BY <1>1, InitInv DEF PlanInv

LEMMA PlanInvStep == PlanInv /\ [Next]_vars => PlanInv'
  BY StepInv, UnstartedNext, GuidanceNext DEF PlanInv

LEMMA PlanInvHolds == Spec => []PlanInv
  BY InitPlanInv, PlanInvStep, PTL DEF Spec

-----------------------------------------------------------------------------
(* What one step does for a question.                                      *)
LEMMA VerdictStep ==
  ASSUME PlanInv, PlanInv', [Next]_vars, NEW q \in Question,
         plan'.history[q] # plan.history[q],
         ~(\E outcome \in Outcome : ResolveQuestion(q, outcome))
  PROVE  /\ plan'.resolution[q] = Verdict[q][evidence']
         /\ Requires[q] \subseteq HeldCategories(evidence')
<1>1. plan \in Plan /\ Agree(plan) /\ evidence' \in SUBSET Evidence
  BY RecordsAgreeIsAgree DEF PlanInv, Inv, TypeOK
<1>2. CASE Recomputed
  <2>1. PICK m \in ReasoningOutcomes(plan, evidence') : plan' \in ProtocolRuns(m.plan, evidence')
    BY <1>2 DEF Recomputed
  <2>2. m.plan \in Plan /\ Agree(m.plan)
    BY <1>1, <2>1, ReasonerAdvances DEF Advances
  <2>3. m.plan.history = plan.history
    BY <1>1, <2>1, ReasonerKeeps
  <2> QED  BY <1>1, <2>1, <2>2, <2>3, VerdictOfRun
<1>3. ASSUME NEW u \in Question, NEW outcome \in Outcome, ResolveQuestion(u, outcome)
      PROVE  u = q
  <2>1. plan'.history = [plan.history EXCEPT ![u] = Append(@, outcome)]
    BY <1>1, <1>3, ClientResolveEffect DEF ResolveQuestion
  <2> QED  BY <1>1, <2>1 DEF Plan
<1> QED  BY <1>2, <1>3, PlanSteps DEF PlanInv

LEMMA UnlockStep ==
  ASSUME PlanInv, PlanInv', [Next]_vars, NEW q \in Question,
         plan.status[q] = "absent", plan'.status[q] # "absent"
  PROVE  Justified(plan', q) \/ q \in plan'.bare
<1>1. plan \in Plan /\ Agree(plan) /\ evidence' \in SUBSET Evidence
  BY RecordsAgreeIsAgree DEF PlanInv, Inv, TypeOK
<1>2. CASE Recomputed
  <2>1. PICK m \in ReasoningOutcomes(plan, evidence') : plan' \in ProtocolRuns(m.plan, evidence')
    BY <1>2 DEF Recomputed
  <2>2. m.plan \in Plan /\ Agree(m.plan)
    BY <1>1, <2>1, ReasonerAdvances DEF Advances
  <2>3. CASE m.plan.status[q] # "absent"
    BY <1>1, <2>1, <2>2, <2>3, ReasonerKeeps, RunKeepsBare
  <2>4. CASE m.plan.status[q] = "absent"
    BY <1>1, <2>1, <2>2, <2>4, RunJustified
  <2> QED  BY <2>3, <2>4
<1>3. ASSUME NEW u \in Question, NEW outcome \in Outcome, ResolveQuestion(u, outcome)
      PROVE  FALSE
  <2>1. plan.status[u] # "absent" /\ plan' = ClientResolve(plan, u, outcome)
    BY <1>3 DEF ResolveQuestion, Asked
  <2>2. plan'.status[q] = plan.status[q]
    BY <1>1, <2>1 DEF ClientResolve, Plan
  <2> QED  BY <2>2
<1> QED  BY <1>2, <1>3, PlanSteps DEF PlanInv

-----------------------------------------------------------------------------
(* As long as an open question lacks evidence the client is told of one,   *)
(* is asked for at most two things and for nothing it submitted.           *)
THEOREM GuidanceAlwaysOnOffer == Spec => []GuidanceOnOffer
<1>1. PlanInv => GuidanceOnOffer
  BY DEF PlanInv
<1> QED  BY <1>1, PlanInvHolds, PTL

(* No recompute records a verdict on less than all the evidence, what a    *)
(* torn batch left behind included.                                        *)
THEOREM VerdictsAlwaysFromAllEvidence == Spec => VerdictsFromAllEvidence
<1> DEFINE FromAll ==
      \A q \in Question :
        plan'.history[q] # plan.history[q]
        /\ ~(\E outcome \in Outcome : ResolveQuestion(q, outcome)) =>
             /\ plan'.resolution[q] = Verdict[q][evidence']
             /\ Requires[q] \subseteq HeldCategories(evidence')
<1>1. PlanInv /\ PlanInv' /\ [Next]_vars => [FromAll]_vars
  BY VerdictStep
<1>2. VerdictsFromAllEvidence <=> [][FromAll]_vars
  BY DEF VerdictsFromAllEvidence
<1> QED  BY <1>1, <1>2, PlanInvHolds, PTL DEF Spec

(* A question is asked for a reason, and the reason is still there when    *)
(* the recompute that asked is over.                                       *)
THEOREM UnlocksAlwaysJustified == Spec => UnlockJustified
<1> DEFINE ForReason ==
      \A q \in Question :
        plan.status[q] = "absent" /\ plan'.status[q] # "absent" =>
          \/ DependenciesMet(plan', q)
          \/ \E parent \in Question : q \in GeneratedBy(plan', parent)
          \/ q \in plan'.bare
<1>1. PlanInv /\ PlanInv' /\ [Next]_vars => [ForReason]_vars
  BY UnlockStep DEF Justified
<1>2. UnlockJustified <=> [][ForReason]_vars
  BY DEF UnlockJustified
<1> QED  BY <1>1, <1>2, PlanInvHolds, PTL DEF Spec

=============================================================================

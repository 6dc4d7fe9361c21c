-------------------------- MODULE QuestionProtocol --------------------------
(***************************************************************************)
(* The investigation protocol engine (internal/engine/protocol) as pure    *)
(* operators on an investigation plan.                                     *)
(*                                                                         *)
(* A playbook declares questions; each needs evidence of some categories,  *)
(* may depend on other questions, may be dynamic (added only when a signal *)
(* fires) and may generate other questions once confirmed.  One protocol   *)
(* run, ProtocolRuns, is executed inside every recompute of the runtime.   *)
(*                                                                         *)
(* A plan is a record                                                      *)
(*   status      what each question is waiting for, "absent" if not asked  *)
(*   resolution  Question.Resolution: the last recorded verdict, or "none" *)
(*   history     Plan.ResolutionHistory, split by question                 *)
(*   requests    Plan.EvidenceRequests                                     *)
(*   bare        the questions a reasoner created, which carry no          *)
(*               RequiredEvidence whatever the playbook says               *)
(***************************************************************************)
EXTENDS Integers, FiniteSets, Sequences, EvidenceItems

CONSTANTS
  Question,     (* ids of the playbook's questions                          *)
  Requires,     (* categories a question needs before it can be resolved    *)
  Priority,     (* question priority, 0..100                                *)
  DependsOn,    (* questions that must be answered first                    *)
  Generates,    (* questions a confirmed question unlocks                   *)
  Dynamic,      (* the questions with a trigger signal                      *)
  Fires,        (* Fires[q][E]: the trigger of dynamic q fires on E         *)
  Verdict       (* Verdict[q][E]: what the resolver's rules say of q on E   *)

Outcome  == {"confirmed", "rejected"}
Open     == {"waiting_for_evidence", "partially_answered"}
Settled  == {"answered", "rejected"}
QuestionStatus == {"absent"} \union Open \union Settled

ASSUME PlaybookAssumption ==
  /\ Requires  \in [Question -> SUBSET Category]
  /\ Priority  \in [Question -> Nat]
  /\ DependsOn \in [Question -> SUBSET Question]
  /\ Generates \in [Question -> SUBSET Question]
  /\ Dynamic \subseteq Question
  /\ Fires \in [Dynamic -> [SUBSET Evidence -> BOOLEAN]]
  /\ Verdict \in [Question -> [SUBSET Evidence -> Outcome \union {"insufficient"}]]

Request == [question : Question, categories : SUBSET Category]

Plan == [status     : [Question -> QuestionStatus],
         resolution : [Question -> Outcome \union {"none"}],
         history    : [Question -> Seq(Outcome)],
         requests   : SUBSET Request,
         bare       : SUBSET Question]

EmptyPlan == [status     |-> [q \in Question |-> "absent"],
              resolution |-> [q \in Question |-> "none"],
              history    |-> [q \in Question |-> << >>],
              requests   |-> {},
              bare       |-> {}]

StatusFor(outcome) == IF outcome = "confirmed" THEN "answered" ELSE "rejected"

Asked(p)         == {q \in Question : p.status[q] # "absent"}
OpenQuestions(p) == {q \in Question : p.status[q] \in Open}

(* RequiredEvidence of the question as it sits in the plan.                *)
Needs(p, q) == IF q \in p.bare THEN {} ELSE Requires[q]

MissingCategories(p, q, E) == Needs(p, q) \ HeldCategories(E)

(* A dependency counts once its status is "answered": a rejected question  *)
(* never satisfies the questions that depend on it.                        *)
DependenciesMet(p, q) == \A d \in DependsOn[q] : p.status[d] = "answered"

-----------------------------------------------------------------------------
(* Adding questions to the plan.                                           *)

Admit(p, Q) ==
  [p EXCEPT !.status = [q \in Question |->
     IF q \in Q THEN "waiting_for_evidence" ELSE p.status[q]]]

(* Slips the checks are tried against: dependencies ignored; questions     *)
(* admitted only when the plan is first built.                             *)
EnsureQuestionsEagerly(p) ==
  Admit(p, {q \in Question \ Dynamic : p.status[q] = "absent"})

EnsureQuestionsOnce(p) ==
  IF Asked(p) # {} THEN p
  ELSE Admit(p, {q \in Question \ Dynamic : DependenciesMet(p, q)})

EnsureQuestions(p) ==
  Admit(p, {q \in Question \ Dynamic : /\ p.status[q] = "absent"
                                       /\ DependenciesMet(p, q)})

GeneratedBy(p, parent) ==
  IF p.resolution[parent] = "confirmed" THEN Generates[parent] ELSE {}

(* Triggered questions respect their dependencies; the children of a       *)
(* confirmed parent are added whatever their trigger or dependencies.      *)
GenerateDynamicQuestions(p, E) ==
  Admit(p, {q \in Question : /\ p.status[q] = "absent"
                             /\ \/ /\ q \in Dynamic
                                   /\ Fires[q][E]
                                   /\ DependenciesMet(p, q)
                                \/ \E parent \in Question : q \in GeneratedBy(p, parent)})

-----------------------------------------------------------------------------
(* Resolving questions from evidence.                                      *)

(* Slip: one required category is enough to decide.                        *)
ResolveEarly(p, q, E) ==
  IF Needs(p, q) \intersect HeldCategories(E) # {}
    THEN Verdict[q][E]
    ELSE "insufficient"

(* The resolver abstains until every required category is present, then    *)
(* lets the question's own rules decide; a question that requires nothing  *)
(* is never resolved from evidence.                                        *)
Resolve(p, q, E) ==
  IF Needs(p, q) # {} /\ MissingCategories(p, q, E) = {}
    THEN Verdict[q][E]
    ELSE "insufficient"

(* The status of a question the resolver abstained on.  With every         *)
(* category present and no conclusive rule it keeps the status it had.     *)
PartialStatus(p, q, E) ==
  CASE Needs(p, q) \intersect HeldCategories(E) = {} -> "waiting_for_evidence"
    [] /\ Needs(p, q) \intersect HeldCategories(E) # {}
       /\ MissingCategories(p, q, E) # {}           -> "partially_answered"
    [] OTHER                                        -> p.status[q]

(* Slip: settled questions are resolved again.                             *)
ConclusiveAgain(p, q, E) == /\ p.status[q] # "absent"
                            /\ Resolve(p, q, E) \in Outcome
                            /\ StatusFor(Resolve(p, q, E)) # p.status[q]

(* Settled questions are skipped: a verdict once recorded is not           *)
(* reconsidered, whatever later evidence says.                             *)
Conclusive(p, q, E) == /\ p.status[q] \in Open
                       /\ Resolve(p, q, E) \in Outcome

(* One pass over the plan.                                                 *)
ResolveQuestions(p, E) ==
  [p EXCEPT
     !.status = [q \in Question |->
        CASE Conclusive(p, q, E) -> StatusFor(Resolve(p, q, E))
          [] /\ p.status[q] \in Open
             /\ ~Conclusive(p, q, E) -> PartialStatus(p, q, E)
          [] OTHER -> p.status[q]],
     !.resolution = [q \in Question |->
        IF Conclusive(p, q, E) THEN Resolve(p, q, E) ELSE p.resolution[q]],
     !.history = [q \in Question |->
        IF Conclusive(p, q, E) THEN Append(p.history[q], Resolve(p, q, E))
                               ELSE p.history[q]]]

-----------------------------------------------------------------------------
(* Evidence requests: at most two, for the open questions whose answer is  *)
(* expected to gain most.                                                  *)

(* expectedGain in thirds of a point: clamp(priority/3 + 8*missing, 10, 40) *)
ExpectedGain(p, q, E) ==
  LET raw == Priority[q] + 24 * Cardinality(MissingCategories(p, q, E))
  IN  IF raw < 30 THEN 30 ELSE IF raw > 120 THEN 120 ELSE raw

(* The stable sort by gain keeps the order by priority among equal gains.  *)
AheadOf(p, a, b, E) ==
  \/ ExpectedGain(p, a, E) > ExpectedGain(p, b, E)
  \/ /\ ExpectedGain(p, a, E) = ExpectedGain(p, b, E)
     /\ Priority[a] >= Priority[b]

RequestFor(p, E, q) == [question   |-> q,
                        categories |-> MissingCategories(p, q, E)]

Lacking(p, E) == {q \in OpenQuestions(p) : MissingCategories(p, q, E) # {}}

(* Equal gain and equal priority leave the playbook's order to decide,     *)
(* which the model does not track: any of the tied questions may win.      *)
Selections(p, E) ==
  {S \in {{a, b} : a, b \in Lacking(p, E)} \union {{}} :
     /\ Cardinality(S) = 2 \/ S = Lacking(p, E)
     /\ \A a \in S, b \in Lacking(p, E) \ S : AheadOf(p, a, b, E)}

(* Slip: requests nobody marked fulfilled are carried over.                *)
SyncKeepsOld(p, E) ==
  {[p EXCEPT !.requests = @ \union {RequestFor(p, E, q) : q \in S}] : S \in Selections(p, E)}

SyncEvidenceRequests(p, E) ==
  {[p EXCEPT !.requests = {RequestFor(p, E, q) : q \in S}] : S \in Selections(p, E)}

-----------------------------------------------------------------------------
(* One protocol run.  The code also syncs the requests before resolving;   *)
(* the second sync overwrites everything the first one wrote, and nothing  *)
(* in between reads it, so only the second is kept here.                   *)
AskedAfter(p, E) == GenerateDynamicQuestions(EnsureQuestions(p), E)

ProtocolRuns(p, E) ==
  UNION {SyncEvidenceRequests(AskedAfter(resolved, E), E) :
           resolved \in {ResolveQuestions(asked, E) : asked \in {AskedAfter(p, E)}}}

(* The resolve_question tool: the client's verdict on a question of the    *)
(* plan, settled already or not.  Dependents and requests wait for the     *)
(* next protocol run.                                                      *)
ClientResolve(p, q, outcome) ==
  [p EXCEPT !.status[q]     = StatusFor(outcome),
            !.resolution[q] = outcome,
            !.history[q]    = Append(p.history[q], outcome)]

=============================================================================

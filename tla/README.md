# Verification of the Incident Investigator runtime

TLA+ modules, TLC configurations and TLAPS proofs for the investigation runtime
of this repository. The server keeps investigation sessions: clients submit
evidence over MCP tools, the runtime re-derives the whole session from the
evidence on nearly every call, and a protocol engine asks and settles questions.

The system is modelled at four scales, which can be read one by one:

1. `CaseFile`, what a session promises its clients; `InvestigationRuntime` over
   `QuestionProtocol`, one session whose handlers are atomic;
2. `Signals`, `RootCausePlaybook`, `HypothesisField`, `Heuristics`,
   `InvestigationGraph`, what a recompute makes of the evidence, composed by
   `ReasoningCycle` into one recompute, stage by stage;
3. `ToolCalls`, the tool calls as threads under the store's mutex;
4. `IncidentIntelligence` and `SharedArchive`, the sessions that calibrate each
   other through one archive.

`QuestionProtocolProofs`, `InvestigationRuntimeProofs` and, for the shipped
playbooks, `RootCauseInvestigationProofs` prove about the first,
`ReasoningCycleProofs` about the second, `ToolCallsProofs` about the third,
`SharedArchiveProofs` about the fourth. `ToolCalls` and `InvestigationRuntime`
implement `CaseFile`; `ReasoningCycle` implements `InvestigationRuntime`.

## 1. Inventory of the system

| component (source) | state | operations | what is hard, and what must hold |
|---|---|---|---|
| Runtime (`internal/runtime/runtime.go`) | one `Session` per investigation: evidence, plan, hypotheses, confidence, `State`, `Status` | `Start`, `Submit`, `Get` (and every read tool through it), `ResolveQuestion`, `Finish`, internal `recompute` | a rejected batch leaves its prefix behind; reads write; `ResolveQuestion` does not recompute; completed sessions are still recomputed. Records, guidance and archive must stay consistent in any order of calls |
| Session store (`runtime/store.go`) | map of sessions, one mutex | `Create`, `Get`, `Save`, `WithSession` | one lock for all sessions, held through the recompute; the session pointer escapes it |
| Protocol engine (`engine/protocol/engine.go`) | `InvestigationPlan`: questions, history, requests | `Run` (ensure, generate, sync, resolve, sync), `ResolveQuestion` | three ways into the plan; settled questions skipped; one resolving pass per run; requests are a cached view |
| Resolution engine (`engine/protocol/resolution.go`) | none | `Resolve`: a gate on required categories and a rule per question | rules read keywords, categories and timestamps of all evidence |
| Playbooks (`engine/playbook`) and archetype seeds (`archetype/builtin`) | constant data | `ForGoal`, `SeedQuestions`, `Score` | chains of dependencies and generated questions |
| Signals (`internal/signals`) | none | `Analyze`, negation, lock-queue clustering | arrival order against timestamps; denials; category names heard as keywords |
| State machine, sufficiency, confidence, coverage, progress (`internal/engine`) | none (fields of the session) | `Transition`, `BeginReasoning`, `Evaluate`, `Score` | `State` and `Status` are kept by different code |
| Reasoning cycle (`internal/reasoning`, `internal/reasoners`) | cycle journal | reasoners, `Merge`, `Validate`, `Apply` | proposals that bypass the protocol engine; order of merged actions |
| Semantic reasoner and host LLM (`reasoning/semantic.go`, `hostllm.go`, `mcpserver/hostllm.go`) | none | one sampling round trip per cycle | any answer may come back, while the store is locked |
| Graph (`internal/graph`, `engine/graph*.go`) | `InvestigationGraph` | build, infer, traverse, check | idempotent merge, cycles |
| Intelligence (`internal/intelligence`) | archive shared by all sessions | store, calibrate, similar, patterns | one session's confidence depends on the others archived before |
| Event bus (`internal/events`) | handlers | `Subscribe`, `Publish` | synchronous handlers under the store lock |
| MCP server (`internal/mcpserver`) | none | one tool per runtime call | response copied from the session after the unlock |
| Views, export, extension API, fixtures, command | none | formatting, test data, start-up | not modelled |

Interaction: an MCP tool calls one runtime handler; the handler runs inside
`WithSession`; `recompute` runs the reasoning cycle, then one protocol run,
then scoring and calibration, then the state machine; `Finish` archives. The
hazards of this code, each at its line, are listed in `PROJECT.json`.

## 2. Modules

| module | models | state and actions |
|---|---|---|
| `EvidenceItems` | evidence ids and their category | constants |
| `QuestionProtocol` | the protocol engine as pure operators on a plan record; the playbook (requirements, priorities, dependencies, triggers, verdict rules) is a set of constants | `ProtocolRuns` = ensure, generate, resolve, generate, sync |
| `InvestigationRuntime` | one session and its handlers | `evidence`, `plan`, `confident`, `state`, `status` are session fields; `archive` is the intelligence archive's entry; `considered` (evidence of the last recompute) and `weighed` (verdicts whose effects are in the current hypotheses) are history variables that no guard reads. Actions `Start`, `SubmitBatch`, `SubmitTorn`, `Get`, `ResolveQuestion`, `FinishOpen`, `FinishAgain` |
| `CaseFile` | items, a verdict log per question, one snapshot | abstract specification |
| `Signals` | what `internal/signals` reads out of evidence: keywords, denials, order of deployment, symptom and recovery, lock queues | operators on sets of items |
| `RootCausePlaybook` | all archetype seeds as sets of records, the two text playbooks, trigger signals, the resolver's rule and the effects of every question | values for the constants of `QuestionProtocol` |
| `RootCauseInvestigation` | the runtime with those values (`FollowsPlaybooks`), for a slice of the playbooks that contains what its questions depend on (`SliceAssumption`) | properties of the shipped questions |
| `Sorting` | `sort.SliceStable`, by what it promises | pure operators |
| `HypothesisField` | the score of every built-in archetype and the registry's ranked field | `Generate` |
| `Heuristics` | planner, missing evidence, progress, coverage, contradictions, confidence, sufficiency, in tenths of a percent | pure operators |
| `InvestigationGraph` | the graph builder, the inferred edges, the graph store's `AddEdge` (`AddEdges`) and its consistency check | pure operators on `[nodes, edges]` |
| `ReasoningCycle` | `Runtime.recompute` with its reasoners, the host's model, merge, validation, application, protocol run and assessment | `session` and `plan` are what the last recompute stored; `draft` is what the one under way has made of them; `results` the reasoners that have answered. Actions `Submit`, `Get`, `Reason`, `Merge`, `Apply`, `Ask`, `ResolveTurn`, `Conclude`; `considered` and `calm` are history |
| `ToolCalls` | the MCP handlers as threads between whose steps other calls run | `holder` is the store's mutex, `pc[c]` where call `c` is; `derived[s][f]` stands for a half of session `s` by the evidence it was derived from; `floor` is history. Actions: one per step of a call (`Acquire`, `Ingest`, `Collect`, `SamplingEnds`, `Rewrite`, ..., `Release`, `Create`, `Lookup`, `ReadField`) |
| `IncidentIntelligence` | snapshot records, calibration, similarity, pattern library, lessons, recommendations | pure operators |
| `SharedArchive` | sessions that share one archive | per-session `profile`, `evidence`, `confidence`, `state`, `status`; `archive`, `stored`. Actions `Start`, `Submit`, `Get`, `Finish` per session |
| `QuestionProtocolProofs`, `InvestigationRuntimeProofs`, `RootCauseInvestigationProofs`, `ReasoningCycleProofs`, `ToolCallsProofs`, `SharedArchiveProofs` | the theorems | |
| `FiniteInduction`, `Folding` | induction over sets of naturals and over finite sets; what every step of a `FoldLeft` keeps, the fold keeps | lemmas |
| `MCGeneric`, `MCPlaybook`, `MCReasoningCycle`, `MCToolCalls`, `MCSharedArchive` | values for the runs | |

How the scales fit together:

* In `InvestigationRuntime` a handler is one atomic step because the code runs it
  under one exclusive lock, and what the heuristics make of the evidence is a
  choice among the combinations they can produce (`Assessments`). `ToolCalls`
  opens the first abstraction: the lock, the loop over a batch, the round trip
  to the host's model inside the lock, the response read field by field from
  the live session *after* the lock is released, the graph and intelligence tools
  that only look the session up. There, what a field contains is abstracted to
  the evidence it was derived from. `ReasoningCycle` opens the second: the
  numbers are computed, and the run checks that each recompute is one of those
  `InvestigationRuntime` allows (`ImplementsRuntime`).
* In `ReasoningCycle` the reasoners of a cycle all read the session as it was
  when the recompute began, and so do the links that are added to the graph;
  each action is validated and applied to the draft in the merged order. `Apply`
  is one step since nothing can come in between once the results are merged.
* In `SharedArchive` calls are atomic, and what a recompute makes of a set of
  evidence before calibration is a table (`Outlook`) with two incidents whose
  figures lie on either side of the thresholds.

Abstractions of data. Evidence items are ids; their text is the set of keyword
groups it matches, and the category's own name counts as text as it does in the
code. Scores are the code's whole points and percentages are tenths, as `round1`
leaves them; floating point in between is taken as exact (shares of two counts as
millionths). In `InvestigationRuntime` confidence is "at least 70" or not, and a
reasoner's proposal is nothing or one action of the four kinds that touch the
plan or completion. What the prompt's schema has no field for (required evidence,
dependencies or a ready-made resolution inside a created question) is left out,
although the JSON decoder would accept it, and so is the second question the prompt
allows in one answer. `ReasoningCycle` has no created questions at all (section 6).
Priority ties among requests are broken by a choice.
The plan's first request sync is left out: the second overwrites all of it. Of
several archetypes with equal shares the one whose id comes first ranks higher,
as in the code.

Definitions whose comment begins with *Slip* are plausible mistakes; no
specification uses them. They exist so that each property can be seen to fail
when the code it is about is changed.

## 3. What the runs check

Runs expected to pass:

* `generic_safety` (`MCGeneric`, two items, all reasoner proposals, all
  assessments; about 92 700 states). `TypeOK`; `ArchiveFaithful` (the snapshot
  keeps the final evidence and verdicts); `RecordsAgree` (status, resolution and
  history of a question); `GuidanceOnOffer` (an open question lacking evidence
  means a request is on offer, and none asks for what is held);
  `CompletionAgrees`; `VerdictsStand` (only a client's verdict moves a settled
  question); `UnlockJustified`; `VerdictsFromAllEvidence` (also of evidence a
  torn batch left); `ImplementsCaseFile`.
* `generic_liveness` (three items, weak fairness of `Get`, one assessment, no
  reasoner; about 4 900 states). `Converges`, `UnlockedIsAsked`,
  `TornEvidenceConsidered`.
* `deploy_slice` (the three deployment questions; a release, a denial,
  symptoms before and after, a quiet log, a recovery). `DeployVerdictGrounded`,
  `RollbackJudgedOnBlame`, `DeploymentSettles`.
* `config_chain` (`config-changed`, `pods-restarted`, `traffic-shifted`; a
  denied, a real and a mentioned change). `ChainInOrder`, `RuledOutStopsChain`.
* `concurrent_clients` (`MCToolCalls`; about 534 000 states, a minute and a
  half). Six calls overlap: the start of a session, two submissions of
  overlapping batches, the second of a client with a host model, a verdict, a
  finish and an unlocked reader. `OneInside`; `WholeWhenFree` (no session between
  two calls has parts derived from different evidence); `NoItemTwice` (a repeated
  submission); `RepliesFresh` (what a response may not show, although it is read
  after the unlock); `ReportMatchesArchive`; `CompletionAnnouncedLast`;
  `AllCallsEnd`; `ImplementsCaseFile` (overlapping calls act as if one after the
  other). A response may well mix two recomputes, which `RepliesFresh` does not
  forbid, as the code does nothing against it.
* `reasoning_cycle` (`MCReasoningCycle`; about 406 000 states, a minute and a
  quarter). Eleven items in three batches, submitted in any order, reasoners in
  turn or in parallel with their results arriving in any order, a host model that
  refutes, replaces, settles, links, or ends the investigation. `SharesAddUp`,
  `GraphFaithful`, `RereadingChangesNothing` (the values a recompute carries over
  to the next catch up after two reads), `ProgressNeedsOpenQuestion`,
  `ImplementsRuntime`.
* `shared_archive` (`MCSharedArchive`; about 82 000 states, under a minute).
  Three sessions of two services, none, or another goal. `UnrelatedHistoryUnfelt`
  (an assessment moves only with one's own evidence or a finished investigation
  of one's own kind; finishing does not make a session confirm itself),
  `NovelCauseHeldBack` (the finish of *one* related session with another cause
  takes high confidence away), `PrecedentsStand` (what is told of precedents is
  borne out by the archive).

Runs that show a disagreement between the code and its own texts (the quotes are
in `PROJECT.json`):

* `network_quiet`: a network item always rejects `network-healthy`, because its
  category's name contains the keyword.
* `database_conflict`: `database-healthy` and `database-saturated` can both be
  confirmed.
* `timeline_stuck`: the timeline playbook's questions have no rule, so the
  first is never settled and the others never asked.
* `stale_request`: `ResolveQuestion` does not recompute, so a request for the
  settled question stands.
* `lost_effects`: verdicts recorded before `Finish` are not weighed in the
  report's hypotheses.

**Bounds.** In `MCGeneric`, `MaxResolutions` bounds explicit verdicts per
question (the history would grow without end): two on `root`, so that a verdict
can be corrected while its dependents exist, one on the others. `root`, `child`,
`dyn` are one question of each kind the engine distinguishes, and two categories
make "some but not all required evidence" possible. With two items a batch can be
torn, whole, early or late, and `e3` turns every verdict around; the liveness run
adds `e2`, which fires the trigger without deciding anything. The playbook slices
contain every question a property speaks of, and items for both sides of each
rule involved; clients give no verdicts there (`NoVerdicts`), as `MCGeneric`
covers them. One proposal per reasoning cycle is enough for a proposal to
precede, follow or interrupt any other call.

`concurrent_clients` makes each call once: two submissions that share an item
give a batch that is accepted, torn and refused; `finish` against each of them,
against the verdict and against the unlocked read gives each race on completion.
The tools behind `Runtime.Get` take the steps of a submission after its loop, so
they add no step of their own; the proofs cover them, and any number of sessions
and calls.

In `reasoning_cycle`, `MaxSpoken = 1` lets the host speak in one recompute, at
any point of the session's life, and the recomputes after it show what remains of
that. The questions are those the items can settle, and `pods-restarted`, whose
parent waits; all archetypes are scored. The batches contain a lock queue, a release before
and after the onset, a denial, a recovery and a repeated summary.

In `shared_archive` three sessions are the fewest in which one weighs two others
that disagree; clients and their sessions are interchangeable, hence the symmetry.

**Fairness.** `InvestigationRuntime`: only `WF_vars(Get)`: the client keeps
reading. The runtime schedules nothing by itself, so no other action is owed, and
without reads nothing converges. `Get` is enabled whenever the session exists.
`ToolCalls`: `WF_vars(Step(c))` for each call: the Go scheduler runs every
goroutine, a mutex that stays free is taken, and a host answers, fails, or is cut
off when its client cancels. `Arrive` is not fair, since no client owes a call. That
no waiter is starved is not assumed: there are finitely many calls, so the
mutex comes to stay free.

**Deadlock** is checked in every run but `concurrent_clients`, which stops when
every call has been made and answered; that none is stuck before is `AllCallsEnd`.
Elsewhere a started session can always be read.

## 4. What is proved

### One session

`InvestigationRuntimeProofs` proves for every playbook, evidence set, bound and
set of proposals, from `EvidenceAssumption`, `PlaybookAssumption` and
`RuntimeAssumption` only (types of the constants):

| theorem | property |
|---|---|
| `TypeCorrect` | `TypeOK` |
| `RecordsAlwaysAgree` | `RecordsAgree` |
| `CompletionAlwaysAgrees` | `CompletionAgrees` |
| `ArchiveStaysFaithful` | `ArchiveFaithful` |
| `VerdictsAlwaysStand` | `VerdictsStand` |
| `RuntimeImplementsCaseFile` | `ImplementsCaseFile` |

The inductive invariant is
`Inv == TypeOK /\ RecordsAgree /\ CompletionAgrees /\ ArchiveFaithful`. None of
the last three is inductive alone: a recompute keeps the archive true because it
moves a plan *whose records agree* in one direction only, and the archive is of a
completed session only because `State` and `Status` agree. The core is a relation
between plans, `Advances(p, r)`: `r` is well-formed, its records agree, settled
questions are as in `p`, and every other question got at most a first verdict. It
is reflexive and transitive, each operation of the protocol engine and each
reasoner proposal advances the plan, hence so does a whole recompute
(`QuestionProtocolProofs` has the operations of the engine). One lemma
per action then preserves `Inv`; the step theorems (`VerdictsStand`, the
refinement) reuse the same lemmas. Refinement maps `Phase`, `evidence`,
`plan.history` and the archived item set to the case file's variables.

From there, and from the same assumptions, the module goes on to what a
recompute leaves behind:

| theorem | property |
|---|---|
| `GuidanceAlwaysOnOffer` | `GuidanceOnOffer` |
| `VerdictsAlwaysFromAllEvidence` | `VerdictsFromAllEvidence` |
| `UnlocksAlwaysJustified` | `UnlockJustified` |

The invariant is `PlanInv == Inv /\ Unstarted /\ GuidanceOnOffer` (`Unstarted`: no
evidence before the start, so that the first recompute, too, sees all there is).
`PlanSteps` sorts the actions into three: those that recompute the plan from all
the evidence, those that leave it alone, and a client's verdict. For a recompute
each operation of the engine is followed in turn: what it writes (`AdmitKeeps`,
`ResolvingKeeps`, `SyncKeeps`, ...), and, from `Advances`, that the operations
after it do not undo it. A reason
to ask is another question that is settled, and `Advances` keeps settled questions
as they are, so the reason still stands at the end of the run (`ReasonsStand`).

### Calls side by side

`ToolCallsProofs` proves for any number of sessions, items and calls, from
`CallAssumption` only (types, batches are not empty, one start per session):

| theorem | property |
|---|---|
| `TypesKept` | `TypeOK` |
| `Exclusion` | `OneInside` |
| `WholeBetweenCalls` | `WholeWhenFree` |
| `ItemsOnce` | `NoItemTwice` |
| `FreshReplies` | `RepliesFresh` |
| `ArchiveOfReports` | `ReportMatchesArchive` |
| `CompletionLast` | `CompletionAnnouncedLast` |

`OneInside` is what all of them need, and it needs the control flow (`OnPath`:
which labels a tool's call can be at). A start's recompute runs outside the
mutex, so `StartsFirst` (nobody else knows the session before its start returned)
and `BornEmpty` take the lock's place there. `WholeWhenFree` follows from
`BasisHeld` (what the reasoners looked at is still what the session holds, even
after the wait for the host) and `HalvesAgree` (the halves differ only while
the holder is rewriting this session). `SeenHeld` ties the map of ids in `Submit` to
the evidence, which gives `NoItemTwice`. `Announcements`, `Expectations` and
`Reports` carry the last three. `IInv` is the conjunction; there is one lemma per
action, and under it one step per conjunct the action can disturb.

`CallsImplementCaseFile`, in the same module, says that every session refines
`CaseFile` (property `ImplementsCaseFile`), whatever else runs. Its invariant is
`CaseInv == IInv /\ OpenWork /\ ArchivedClosed`: a call that has passed the check
of the completion works on an open session, which holds because the check and
the work are inside one hold of the mutex, and only completed sessions are
archived. There is one lemma per step that writes the session's items, verdicts,
completion or snapshot; all other steps, and all steps on other sessions,
stutter.

### Reasoner by reasoner

`ReasoningCycleProofs` proves for every slice of the shipped playbooks, any
finite batches of items with any text and timestamps, either strategy, any order
in which the reasoners' results come in, and any answers of the host's model that
parse (`AnswerAssumption`):

| theorem | property |
|---|---|
| `CycleAlwaysTyped` | `TypeOK`, if `HostOnScale` |
| `SharesAlwaysAddUp` | `SharesAddUp` |
| `ProgressAlwaysNeedsOpenQuestion` | `ProgressNeedsOpenQuestion`, if `HostOnScale` |
| `GraphAlwaysFaithful` | `GraphFaithful`, if `HostDrawsNoGraph` and `ShippedPlaybooks` |
| `CycleImplementsRuntime` | `ImplementsRuntime`, if `OneProposal` and `ShippedNeeds` |
| `RereadingNeverChanges` | `RereadingChangesNothing` |

`HostOnScale` says that an answer which sets the coverage sets it to a
percentage. It is needed: the applier clamps the confidence and the progress of
an action and stores the coverage as it comes (`applier.go:75-77`), so a model that
reports a coverage of 2000 percent leaves the session with it, and with a progress
of 100 percent whether or not a question is open. Nothing else is asked of an answer; shares, deltas and figures of any
size are among those the theorems cover, and so is a hypothesis that is listed
twice.

None of the first three is inductive: between two calls the shares are what the last
recompute made of archetypes, reasoners, host and verdicts, in four numerically
different steps. `CycleInv` follows the recompute phase by phase:

* The heuristics stay on their scales (`ProgressOnScale`, `CoverageOnScale`,
  `ScoreOnScale`, `PercentOnScale`): sums over finite sets, each ratio rounded
  (`RoundedBetween`). The archetypes make a well-formed field of hypotheses
  (`GenerateIsField`), for which the score of each of the archetypes is shown to be
  a natural number.
* So every reasoner proposes well-formed actions (`ReasonersPropose`); each
  action keeps session, plan and graph well-formed (`ActionApplied`), and, by
  `Folding`, so do all the actions of all the results in whatever order
  (`ResultsApplied`). Shares may be anything at this point: the host may replace the
  field with numbers of its own.
* The protocol run clamps and rescales them. `RescaledAddsUp` is the arithmetic
  of `normalizeHypothesisConfidences`: each share is rounded by at most half a unit,
  hence the sum by at most half a unit each; were one normaliser, here the one
  that skips refuted hypotheses, used in the place of the other, it would fail.
* The plan's listing has each question once and those of the plan only
  (`ListedAsAsked`), so the turn's verdicts are weighed once each.
* With no question open, no evidence is requested (`LegacyWeighed`), so the
  percentage is measured without the requests and stays below its threshold
  (`PercentOnScale`).

`GraphFaithful` needs two hypotheses more. `HostDrawsNoGraph`: the host's prompt has
no field for a graph, but the applier would store one it is handed without looking
at it. What the host may do is what `applyOne` knows (links, verdicts, hypotheses,
contradictions, figures, the end); a question of its own making, whose dependencies
the applier does not look up, is not among it and could break the property
(section 6). `ShippedPlaybooks`: the seeds are those of the repository, in which the
question that unlocks another is the one the other depends on. The invariant is
`CycleInv /\ GraphInv`, and its argument, unlike those above, is about order:

* Whatever order the reasoners' results come in, `Merge` sorts them, so that they
  are applied in the one order of `InOrder` (`MergedInOrder`, `AppliedInOrder`); a
  fold over them is followed action by action (`TemporalTaken`, `HypothesisTaken`,
  `ConsistencyTaken`).
* The temporal reasoner links nodes of the graph of the recompute before, *then*
  the hypothesis reasoner replaces the graph by one built anew from all the
  evidence (`BuildShows`), to which the consistency reasoner and the host may only
  add edges that the validator has compared with the nodes of the draft.
* The edges of the new graph end in its nodes. For the edges between items this
  rests on the evidence being sorted by time, whole and each item once
  (`OrderListsAll`); for the edges between questions on
  `DepsAsked`: the dependencies of a question asked are asked. The protocol engine
  asks a question only when its dependencies are settled, but a confirmed question
  unlocks others without looking, and what saves them is `Lineage`, read off the
  seeds. With a playbook that broke it the graph would have dangling edges.
* Whether evidence can be missing depends on a host that linked nodes before the
  graph was redrawn, which is what the property's exception says.

`ImplementsRuntime` says that the numbers do not matter to the control: of all that a
recompute computes, the session it ends with is one of those
`InvestigationRuntime` lets a `Start`, a `SubmitBatch` or a `Get` end with. Its
hypotheses are bounds of that module. `OneProposal`: an answer settles one question,
or ends the investigation, or does neither, as `InvestigationRuntime` takes at
most one proposal per recompute. `ShippedNeeds`: a question requires the categories
its seed lists, where `InvestigationRuntime` leaves `Requires` to its constant.
The invariant is `CycleInv /\ RunInv`:

* An action that is no proposal leaves plan and completion as they are, so after
  the host's actions the plan is one of those that one proposal makes
  (`Reached`, `AppliedReaches`, `ReachedOutcome`), however many other actions
  there were.
* From there the protocol run is followed step by step: `RunInv` remembers at each
  phase the plan the run began with and that all the phases since agree with it
  (`RunFrom`, `SameRuns`), and the history has grown by just the verdicts of the
  turn (`WeighedTurn`).
* What the heuristics choose freely there is computed here, so each choice has to
  be one of those allowed: the requests are empty exactly when no open question
  lacks evidence (`RequestsMissing`, which needs `ShippedNeeds`); without evidence
  there is no progress and the score stays below 70 percent (`NothingWeighed`,
  `NoConfidence`); state and status come of the figures by the runtime's own
  `Transition` and `DeriveStatus` (`AssessedDerives`).
* `Conclude` is then one of the three calls (`ConcludeCalls`), and every other step
  changes nothing that `InvestigationRuntime` sees.

`RereadingNeverChanges` needs no hypothesis. A recompute reads what the one before
left: the coverage is taken of the required evidence of last time, the graph drawn
with the hypotheses of last time. So one call that brings nothing new may still
change the session, and the property speaks of the third in a row. The invariant is
`CycleInv /\ StillInv`:

* While the host keeps silent, the actions set the four figures of `Reasoned`, each
  a function of evidence, plan and the session the recompute found, and leave the
  hypotheses as the archetypes and the two built-in adjustments make them
  (`FieldLeft`); what each action sets and leaves is `ActionSets`, followed through
  the reasoners in their order (`AppliedSilently`).
* A recompute that ends with the plan it began with reached no verdict, as a verdict
  lengthens the history (`WeighedTurn`); without one the protocol run only rescales
  the hypotheses (`NobodyMoved`, `FieldKept`), and required evidence is what the
  plan's open questions need. After the first calm recompute both have caught up
  (`CaughtUp`), after the second coverage and graph have, as they were made from
  these (`Reread`).
* Confidence, blocking questions, percentage, state and status are functions of the
  rest (`Scored`, `AssessedScored`), but for a completed session, which stays one.
  So the third is the second (`RereadTwice`).

`CycleInv`, `GraphInv`, `RunInv` and `StillInv` were checked by TLC on the instance
of `reasoning_cycle`, all of its 406 000 states; in the last two, the "some plan" and
"some session" TLC cannot enumerate ranged over the candidates the proofs name.

### The shipped playbooks

`RootCauseInvestigationProofs` proves for every slice of the shipped playbooks that
is closed under dependencies, and for every finite set of items with any text,
category and timestamps:

| theorem | property |
|---|---|
| `ChainAlwaysInOrder` | `ChainInOrder` |
| `RuledOutAlwaysStopsChain` | `RuledOutStopsChain` |
| `RollbackAlwaysJudgedOnBlame` | `RollbackJudgedOnBlame` |
| `DeployVerdictAlwaysGrounded` | `DeployVerdictGrounded` |

A verdict given by a client overrides the playbook, and a host's model can settle
or create questions by name; so the properties say which of the two has to keep
silent (`ClientSilent`, `HostSilent`), each no more than it needs: a client may
give any verdict, the chain still runs in order.

The properties speak of what is the case now, and no step of the code looks at
it that way: a question asked today was unlocked by a confirmation that a client
may have withdrawn since. The inductive invariant `ChainInv` therefore speaks of
the record: while the host is silent every settled question has its verdict in
the history (`OnRecord`), every question asked has a confirmation of each of its
dependencies, or of the question that generates it, in the history
(`AskedOnRecord`), and while clients are silent a confirmation in the history is
borne out by the evidence (`ConfirmedGrounded`). The steps reuse what
`InvestigationRuntimeProofs` says of a recompute. What the registry declares is read off the
seed records once (`RegistryShipped`), what the rules make of timestamps and
denials off `Signals` (`BlameGrounded`, `ClearanceGrounded`; the earliest of
finitely many items comes from `FiniteInduction`).

### Sessions that share an archive

`SharedArchiveProofs` proves for any number of sessions, services and goals:

| theorem | property |
|---|---|
| `NovelCauseAlwaysHeldBack` | `NovelCauseHeldBack` |
| `UnrelatedHistoryNeverFelt` | `UnrelatedHistoryUnfelt` |
| `PrecedentsAlwaysStand` | `PrecedentsStand` |
| `FinishedAlwaysArchived` | `TypeOK`, and `FinishedArchived`: the archive holds the finished sessions, each once, under its own goal and service, with confidences on the scale; the counter of stored investigations is their number |

What a recompute makes of a set of evidence before calibration is the constant
`Outlook`, of which `OutlookAssumption` says what the code ensures: the list of
hypotheses is never empty, as the unknown cause is always kept; hypotheses have
names; the score is clamped; items, edges and timeline are finitely many.

The invariant `ArchiveInv` adds `SessionAssessed` to `FinishedArchived`: a
session's assessment is a function of its evidence and of the precedents that
were in the archive at its last recompute. That is what makes it a matter of the
archive alone whether an assessment may move: the archive only grows
(`PrefixKept`), and an entry that is no precedent leaves the set of precedents as
it was (`AmongKept`). The lemmas on integers are that calibration stays on the
scale, and below 55 percent where all precedents name other causes
(`CalibrateOnScale`, `BlendWithRateOnScale`).

`PrecedentsStand` rests on the sort of the similar investigations
(`DescendingOrders`): it lists each entry once and no better one after a worse
(`FindSimilarShows`), whatever the limit cuts off; scores are numbers, which needs
the lists they compare to be finite (`ScoreIsInt`). As an id finds one entry, no
lesson counts more investigations than are shown with its cause (`LessonsShown`),
and as no entry leaves the archive (`ArchiveGrows`), what was told is still so
after the next finish. The model's sort keeps equal scores in the order they were
archived, as the code's does up to twelve; the argument makes no use of that.

### Left to the model checker

Only model-checked: liveness (`Converges`, `UnlockedIsAsked`,
`TornEvidenceConsidered`, `DeploymentSettles`, `AllCallsEnd`), which is out of the
prover's reach. Every other property a passing run checks is a theorem's.

What a recursive definition computes is proved here where the induction can be
given its predicate as a constant: `Folding` declares `Step` and `Good` as
operator constants, and each use instantiates it (`Moving`, `Trying`, `Taking`,
`Ordering`, `Drawing`, `Reaching`). Its `FoldSteps` follows a fold one member at a time, which is
what an argument about order needs.

## 5. Observed while modelling

None of these has a run of its own; each is what the code does.

Concurrency and events:

* The store's comment calls the calls atomic; the session that `WithSession`
  returns is the live one, and every handler formats its response from it after
  the unlock (`store.go`, `mcpserver/server.go`). The graph and intelligence tools
  read without the mutex at all.
* One host's answer holds up every session.

Questions and verdicts:

* Both ordering questions can be confirmed when an earlier symptom arrives
  between the two verdicts.
* `pods-restarted` and `traffic-shifted` are confirmed by the mere presence of a
  category they require.
* A reasoner's verdict on a parent generates no children.
* A rollback filed under `deployment_events` counts as a deployment.
* A session a reasoner completes is never archived.

Numbers:

* The causal reasoner never proposes a boost: `reasoners.go:145` asks for the
  node `hyp:` and a shortened id, which the graph builder does not make, and
  hypothesis nodes have no outgoing causal edges.
* The progress percentage falls when the last question is settled
  (`ProgressNeedsOpenQuestion`), and coverage is measured against what the
  recompute before required.
* The coverage an answer of the host sets is stored unclamped (`applier.go:75-77`),
  where its confidence and progress are clamped.
* `roundConfidenceDelta` (`runtime.go:571`) truncates negative deltas towards
  zero where positive ones are rounded.
* Where several entities have a lock queue, the one reported depends on map
  order (`signals.go:247`).

Archive:

* `Finish` calibrates twice: the report and the snapshot carry the figure
  calibrated once, the session the other until it is read again.
* One related finished investigation with another cause caps the confidence at 55
  percent of what the evidence says, while sufficiency, evaluated before
  calibration, may still call the session ready.
* `HistoricalSampleSize` counts the history before it is filtered; `Suggest`
  counts a session's own snapshot; the counts of mined root causes are never read.

## 6. Not modelled

* Graph queries, traversals and critical paths: each answers one request from a
  graph and changes nothing. `shortest_causal_path` walks edges of all types.
* In `ReasoningCycle`, what the host creates besides hypotheses. A question
  (`applier.go:118-119`) is appended to the plan as it was decoded, so one whose
  `depends_on` names a question the plan lacks gives the next graph an edge from a
  node that is not there (`engine/graph.go:158-163`); the prompt's schema has no such
  field. That a question arrives, without dependencies, and what becomes of it is in
  `InvestigationRuntime` (`ReasonerCreates`), not in the theorems about
  `ReasoningCycle`. A request for evidence (`applier.go:124-125`) is
  overwritten by the sync that ends the recompute.
* Reports, explanations, blast radius, timeline, next steps, importance of
  evidence, confidence breakdown, traces, metrics: formatting of derived state
  that no control depends on.
* Weighted voting and consensus: no configuration of the repository selects them.
  (The parallel strategy is not the default either, but is modelled, since
  `WithStrategy` is the option the orchestrator offers.)
* Event handlers: the repository subscribes none. One that called the runtime
  from within an event would wait for the mutex its own call holds.
* The archive's search and `RecordCompleted` for an unfinished session: no tool
  reaches them. `Store.Save` and the deletion of nodes and edges have no caller.
* The parser of the text playbooks (it parses two constants), parsing of
  arguments and of the host's JSON, the layout of responses, the extension API,
  specification fixtures, examples, start-up.
* Crashes: sessions and archive live in memory only, so nothing survives to
  recover.

---------------------------- MODULE SharedArchive ----------------------------
(***************************************************************************)
(* Investigations that share one archive: what a session's finish leaves   *)
(* there reaches the confidence, the state and the status of every other   *)
(* one at its next recompute.                                              *)
(*                                                                         *)
(* Calls are atomic here (they run under the store's mutex, see ToolCalls) *)
(* and what a recompute makes of the evidence before calibration is given, *)
(* as Outlook (see ReasoningCycle).  Of the service's counters only the    *)
(* one of stored investigations is kept.                                   *)
(***************************************************************************)
EXTENDS IncidentIntelligence, EvidenceItems

LOCAL INSTANCE FiniteSetsExt
LOCAL INSTANCE SequencesExt

CONSTANTS
  Session,
  Profiles,  (* what clients start investigations with: [goal, service, "" *)
             (* if none is named, tokens and spoken, the words and trigger *)
             (* words of the question and the service]                     *)
  Batches,   (* what a client submits at once                              *)
  Limits,    (* how many results a client asks for, 0 if it does not say   *)
  Outlook    (* Outlook[E]: [field, confidence, canAnswer, blocked,        *)
             (* percent, edges, timeline, labels, asked], what a recompute *)
             (* makes of the evidence E                                    *)

ASSUME ArchiveAssumption ==
  /\ Batches \subseteq SUBSET Evidence
  /\ Limits \subseteq Nat
  /\ \A p \in Profiles : IsFiniteSet(p.tokens)

(* A recompute ranks at least the unknown cause, every cause has a name    *)
(* (candidatesToHypotheses, the archetype library), the confidence is      *)
(* clamped (HeuristicConfidenceScorer.Score), and what it lists are slices *)
(* and maps, which are finite.                                             *)
ASSUME OutlookAssumption ==
  /\ {} \in DOMAIN Outlook
  /\ \A E \in DOMAIN Outlook :
       /\ Outlook[E].field # << >> /\ Outlook[E].field[1] # ""
       /\ Outlook[E].confidence \in 0 .. 1000
       /\ Outlook[E].field \in Seq(STRING) /\ Outlook[E].timeline \in Seq(Category)
       /\ IsFiniteSet(E) /\ IsFiniteSet(Outlook[E].edges)
       /\ \A batch \in Batches : batch \intersect E = {} => E \union batch \in DOMAIN Outlook

VARIABLES
  profile,     (* of each session                                          *)
  evidence,    (* of each session                                          *)
  confidence,  (* Session.Confidence                                       *)
  assessed,    (* the confidence the last recompute left: a report's       *)
  state,       (* Session.State, "absent" before the session is started    *)
  status,      (* Session.Status                                           *)
  archive,     (* snapshots, oldest first                                  *)
  stored,      (* Metrics.StoredInvestigations                             *)
  heard        (* snapshots there were at the last recompute (history)     *)

session == <<profile, evidence, confidence, assessed, state, status, heard>>
vars == <<session, archive, stored>>

Started(s)   == state[s] # "absent"
Completed(s) == status[s] = "completed"

-----------------------------------------------------------------------------
(* BuildSnapshot; the running investigation is compared in the same form.  *)
BuildSnapshot(s, p, E, conf) ==
  LET o == Outlook[E] IN
  [id |-> s, goal |-> p.goal, service |-> p.service, tokens |-> p.tokens,
   field |-> o.field, cause |-> IF o.field = << >> THEN "" ELSE o.field[1],
   confidence |-> conf,
   counts |-> [c \in HeldCategories(E) |-> Cardinality({e \in E : CategoryOf[e] = c})],
   edges |-> o.edges, timeline |-> o.timeline, labels |-> o.labels, asked |-> o.asked]

(* Store: the first snapshot of an investigation stays.                    *)
Store(all, snapshot) ==
  IF \E h \in ToSet(all) : h.id = snapshot.id THEN all ELSE Append(all, snapshot)

(* applyIntelligenceCalibration: half a point at least, or none.           *)
Calibrated(s, p, E) ==
  LET raw == Outlook[E].confidence
      calibrated == CalibrateFromRequest(BuildSnapshot(s, p, E, raw), ToSet(archive))
  IN  IF calibrated - raw \in -4 .. 4 THEN raw ELSE calibrated

(* StateMachine.Transition, from the reasoning state.                      *)
Transition(E, o, conf) ==
  CASE E = {}                                               -> "collecting_evidence"
    [] E # {} /\ conf >= 700 /\ (o.canAnswer \/ ~o.blocked) -> "high_confidence"
    [] E # {} /\ o.blocked /\ ~(conf >= 700 /\ o.canAnswer) -> "waiting_for_evidence"
    [] OTHER                                                -> "collecting_evidence"

DeriveStatus(o, conf, st) ==
  IF o.canAnswer \/ (conf >= 700 /\ o.percent >= 700) \/ st = "high_confidence"
    THEN "ready" ELSE "collecting"

(* The sufficiency is evaluated before calibration, state and status after. *)
Recompute(s, p, E) ==
  LET conf == Calibrated(s, p, E)
      next == Transition(E, Outlook[E], conf) IN
  /\ profile' = [profile EXCEPT ![s] = p]
  /\ evidence' = [evidence EXCEPT ![s] = E]
  /\ assessed' = [assessed EXCEPT ![s] = conf]
  /\ confidence' = [confidence EXCEPT ![s] = conf]
  /\ state' = [state EXCEPT ![s] = IF Completed(s) THEN "completed" ELSE next]
  /\ status' = [status EXCEPT ![s] = IF Completed(s) THEN "completed"
                                     ELSE DeriveStatus(Outlook[E], conf, next)]
  /\ heard' = [heard EXCEPT ![s] = Len(archive)]

-----------------------------------------------------------------------------
(* FindSimilarInvestigations: five results unless the client says          *)
(* otherwise.  SuggestPatterns answers with the patterns alone.            *)
Asking(s) == BuildSnapshot(s, profile[s], evidence[s], confidence[s])

FindSimilarInvestigations(s, limit) ==
  LET matches == FindSimilar(Asking(s), archive, IF limit = 0 THEN 5 ELSE limit)
      lessons == ExtractLessons(matches, archive)
      patterns == Suggest(Asking(s), profile[s].spoken, archive, 5)
  IN  [matches |-> matches, lessons |-> lessons,
       recommendations |-> BuildRecommendations(matches, patterns, lessons, archive)]

-----------------------------------------------------------------------------
NoProfile == [goal |-> "", service |-> "", tokens |-> {}, spoken |-> {}]

Init ==
  /\ profile = [s \in Session |-> NoProfile]
  /\ evidence = [s \in Session |-> {}]
  /\ confidence = [s \in Session |-> 0]
  /\ assessed = [s \in Session |-> 0]
  /\ state = [s \in Session |-> "absent"]
  /\ status = [s \in Session |-> "started"]
  /\ archive = << >>
  /\ stored = 0
  /\ heard = [s \in Session |-> 0]

Start(s) ==
  /\ ~Started(s)
  /\ \E p \in Profiles : Recompute(s, p, {})
  /\ UNCHANGED <<archive, stored>>

Submit(s) ==
  /\ Started(s) /\ ~Completed(s)
  /\ \E batch \in Batches :
       /\ batch \intersect evidence[s] = {}
       /\ Recompute(s, profile[s], evidence[s] \union batch)
  /\ UNCHANGED <<archive, stored>>

Get(s) ==
  /\ Started(s)
  /\ Recompute(s, profile[s], evidence[s])
  /\ UNCHANGED <<archive, stored>>

(* Finish of an open session recomputes, which calibrates, then archives   *)
(* the session and calibrates what came out once more.                     *)
FinishOpen(s) ==
  LET E == evidence[s]
      conf == Calibrated(s, profile[s], E)
      snapshot == BuildSnapshot(s, profile[s], E, conf) IN
  /\ Started(s) /\ ~Completed(s)
  /\ archive' = Store(archive, snapshot)
  /\ stored' = stored + 1
  /\ assessed' = [assessed EXCEPT ![s] = conf]
  /\ confidence' = [confidence EXCEPT ![s] = CalibrateFromRequest(snapshot, ToSet(archive'))]
  /\ state' = [state EXCEPT ![s] = "completed"]
  /\ status' = [status EXCEPT ![s] = "completed"]
  /\ heard' = [heard EXCEPT ![s] = Len(archive)]
  /\ UNCHANGED <<profile, evidence>>

(* Finish of a completed one only reports.                                 *)
FinishAgain(s) == Completed(s) /\ Get(s)

Finish(s) == FinishOpen(s) \/ FinishAgain(s)

Next == \E s \in Session : Start(s) \/ Submit(s) \/ Get(s) \/ Finish(s)

Spec == Init /\ [][Next]_vars

-----------------------------------------------------------------------------
(* Properties.                                                             *)

Related(s, t) ==
  /\ s # t
  /\ profile[s].goal = profile[t].goal
  /\ profile[s].service = profile[t].service \/ "" \in {profile[s].service, profile[t].service}

(* The precedents that the confidence of s was last weighed against.       *)
Precedents(s) == {h \in ToSet(SubSeq(archive, 1, heard[s])) : Related(s, h.id)}

(* Whatever other clients finish, an investigation is assessed as before   *)
(* until one of its own kind is among them or it gets evidence; finishing  *)
(* it does not make it confirm itself when it is read again                *)
(* (applyIntelligenceCalibration, filterHistory).                          *)
UnrelatedHistoryUnfelt ==
  [][\A s \in Session :
       (Started(s) /\ evidence'[s] = evidence[s] /\ Precedents(s)' = Precedents(s))
         => assessed'[s] = assessed[s]]_vars

(* An investigation whose precedents all ended with other causes is not    *)
(* taken for certain, whatever its own evidence says: one finish of        *)
(* another client takes high confidence from it (Calibrate, Transition).   *)
NovelCauseHeldBack ==
  \A s \in Session :
    LET lead == Asking(s).cause IN
    (Precedents(s) # {} /\ \A h \in Precedents(s) : h.cause # lead)
      => state[s] # "high_confidence"

(* After anybody's finish: a finished investigation is in the archive      *)
(* once, and what a client is told of its precedents is borne out by the   *)
(* archive - each match is there as it was shown, no investigation is a    *)
(* precedent of itself, better matches come first, each lesson and cause   *)
(* named is that of matches shown (Store, FindSimilar, ExtractLessons,     *)
(* BuildRecommendations).                                                  *)
BorneOut(s, told, all) ==
  /\ \A i, j \in DOMAIN told.matches :
       LET m == told.matches[i] IN
       /\ m.id # s
       /\ i < j => m.id # told.matches[j].id /\ m.score >= told.matches[j].score
       /\ \E h \in ToSet(all) : h.id = m.id /\ h.cause = m.cause /\ h.confidence = m.confidence
  /\ \A l \in told.lessons :
       Cardinality({m \in ToSet(told.matches) : m.cause = l.cause}) >= l.occurrences
  /\ told.recommendations.causes = {m.cause : m \in ToSet(told.matches)}

PrecedentsStand ==
  [][/\ stored' = Len(archive')
     /\ archive' # archive =>
          \A s \in Session, limit \in Limits :
            Started(s) => BorneOut(s, FindSimilarInvestigations(s, limit), archive')]_vars

=============================================================================

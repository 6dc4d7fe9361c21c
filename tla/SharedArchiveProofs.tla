------------------------- MODULE SharedArchiveProofs -------------------------
(***************************************************************************)
(* What investigations that share an archive are promised, for any number  *)
(* of sessions, any evidence and whatever a recompute makes of it.         *)
(*                                                                         *)
(* A session's assessment is a function of its evidence and of the         *)
(* precedents there were at its last recompute (SessionAssessed): that the *)
(* archive only grows, that what it says of an investigation stays true of *)
(* it (FinishedArchived), and that every entry names a cause make it one.  *)
(* What is told of similar investigations follows from how they are sorted *)
(* (FindSimilarShows).                                                     *)
(***************************************************************************)
EXTENDS SharedArchive, FiniteInduction

LOCAL INSTANCE FiniteSetsExt
LOCAL INSTANCE SequencesExt

-----------------------------------------------------------------------------
(* The calibrator.                                                         *)
LEMMA RoundedBounds ==
  ASSUME NEW num \in Nat, NEW den \in Nat \ {0}, NEW k \in Nat, num <= k * den
  PROVE  Rounded(num, den) \in 0 .. k
<1> DEFINE q == (2 * num + den) \div (2 * den)
<1>1. /\ 2 * num + den \in Nat
      /\ 2 * den \in Nat \ {0}
  OBVIOUS
<1>2. q \in Nat /\ (2 * den) * q <= 2 * num + den
  BY <1>1
<1>3. ASSUME q >= k + 1 PROVE FALSE
  <2>1. (2 * den) * q >= (2 * den) * (k + 1)
    BY <1>1, <1>2, <1>3
  <2>2. (2 * den) * (k + 1) = 2 * (k * den) + 2 * den
    OBVIOUS
  <2> QED  BY <1>2, <2>1, <2>2
<1> QED  BY <1>2, <1>3 DEF Rounded

(* A confidence, and one that is no more than the weight of the raw one.   *)
Scale    == 0 .. 1000
Doubtful == 0 .. 550

LEMMA BlendWithRateOnScale ==
  ASSUME NEW raw \in Scale, NEW n \in Nat \ {0}, NEW c \in 0 .. n
  PROVE  /\ BlendWithRate(raw, c, n) \in Scale
         /\ c = 0 => BlendWithRate(raw, c, n) \in Doubtful
<1>1. 55 * raw <= 55000 /\ 55 * raw \in Nat
  BY DEF Scale
<1>2. \A x \in Nat : x <= 55000 => x * n <= 55000 * n /\ x * n \in Nat
  OBVIOUS
<1> DEFINE part == 55 * raw * n
<1>3. part <= 55000 * n /\ part \in Nat
  BY <1>1, <1>2
<1> HIDE DEF part
<1> DEFINE num   == part + 45 * 1000 * c
           den   == 100 * n
           all   == 1000
           share == 550
<1>4. /\ num \in Nat /\ den \in Nat \ {0} /\ all \in Nat /\ share \in Nat
      /\ num <= all * den
      /\ c = 0 => num <= share * den
  BY <1>3
<1>5. BlendWithRate(raw, c, n) = Rounded(num, den)
  BY DEF BlendWithRate, part
<1>6. Scale = 0 .. all /\ Doubtful = 0 .. share
  BY DEF Scale, Doubtful
<1> HIDE DEF num, den, all, share
<1>7. Rounded(num, den) \in 0 .. all
  BY <1>4, RoundedBounds, Zenon
<1>8. c = 0 => Rounded(num, den) \in 0 .. share
  BY <1>4, RoundedBounds, Zenon
<1> QED  BY <1>5, <1>6, <1>7, <1>8, Zenon

(* All of the history found a cause: the mean confidence plays no part.    *)
Named(history) == \A h \in history : h.cause # ""

Agreeing(history, cause) == {h \in history : h.cause = cause}

LEMMA CalibrateNamed ==
  ASSUME NEW history, Named(history), history # {}, NEW raw, NEW cause
  PROVE  Calibrate(cause, raw, history) =
           BlendWithRate(raw, Cardinality(Agreeing(history, cause)), Cardinality(history))
<1> DEFINE similar == {h \in history : h.cause # ""}
           correct == {h \in similar : h.cause = cause}
<1>1. similar = history
  BY Zenon DEF Named
<1>2. correct = Agreeing(history, cause)
  BY <1>1, Zenon DEF Agreeing
<1>3. Calibrate(cause, raw, history) =
        CASE history = {} -> raw
          [] history # {} /\ similar = {} -> BlendWithMean(raw, history)
          [] OTHER -> BlendWithRate(raw, Cardinality(correct), Cardinality(similar))
  BY Zenon DEF Calibrate
<1> HIDE DEF similar, correct
<1> QED  BY <1>1, <1>2, <1>3, Zenon

LEMMA AgreeingSize ==
  ASSUME NEW history, IsFiniteSet(history), NEW cause
  PROVE  Cardinality(Agreeing(history, cause)) \in 0 .. Cardinality(history)
<1>1. Agreeing(history, cause) \subseteq history
  BY Zenon DEF Agreeing
<1> QED  BY <1>1, FS_Subset, FS_CardinalityType

(* The confidence stays on its scale, and below the threshold of the state *)
(* machine by a wide margin where all of the history names other causes.   *)
LEMMA CalibrateOnScale ==
  ASSUME NEW history, IsFiniteSet(history), Named(history), NEW raw \in Scale, NEW cause
  PROVE  /\ Calibrate(cause, raw, history) \in Scale
         /\ (history # {} /\ Agreeing(history, cause) = {})
              => Calibrate(cause, raw, history) \in Doubtful
<1> DEFINE n == Cardinality(history)
           c == Cardinality(Agreeing(history, cause))
<1>1. CASE history = {}
  BY <1>1, Zenon DEF Calibrate
<1>2. CASE history # {}
  <2>1. n \in Nat \ {0}
    BY <1>2, FS_CardinalityType, FS_EmptySet
  <2>2. c \in 0 .. n /\ (Agreeing(history, cause) = {} => c = 0)
    BY AgreeingSize, FS_EmptySet
  <2>3. Calibrate(cause, raw, history) = BlendWithRate(raw, c, n)
    BY <1>2, CalibrateNamed
  <2> HIDE DEF n, c
  <2>4. /\ BlendWithRate(raw, c, n) \in Scale
        /\ c = 0 => BlendWithRate(raw, c, n) \in Doubtful
    BY <2>1, <2>2, BlendWithRateOnScale, Zenon
  <2> QED  BY <2>2, <2>3, <2>4, Zenon
<1> QED  BY <1>1, <1>2

-----------------------------------------------------------------------------
(* The inductive invariant.                                                *)

Snapshots == {BuildSnapshot(s, p, E, conf) :
                s \in Session, p \in Profiles, E \in DOMAIN Outlook, conf \in Scale}

TypeOK ==
  /\ profile \in [Session -> Profiles \union {NoProfile}]
  /\ evidence \in [Session -> DOMAIN Outlook]
  /\ confidence \in [Session -> Scale]
  /\ assessed \in [Session -> Scale]
  /\ state \in [Session -> {"absent", "collecting_evidence", "waiting_for_evidence",
                            "high_confidence", "completed"}]
  /\ status \in [Session -> {"started", "collecting", "ready", "completed"}]
  /\ archive \in Seq(Snapshots)
  /\ stored \in Nat
  /\ heard \in [Session -> Nat]

(* What an entry says of whose it is.                                      *)
FiledAs(h, prof) ==
  h.goal = prof[h.id].goal /\ h.service = prof[h.id].service

Filed(all, prof) == \A h \in all : FiledAs(h, prof)

(* Exactly the finished investigations are in the archive, each once, as   *)
(* what they were started for.                                             *)
FinishedArchived ==
  /\ \A s \in Session : Completed(s) <=> \E i \in DOMAIN archive : archive[i].id = s
  /\ \A i, j \in DOMAIN archive : archive[i].id = archive[j].id => i = j
  /\ Filed(ToSet(archive), profile)
  /\ stored = Len(archive)

(* What a recompute makes of the evidence and the precedents it counts.    *)
Assessment(E, history) ==
  LET raw == Outlook[E].confidence
      calibrated == Calibrate(Outlook[E].field[1], raw, history)
  IN  IF calibrated - raw \in -4 .. 4 THEN raw ELSE calibrated

(* A session stands as the last recompute assessed it on the evidence it   *)
(* has and on the precedents there were.                                   *)
SessionAssessed(s) ==
  /\ Started(s) => /\ profile[s] \in Profiles
                   /\ assessed[s] = Assessment(evidence[s], Precedents(s))
  /\ Completed(s) <=> state[s] = "completed"
  /\ heard[s] <= Len(archive)
  /\ state[s] = "high_confidence" => assessed[s] >= 700

ArchiveInv ==
  /\ TypeOK
  /\ IsFiniteSet(ToSet(archive))
  /\ FinishedArchived
  /\ \A s \in Session : SessionAssessed(s)

-----------------------------------------------------------------------------
(* The archive only grows at its end.                                      *)
LEMMA AppendedSet ==
  ASSUME NEW S, NEW all \in Seq(S), NEW h \in S
  PROVE  ToSet(Append(all, h)) = ToSet(all) \union {h}
<1>1. /\ DOMAIN Append(all, h) = 1 .. Len(all) + 1
      /\ \A i \in 1 .. Len(all) : Append(all, h)[i] = all[i]
      /\ Append(all, h)[Len(all) + 1] = h
      /\ Len(all) \in Nat /\ DOMAIN all = 1 .. Len(all)
  OBVIOUS
<1>2. 1 .. Len(all) + 1 = (1 .. Len(all)) \union {Len(all) + 1}
  BY <1>1
<1> QED  BY <1>1, <1>2, ZenonT(40) DEF ToSet

LEMMA PrefixKept ==
  ASSUME NEW S, NEW all \in Seq(S), NEW h \in S, NEW n \in Nat, n <= Len(all)
  PROVE  /\ SubSeq(Append(all, h), 1, n) = SubSeq(all, 1, n)
         /\ SubSeq(all, 1, Len(all)) = all
         /\ ToSet(SubSeq(all, 1, n)) \subseteq ToSet(all)
<1>1. SubSeq(Append(all, h), 1, n) = SubSeq(all, 1, n)
  OBVIOUS
<1>2. SubSeq(all, 1, Len(all)) = all
  OBVIOUS
<1>3. /\ DOMAIN SubSeq(all, 1, n) \subseteq DOMAIN all
      /\ \A i \in DOMAIN SubSeq(all, 1, n) : SubSeq(all, 1, n)[i] = all[i]
  OBVIOUS
<1>4. ToSet(SubSeq(all, 1, n)) \subseteq ToSet(all)
  BY <1>3, Zenon DEF ToSet
<1> QED  BY <1>1, <1>2, <1>4

-----------------------------------------------------------------------------
(* Precedents, as the calibrator selects them.                             *)
Among(s, prof, all) ==
  {h \in all : /\ s # h.id
               /\ prof[s].goal = prof[h.id].goal
               /\ \/ prof[s].service = prof[h.id].service
                  \/ "" \in {prof[s].service, prof[h.id].service}}

LEMMA PrecedentsAmong ==
  ASSUME NEW s
  PROVE  Precedents(s) = Among(s, profile, ToSet(SubSeq(archive, 1, heard[s])))
BY Zenon DEF Precedents, Related, Among

LEMMA AmongKept ==
  ASSUME NEW s, NEW all, NEW prof, NEW next,
         next[s] = prof[s], \A h \in all : next[h.id] = prof[h.id]
  PROVE  Among(s, next, all) = Among(s, prof, all)
BY Zenon DEF Among

LEMMA FilterIsAmong ==
  ASSUME NEW x, NEW prof, FiledAs(x, prof), NEW all, Filed(all, prof)
  PROVE  FilterHistory(all, x) = Among(x.id, prof, all)
<1>1. ASSUME NEW h \in all
      PROVE  (/\ h.id # x.id
              /\ h.service \in {"", x.service} \/ x.service = ""
              /\ h.goal = x.goal) <=>
             (/\ x.id # h.id
              /\ prof[x.id].goal = prof[h.id].goal
              /\ \/ prof[x.id].service = prof[h.id].service
                 \/ "" \in {prof[x.id].service, prof[h.id].service})
  BY <1>1, Zenon DEF Filed, FiledAs
<1> QED  BY <1>1, Zenon DEF FilterHistory, Among

Lead(E) == Outlook[E].field[1]

Describes(h, s, p, E, conf) ==
  /\ h.id = s /\ h.goal = p.goal /\ h.service = p.service
  /\ h.confidence = conf
  /\ h.cause = Lead(E) /\ h.cause # ""

LEMMA SnapshotFields ==
  ASSUME NEW s, NEW p, NEW E \in DOMAIN Outlook, NEW conf
  PROVE  Describes(BuildSnapshot(s, p, E, conf), s, p, E, conf)
BY OutlookAssumption, ZenonT(40) DEF BuildSnapshot, Describes, Lead

LEMMA SnapshotsNamed ==
  ASSUME NEW all, all \subseteq Snapshots
  PROVE  Named(all) /\ \A h \in all : h.id \in Session
<1>1. ASSUME NEW h \in all PROVE h.cause # "" /\ h.id \in Session
  <2>1. PICK s \in Session, p \in Profiles, E \in DOMAIN Outlook, conf \in Scale :
          h = BuildSnapshot(s, p, E, conf)
    BY <1>1 DEF Snapshots
  <2>2. Describes(h, s, p, E, conf)
    BY <2>1, SnapshotFields, Zenon
  <2> QED  BY <2>2, Zenon DEF Describes
<1> QED  BY <1>1, Zenon DEF Named

LEMMA CalibrationAmong ==
  ASSUME NEW x, NEW prof, FiledAs(x, prof), NEW all, Filed(all, prof)
  PROVE  CalibrateFromRequest(x, all) =
           Calibrate(x.cause, x.confidence, Among(x.id, prof, all))
BY FilterIsAmong, Zenon DEF CalibrateFromRequest

LEMMA CalibratedAssessment ==
  ASSUME NEW s, NEW p, NEW E \in DOMAIN Outlook, NEW prof, prof[s] = p,
         Filed(ToSet(archive), prof)
  PROVE  Calibrated(s, p, E) = Assessment(E, Among(s, prof, ToSet(archive)))
<1> DEFINE raw == Outlook[E].confidence
           x == BuildSnapshot(s, p, E, raw)
<1> HIDE DEF raw
<1>1. Describes(x, s, p, E, raw)
  BY SnapshotFields, Zenon
<1> HIDE DEF x
<1>2. CalibrateFromRequest(x, ToSet(archive)) =
        Calibrate(Lead(E), raw, Among(s, prof, ToSet(archive)))
  <2>1. FiledAs(x, prof)
    BY <1>1, Zenon DEF Describes, FiledAs
  <2>2. CalibrateFromRequest(x, ToSet(archive)) =
          Calibrate(x.cause, x.confidence, Among(x.id, prof, ToSet(archive)))
    BY <2>1, CalibrationAmong, Zenon
  <2> QED  BY <1>1, <2>2, Zenon DEF Describes
<1> QED  BY <1>2, Zenon DEF Calibrated, Assessment, Lead, x, raw

LEMMA AssessmentOnScale ==
  ASSUME NEW E \in DOMAIN Outlook, NEW history, IsFiniteSet(history), Named(history)
  PROVE  /\ Assessment(E, history) \in Scale
         /\ (history # {} /\ Agreeing(history, Outlook[E].field[1]) = {})
              => Assessment(E, history) < 700
<1> DEFINE raw == Outlook[E].confidence
           lead == Outlook[E].field[1]
           calibrated == Calibrate(lead, raw, history)
<1>1. raw \in Scale
  BY OutlookAssumption, ZenonT(40) DEF Scale
<1>2. /\ calibrated \in Scale
      /\ (history # {} /\ Agreeing(history, lead) = {}) => calibrated \in Doubtful
  BY <1>1, CalibrateOnScale, Zenon
<1>3. Assessment(E, history) = IF calibrated - raw \in -4 .. 4 THEN raw ELSE calibrated
  BY Zenon DEF Assessment
<1> HIDE DEF raw, calibrated
<1>4. (IF calibrated - raw \in -4 .. 4 THEN raw ELSE calibrated) \in Scale
  BY <1>1, <1>2
<1>5. calibrated \in Doubtful =>
        (IF calibrated - raw \in -4 .. 4 THEN raw ELSE calibrated) < 700
  BY <1>1 DEF Scale, Doubtful
<1> QED  BY <1>2, <1>3, <1>4, <1>5, ZenonT(40)

-----------------------------------------------------------------------------
(* One recompute.                                                          *)
LEMMA TransitionShape ==
  ASSUME NEW E, NEW o, NEW conf
  PROVE  /\ Transition(E, o, conf) \in {"collecting_evidence", "waiting_for_evidence",
                                        "high_confidence"}
         /\ Transition(E, o, conf) = "high_confidence" => conf >= 700
BY DEF Transition

LEMMA StatusShape ==
  ASSUME NEW o, NEW conf, NEW st
  PROVE  DeriveStatus(o, conf, st) \in {"ready", "collecting"}
BY DEF DeriveStatus

LEMMA PrecedentsGood ==
  ASSUME TypeOK, IsFiniteSet(ToSet(archive)), NEW s, NEW prof,
         NEW all, all \subseteq ToSet(archive)
  PROVE  IsFiniteSet(Among(s, prof, all)) /\ Named(Among(s, prof, all))
<1>1. ToSet(archive) \subseteq Snapshots
  BY DEF TypeOK, ToSet
<1>2. Among(s, prof, all) \subseteq ToSet(archive)
  BY Zenon DEF Among
<1>3. IsFiniteSet(Among(s, prof, all))
  BY <1>2, FS_Subset, Zenon
<1>4. Among(s, prof, all) \subseteq Snapshots
  BY <1>1, <1>2, Zenon
<1> QED  BY <1>3, <1>4, SnapshotsNamed, Zenon

(* A session's precedents are those of its last recompute.                 *)
LEMMA RecomputeStep ==
  ASSUME ArchiveInv, NEW s \in Session, NEW p \in Profiles, NEW E \in DOMAIN Outlook,
         Recompute(s, p, E), archive' = archive, stored' = stored,
         Started(s) => p = profile[s]
  PROVE  ArchiveInv' /\ \A t \in Session : Started(t) => Started(t)'
<1> DEFINE all == ToSet(archive)
           conf == Calibrated(s, p, E)
           next == Transition(E, Outlook[E], conf)
<1> USE DEF ArchiveInv
<1>1. /\ profile' \in [Session -> Profiles \union {NoProfile}]
      /\ profile'[s] = p
      /\ \A t \in Session \ {s} : profile'[t] = profile[t]
  BY Zenon DEF TypeOK, Recompute
<1>2. \A h \in all : h.id \in Session /\ profile'[h.id] = profile[h.id]
  <2> SUFFICES ASSUME NEW h \in all PROVE h.id \in Session /\ profile'[h.id] = profile[h.id]
    OBVIOUS
  <2>1. PICK i \in DOMAIN archive : h = archive[i]
    BY Zenon DEF ToSet
  <2>2. h.id \in Session
    <3>1. all \subseteq Snapshots
      BY DEF TypeOK, ToSet
    <3> QED  BY <3>1, SnapshotsNamed, Zenon
  <2>3. Completed(h.id)
    BY <2>1, <2>2, Zenon DEF FinishedArchived
  <2>4. state[h.id] = "completed"
    BY <2>2, <2>3, Zenon DEF SessionAssessed
  <2>5. Started(h.id)
    BY <2>4 DEF Started
  <2> QED  BY <1>1, <2>2, <2>5, Zenon
<1>3. Filed(all, profile')
  BY <1>2, Zenon DEF FinishedArchived, FiledAs, Filed
<1>4. conf = Assessment(E, Among(s, profile', all))
  BY <1>1, <1>3, CalibratedAssessment, Zenon
<1>5. conf \in Scale
  <2>1. IsFiniteSet(Among(s, profile', all)) /\ Named(Among(s, profile', all))
    BY PrecedentsGood, Zenon
  <2> QED  BY <1>4, <2>1, AssessmentOnScale, ZenonT(40)
<1> HIDE DEF conf
<1>6. /\ next \in {"collecting_evidence", "waiting_for_evidence", "high_confidence"}
      /\ next = "high_confidence" => conf >= 700
  BY TransitionShape, ZenonT(40)
<1> HIDE DEF next
<1>7. /\ state'[s] = IF Completed(s) THEN "completed" ELSE next
      /\ status'[s] = IF Completed(s) THEN "completed" ELSE DeriveStatus(Outlook[E], conf, next)
      /\ assessed'[s] = conf /\ confidence'[s] = conf /\ evidence'[s] = E
      /\ heard'[s] = Len(archive)
      /\ \A t \in Session \ {s} :
           /\ state'[t] = state[t] /\ status'[t] = status[t] /\ heard'[t] = heard[t]
           /\ assessed'[t] = assessed[t] /\ evidence'[t] = evidence[t]
  BY Zenon DEF TypeOK, Recompute, conf, next
<1>8. TypeOK'
  <2>1. Len(archive) \in Nat
    BY DEF TypeOK
  <2>2. (IF Completed(s) THEN "completed" ELSE next)
          \in {"absent", "collecting_evidence", "waiting_for_evidence",
               "high_confidence", "completed"}
    BY <1>6, Zenon
  <2>3. (IF Completed(s) THEN "completed" ELSE DeriveStatus(Outlook[E], conf, next))
          \in {"started", "collecting", "ready", "completed"}
    BY StatusShape, Zenon
  <2> QED  BY <1>1, <1>5, <2>1, <2>2, <2>3, Zenon DEF TypeOK, Recompute, conf, next
<1>9. \A t \in Session : Completed(t)' <=> Completed(t)
  <2>1. DeriveStatus(Outlook[E], conf, next) # "completed"
    BY StatusShape
  <2>2. ~Completed(s) => status'[s] # "completed"
    BY <1>7, <2>1, Zenon
  <2>3. Completed(s) => status'[s] = "completed"
    BY <1>7, Zenon
  <2> QED  BY <1>7, <2>2, <2>3, Zenon DEF Completed
<1>10. FinishedArchived'
  BY <1>3, <1>9, Zenon DEF FinishedArchived
<1>11. ASSUME NEW t \in Session PROVE SessionAssessed(t)'
  <2>1. SessionAssessed(t)
    OBVIOUS
  <2>2. CASE t = s
    <3>1. SubSeq(archive, 1, Len(archive)) = archive
      BY DEF TypeOK
    <3>2. Precedents(s)' = Among(s, profile', all)
      BY <1>7, <3>1, Zenon DEF Precedents, Related, Among
    <3>3. assessed'[s] = Assessment(evidence'[s], Precedents(s)')
      BY <1>4, <1>7, <3>2, Zenon
    <3>4. Completed(s)' <=> state'[s] = "completed"
      BY <1>6, <1>7, <1>9, Zenon
    <3>5. heard'[s] <= Len(archive')
      BY <1>7 DEF TypeOK
    <3>6. state'[s] = "high_confidence" => assessed'[s] >= 700
      BY <1>6, <1>7
    <3> QED  BY <1>1, <2>2, <3>3, <3>4, <3>5, <3>6, ZenonT(40) DEF SessionAssessed
  <2>3. CASE t # s
    <3>1. ToSet(SubSeq(archive, 1, heard[t])) \subseteq all
      BY <2>1 DEF SessionAssessed, TypeOK, ToSet
    <3>2. Precedents(t)' = Precedents(t)
      BY <1>1, <1>2, <1>7, <2>3, <3>1, Zenon DEF Precedents, Related
    <3>3. /\ profile'[t] = profile[t] /\ state'[t] = state[t] /\ heard'[t] = heard[t]
          /\ assessed'[t] = assessed[t] /\ evidence'[t] = evidence[t]
      BY <1>1, <1>7, <2>3, Zenon
    <3>4. Completed(t)' <=> Completed(t)
      BY <1>9
    <3>5. Started(t)' => /\ profile'[t] \in Profiles
                         /\ assessed'[t] = Assessment(evidence'[t], Precedents(t)')
      BY <2>1, <3>2, <3>3, ZenonT(40) DEF SessionAssessed, Started
    <3>6. Completed(t)' <=> state'[t] = "completed"
      BY <2>1, <3>3, <3>4, ZenonT(40) DEF SessionAssessed
    <3>7. /\ heard'[t] <= Len(archive')
          /\ state'[t] = "high_confidence" => assessed'[t] >= 700
      BY <2>1, <3>3 DEF SessionAssessed
    <3> QED  BY <3>5, <3>6, <3>7, Zenon DEF SessionAssessed
  <2> QED  BY <2>2, <2>3
<1>12. \A t \in Session : Started(t) => Started(t)'
  BY <1>6, <1>7 DEF Started
<1> QED  BY <1>8, <1>10, <1>11, <1>12, Zenon

(* One finish: the session is archived as its last recompute assessed it.  *)
LEMMA FinishStep ==
  ASSUME ArchiveInv, NEW s \in Session, FinishOpen(s)
  PROVE  ArchiveInv' /\ \A t \in Session : Started(t) => Started(t)'
<1> USE DEF ArchiveInv
<1> DEFINE E == evidence[s]
           p == profile[s]
           all == ToSet(archive)
           conf == Calibrated(s, p, E)
           h == BuildSnapshot(s, p, E, conf)
<1>1. p \in Profiles /\ E \in DOMAIN Outlook
  <2>1. Started(s) /\ SessionAssessed(s)
    BY Zenon DEF FinishOpen
  <2> QED  BY <2>1, Zenon DEF SessionAssessed, TypeOK
<1>2. Filed(all, profile)
  BY Zenon DEF FinishedArchived
<1>3. conf = Assessment(E, Among(s, profile, all))
  BY <1>1, <1>2, CalibratedAssessment, Zenon
<1>4. conf \in Scale
  <2>1. IsFiniteSet(Among(s, profile, all)) /\ Named(Among(s, profile, all))
    BY PrecedentsGood, Zenon
  <2> QED  BY <1>1, <1>3, <2>1, AssessmentOnScale, ZenonT(40)
<1>5. /\ archive' = Store(archive, h)
      /\ stored' = stored + 1
      /\ assessed' = [assessed EXCEPT ![s] = conf]
      /\ confidence' = [confidence EXCEPT ![s] = CalibrateFromRequest(h, ToSet(archive'))]
      /\ state' = [state EXCEPT ![s] = "completed"]
      /\ status' = [status EXCEPT ![s] = "completed"]
      /\ heard' = [heard EXCEPT ![s] = Len(archive)]
      /\ profile' = profile /\ evidence' = evidence
      /\ Started(s) /\ ~Completed(s)
  BY Zenon DEF FinishOpen
<1> HIDE DEF conf
<1>6. Describes(h, s, p, E, conf)
  BY <1>1, SnapshotFields, Zenon
<1>7. h \in Snapshots
  BY <1>1, <1>4 DEF Snapshots
<1> HIDE DEF h, p, E
<1>8. archive' = Append(archive, h)
  <2>1. \A g \in all : g.id # h.id
    BY <1>5, <1>6, ZenonT(40) DEF FinishedArchived, Describes, ToSet
  <2> QED  BY <1>5, <2>1, Zenon DEF Store
<1>9. /\ archive \in Seq(Snapshots) /\ Len(archive) \in Nat
      /\ archive' \in Seq(Snapshots)
      /\ Len(archive') = Len(archive) + 1
      /\ ToSet(archive') = all \union {h}
  <2>1. archive \in Seq(Snapshots)
    BY Zenon DEF TypeOK
  <2>2. ToSet(Append(archive, h)) = all \union {h}
    BY <1>7, <2>1, AppendedSet, ZenonT(40)
  <2> HIDE DEF all
  <2> QED  BY <1>7, <1>8, <2>1, <2>2
<1>10. IsFiniteSet(ToSet(archive'))
  BY <1>9, FS_AddElement
<1>11. Filed(ToSet(archive'), profile')
  <2>1. FiledAs(h, profile)
    BY <1>6, Zenon DEF Describes, FiledAs, p
  <2> QED  BY <1>2, <1>5, <1>9, <2>1, Zenon DEF Filed
<1>12. CalibrateFromRequest(h, ToSet(archive')) \in Scale
  <2> DEFINE kin == Among(s, profile, ToSet(archive'))
  <2>1. CalibrateFromRequest(h, ToSet(archive')) = Calibrate(Lead(E), conf, kin)
    <3>1. FiledAs(h, profile) /\ Filed(ToSet(archive'), profile)
      BY <1>5, <1>6, <1>11, Zenon DEF Describes, FiledAs, p
    <3>2. CalibrateFromRequest(h, ToSet(archive')) =
            Calibrate(h.cause, h.confidence, Among(h.id, profile, ToSet(archive')))
      BY <3>1, CalibrationAmong, Zenon
    <3> QED  BY <1>6, <3>2, Zenon DEF Describes
  <2>2. kin \subseteq ToSet(archive') /\ ToSet(archive') \subseteq Snapshots
    <3>1. kin \subseteq ToSet(archive')
      BY Zenon DEF Among
    <3>2. all \subseteq Snapshots
      BY DEF TypeOK, ToSet
    <3> QED  BY <1>7, <1>9, <3>1, <3>2, Zenon
  <2> HIDE DEF kin
  <2>3. IsFiniteSet(kin)
    BY <1>10, <2>2, FS_Subset, Zenon
  <2>4. Named(kin)
    BY <2>2, SnapshotsNamed, Zenon
  <2> QED  BY <1>4, <2>1, <2>3, <2>4, CalibrateOnScale, Zenon
<1>13. TypeOK'
  BY <1>4, <1>5, <1>9, <1>12 DEF TypeOK
<1>14. /\ \A t \in Session \ {s} :
            /\ state'[t] = state[t] /\ status'[t] = status[t] /\ heard'[t] = heard[t]
            /\ assessed'[t] = assessed[t] /\ evidence'[t] = evidence[t]
       /\ state'[s] = "completed" /\ status'[s] = "completed"
       /\ heard'[s] = Len(archive) /\ assessed'[s] = conf
  BY <1>5, Zenon DEF TypeOK
<1>15. h.id = s
  BY <1>6, Zenon DEF Describes
<1>16. /\ DOMAIN archive' = DOMAIN archive \union {Len(archive) + 1}
       /\ \A i \in DOMAIN archive : archive'[i] = archive[i] /\ i # Len(archive) + 1
       /\ archive'[Len(archive) + 1] = h
  BY <1>7, <1>8, <1>9
<1>17. /\ \A n \in Nat : n <= Len(archive) =>
            SubSeq(archive', 1, n) = SubSeq(archive, 1, n)
       /\ SubSeq(archive, 1, Len(archive)) = archive
  <2>1. ASSUME NEW n \in Nat, n <= Len(archive)
        PROVE  SubSeq(Append(archive, h), 1, n) = SubSeq(archive, 1, n)
    BY <1>7, <1>9, <2>1, PrefixKept
  <2>2. SubSeq(archive, 1, Len(archive)) = archive
    BY <1>9
  <2> QED  BY <1>8, <2>1, <2>2, Zenon
<1>18. FinishedArchived'
  <2>1. \A t \in Session :
          /\ Completed(t)' <=> (t = s \/ Completed(t))
          /\ Completed(t) <=> \E i \in DOMAIN archive : archive[i].id = t
    BY <1>14, Zenon DEF FinishedArchived, Completed
  <2>2. \A t \in Session : Completed(t)' <=> \E i \in DOMAIN archive' : archive'[i].id = t
    BY <1>15, <1>16, <2>1, Zenon
  <2>3. \A i \in DOMAIN archive : archive[i].id # s
    BY <1>5, <2>1, Zenon
  <2>4. \A i, j \in DOMAIN archive : archive[i].id = archive[j].id => i = j
    BY Zenon DEF FinishedArchived
  <2>5. \A i, j \in DOMAIN archive' : archive'[i].id = archive'[j].id => i = j
    BY <1>15, <1>16, <2>3, <2>4, Zenon
  <2>6. stored' = Len(archive')
    BY <1>5, <1>9, Zenon DEF FinishedArchived
  <2> QED  BY <1>11, <2>2, <2>5, <2>6, Zenon DEF FinishedArchived
<1>19. ASSUME NEW t \in Session PROVE SessionAssessed(t)'
  <2>1. SessionAssessed(t)
    OBVIOUS
  <2>2. CASE t = s
    <3>1. /\ SubSeq(archive', 1, Len(archive)) = SubSeq(archive, 1, Len(archive))
          /\ SubSeq(archive, 1, Len(archive)) = archive
      <4>1. Len(archive) <= Len(archive)
        BY <1>9
      <4> QED  BY <1>9, <1>17, <4>1, Zenon
    <3>2. Precedents(s)' = Among(s, profile, all)
      BY <1>5, <1>14, <3>1, Zenon DEF Precedents, Related, Among
    <3>3. assessed'[s] = Assessment(evidence'[s], Precedents(s)')
      BY <1>3, <1>5, <1>14, <3>2, Zenon DEF E
    <3>4. profile'[s] \in Profiles
      BY <1>1, <1>5, Zenon DEF p
    <3>5. heard'[s] <= Len(archive')
      BY <1>9, <1>14
    <3>6. (Completed(s)' <=> state'[s] = "completed") /\ state'[s] # "high_confidence"
      BY <1>14 DEF Completed
    <3> QED  BY <2>2, <3>3, <3>4, <3>5, <3>6, Zenon DEF SessionAssessed
  <2>3. CASE t # s
    <3>1. heard[t] \in Nat /\ heard[t] <= Len(archive)
      BY <2>1, Zenon DEF SessionAssessed, TypeOK
    <3>2. SubSeq(archive', 1, heard[t]) = SubSeq(archive, 1, heard[t])
      BY <1>17, <3>1, Zenon
    <3>3. /\ profile'[t] = profile[t] /\ state'[t] = state[t] /\ heard'[t] = heard[t]
          /\ assessed'[t] = assessed[t] /\ evidence'[t] = evidence[t]
          /\ status'[t] = status[t]
      BY <1>5, <1>14, <2>3, Zenon
    <3>4. Precedents(t)' = Precedents(t)
      BY <1>5, <3>2, <3>3, Zenon DEF Precedents, Related
    <3>5. Started(t)' => /\ profile'[t] \in Profiles
                         /\ assessed'[t] = Assessment(evidence'[t], Precedents(t)')
      BY <2>1, <3>3, <3>4, ZenonT(40) DEF SessionAssessed, Started
    <3>6. Completed(t)' <=> state'[t] = "completed"
      BY <2>1, <3>3, ZenonT(40) DEF SessionAssessed, Completed
    <3>7. /\ heard'[t] <= Len(archive')
          /\ state'[t] = "high_confidence" => assessed'[t] >= 700
      BY <1>9, <2>1, <3>1, <3>3 DEF SessionAssessed
    <3> QED  BY <3>5, <3>6, <3>7, Zenon DEF SessionAssessed
  <2> QED  BY <2>2, <2>3
<1>20. \A t \in Session : Started(t) => Started(t)'
  BY <1>14 DEF Started
<1> QED  BY <1>10, <1>13, <1>18, <1>19, <1>20, Zenon

-----------------------------------------------------------------------------
(* What a client is told of similar investigations.                        *)

(* An investigation in the form in which two are compared, all of its      *)
(* lists finite.                                                           *)
Comparable(x) ==
  /\ IsFiniteSet(x.tokens) /\ IsFiniteSet(Categories(x)) /\ IsFiniteSet(x.edges)
  /\ x.field \in Seq(STRING) /\ x.timeline \in Seq(Category)

LEMMA SnapshotComparable ==
  ASSUME NEW s, NEW p \in Profiles, NEW E \in DOMAIN Outlook, NEW conf
  PROVE  Comparable(BuildSnapshot(s, p, E, conf))
<1> DEFINE x == BuildSnapshot(s, p, E, conf)
<1>1. /\ x.tokens = p.tokens /\ x.edges = Outlook[E].edges
      /\ x.field = Outlook[E].field /\ x.timeline = Outlook[E].timeline
      /\ Categories(x) = HeldCategories(E)
  BY DEF BuildSnapshot, Categories
<1>2. IsFiniteSet(E) /\ IsFiniteSet(Outlook[E].edges)
  BY OutlookAssumption, Zenon
<1>3. Outlook[E].field \in Seq(STRING) /\ Outlook[E].timeline \in Seq(Category)
  BY OutlookAssumption, Zenon
<1>4. IsFiniteSet(p.tokens)
  BY ArchiveAssumption, Zenon
<1>5. IsFiniteSet(HeldCategories(E))
  BY <1>2, ImageOfFinite, Zenon DEF HeldCategories
<1> HIDE DEF x
<1> QED  BY <1>1, <1>2, <1>3, <1>4, <1>5, Zenon DEF Comparable, x

(* The figures are numbers, so that a list can be sorted by them.          *)
LEMMA RoundedIsInt ==
  ASSUME NEW num \in Int, NEW den \in Nat \ {0}
  PROVE  Rounded(num, den) \in Int
<1>1. 2 * num + den \in Int /\ 2 * den \in Nat \ {0}
  OBVIOUS
<1> QED  BY <1>1 DEF Rounded

LEMMA MillionIsInt ==
  ASSUME NEW part \in Int, NEW whole \in Nat
  PROVE  Million(part, whole) \in Int
<1>1. CASE whole = 0
  BY <1>1 DEF Million
<1>2. CASE whole # 0
  BY <1>2, RoundedIsInt, 1000000 * part \in Int DEF Million
<1> QED  BY <1>1, <1>2

LEMMA LesserGreater ==
  ASSUME NEW a \in Int, NEW b \in Int
  PROVE  /\ Min({a, b}) \in {a, b} /\ Min({a, b}) <= a /\ Min({a, b}) <= b
         /\ Max({a, b}) \in {a, b}
<1>1. \E x \in {a, b} : \A y \in {a, b} : x <= y
  OBVIOUS
<1>2. \E x \in {a, b} : \A y \in {a, b} : x >= y
  OBVIOUS
<1> QED  BY <1>1, <1>2 DEF Min, Max

LEMMA GreaterIsNat ==
  ASSUME NEW a \in Nat, NEW b \in Nat
  PROVE  Max({a, b}) \in Nat
<1>1. a \in Int /\ b \in Int
  OBVIOUS
<1>2. Max({a, b}) \in {a, b}
  BY <1>1, LesserGreater, Zenon
<1> QED  BY <1>2

LEMMA SizeOfPart ==
  ASSUME NEW S, IsFiniteSet(S), NEW T, T \subseteq S
  PROVE  IsFiniteSet(T) /\ Cardinality(T) \in Nat
BY FS_Subset, FS_CardinalityType

LEMMA JaccardIsInt ==
  ASSUME NEW a, NEW b, IsFiniteSet(a), IsFiniteSet(b)
  PROVE  Jaccard(a, b) \in Int
<1>1. IsFiniteSet(a \union b)
  BY FS_Union
<1>2. Cardinality(a \union b) \in Nat /\ Cardinality(a \intersect b) \in Nat
  BY <1>1, SizeOfPart
<1> QED  BY <1>2, MillionIsInt DEF Jaccard

LEMMA OverlapIsInt ==
  ASSUME NEW a, NEW b, IsFiniteSet(a), IsFiniteSet(b)
  PROVE  QuestionOverlap(a, b) \in Int
<1>1. Cardinality(a) \in Nat /\ Cardinality(b) \in Nat /\ Cardinality(a \intersect b) \in Nat
  BY SizeOfPart
<1>2. Max({Cardinality(a), Cardinality(b)}) \in Nat
  BY <1>1, GreaterIsNat, Zenon
<1>3. Million(Cardinality(a \intersect b), Max({Cardinality(a), Cardinality(b)})) \in Int
  BY <1>1, <1>2, MillionIsInt
<1> QED  BY <1>3 DEF QuestionOverlap

LEMMA TimelineIsInt ==
  ASSUME NEW S, NEW a \in Seq(S), NEW b \in Seq(S)
  PROVE  TimelineSimilarity(a, b) \in Int
<1> DEFINE common == {i \in DOMAIN b : b[i] \in ToSet(a)}
<1>1. Len(a) \in Nat /\ Len(b) \in Nat /\ DOMAIN b = 1 .. Len(b)
  OBVIOUS
<1>2. IsFiniteSet(1 .. Len(b))
  BY <1>1, FS_Interval
<1>3. Cardinality(common) \in Nat
  BY <1>1, <1>2, SizeOfPart
<1>4. Max({Len(a), Len(b)}) \in Nat
  BY <1>1, GreaterIsNat, Zenon
<1>5. Million(Cardinality(common), Max({Len(a), Len(b)})) \in Int
  BY <1>3, <1>4, MillionIsInt
<1> QED  BY <1>5 DEF TimelineSimilarity

LEMMA ListedIsFinite ==
  ASSUME NEW S, NEW seq \in Seq(S)
  PROVE  IsFiniteSet(ToSet(seq))
<1>1. DOMAIN seq = 1 .. Len(seq) /\ Len(seq) \in Nat
  OBVIOUS
<1>2. IsFiniteSet(DOMAIN seq)
  BY <1>1, FS_Interval
<1>3. ToSet(seq) = {seq[i] : i \in DOMAIN seq}
  BY DEF ToSet
<1> QED  BY <1>2, <1>3, ImageOfFinite

LEMMA ScoreIsInt ==
  ASSUME NEW x, NEW h, Comparable(x), Comparable(h)
  PROVE  ScoreSnapshot(x, h) \in Int
<1> DEFINE most == 100000000
           a == QuestionOverlap(x.tokens, h.tokens)
           b == Jaccard(Categories(x), Categories(h))
           c == Jaccard(x.edges, h.edges)
           d == TimelineSimilarity(x.timeline, h.timeline)
           e == Jaccard(ToSet(x.field), ToSet(h.field))
           Weight(cond, w) == IF cond THEN w * 1000000 ELSE 0
           score == 20 * a + Weight(h.goal = x.goal, 12)
                      + Weight(x.service # "" /\ h.service = x.service, 15)
                      + 15 * b + 12 * c + 10 * d + 10 * e
                      + Weight(x.cause # "" /\ h.cause = x.cause, 8)
                      + Weight(h.goal = x.goal \/ (x.cause # "" /\ h.cause = x.cause), 8)
<1>1. a \in Int /\ b \in Int /\ c \in Int
  BY OverlapIsInt, JaccardIsInt, Zenon DEF Comparable
<1>2. d \in Int
  BY TimelineIsInt, Zenon DEF Comparable
<1>3. e \in Int
  BY ListedIsFinite, JaccardIsInt, Zenon DEF Comparable
<1>4. ScoreSnapshot(x, h) = Min({most, score}) /\ most \in Int
  BY DEF ScoreSnapshot
<1> HIDE DEF a, b, c, d, e, most
<1>5. score \in Int
  BY <1>1, <1>2, <1>3
<1> HIDE DEF score
<1>6. Min({most, score}) \in {most, score}
  BY <1>4, <1>5, LesserGreater, Zenon
<1> QED  BY <1>4, <1>5, <1>6

(* A match shows an entry of the archive that is not one's own, each entry *)
(* at most once and never a better one after a worse.                      *)
Shown(x, all, matches) ==
  /\ DOMAIN matches \subseteq Nat /\ IsFiniteSet(DOMAIN matches)
  /\ \A i \in DOMAIN matches :
       \E h \in ToSet(all) :
         h.id # x.id /\ h.id = matches[i].id /\ h.cause = matches[i].cause
                     /\ h.confidence = matches[i].confidence
  /\ \A i, j \in DOMAIN matches :
       i < j => matches[i].id # matches[j].id /\ matches[i].score >= matches[j].score

LEMMA FindSimilarShows ==
  ASSUME NEW x, NEW S, NEW all \in Seq(S), NEW limit \in Nat,
         Comparable(x), \A h \in ToSet(all) : Comparable(h),
         \A i, j \in DOMAIN all : all[i].id = all[j].id => i = j
  PROVE  Shown(x, all, FindSimilar(x, all, limit))
<1> DEFINE close == {i \in DOMAIN all : /\ all[i].id # x.id
                                        /\ ScoreSnapshot(x, all[i]) >= 20000000}
           n     == Cardinality(close)
           key   == [i \in close |-> Match(x, all[i]).score]
           shown == [i \in close |-> Match(x, all[i])]
           order == Descending(key)
           kept  == Min({limit, n})
           told  == [r \in 1 .. kept |-> shown[order[r]]]
<1>1. /\ close \in SUBSET Int /\ IsFiniteSet(close)
      /\ \A i \in close : i \in DOMAIN all /\ all[i].id # x.id
  <2>1. DOMAIN all = 1 .. Len(all) /\ Len(all) \in Nat
    OBVIOUS
  <2>2. IsFiniteSet(1 .. Len(all))
    BY <2>1, FS_Interval
  <2> QED  BY <2>1, <2>2, SizeOfPart
<1> HIDE DEF close
<1>2. key \in [close -> Int]
  <2>1. ASSUME NEW i \in close PROVE Match(x, all[i]).score \in Int
    <3>1. all[i] \in ToSet(all)
      BY <1>1 DEF ToSet
    <3>2. ScoreSnapshot(x, all[i]) \in Int
      BY <3>1, ScoreIsInt
    <3>3. Rounded(ScoreSnapshot(x, all[i]), 100000) \in Int
      BY <3>2, RoundedIsInt
    <3> QED  BY <3>3 DEF Match
  <2> QED  BY <2>1
<1>3. DOMAIN key = close /\ \A i \in close : key[i] = shown[i].score
  OBVIOUS
<1>4. \A i \in close : /\ shown[i].id = all[i].id /\ shown[i].cause = all[i].cause
                       /\ shown[i].confidence = all[i].confidence
  BY DEF Match
<1> HIDE DEF key, shown
<1>5. /\ n \in Nat /\ order \in [1 .. n -> close]
      /\ \A r, s \in 1 .. n : r # s => order[r] # order[s]
      /\ \A r, s \in 1 .. n : r < s => key[order[r]] >= key[order[s]]
  BY <1>1, <1>2, DescendingOrders
<1>6. kept \in 0 .. n
  <2> HIDE DEF n
  <2>1. limit \in Int /\ n \in Int
    BY <1>5
  <2>2. kept \in {limit, n} /\ kept <= n
    BY <2>1, LesserGreater, Zenon
  <2> HIDE DEF kept
  <2> QED  BY <1>5, <2>2
<1>7. FindSimilar(x, all, limit) = told
  <2> DEFINE ranked == [r \in DOMAIN order |-> shown[order[r]]]
  <2>1. FindSimilar(x, all, limit) = SubSeq(ranked, 1, kept)
    BY DEF FindSimilar, Ranked, SortedBy, close, shown, key
  <2>2. ranked = [r \in 1 .. n |-> shown[order[r]]]
    BY <1>5
  <2>3. ranked \in Seq({shown[i] : i \in close}) /\ Len(ranked) = n
    BY <1>5, <2>2
  <2>4. SubSeq(ranked, 1, kept) = [r \in 1 .. kept |-> ranked[r]]
    BY <1>6, <2>3
  <2>5. \A r \in 1 .. kept : ranked[r] = shown[order[r]]
    BY <1>5, <1>6, <2>2
  <2> HIDE DEF ranked, order, kept
  <2>6. [r \in 1 .. kept |-> ranked[r]] = told
    BY <2>5
  <2> QED  BY <2>1, <2>4, <2>6
<1> HIDE DEF n, order, kept
<1>8. DOMAIN told = 1 .. kept /\ \A r \in 1 .. kept : told[r] = shown[order[r]]
  OBVIOUS
<1> HIDE DEF told
<1>9. DOMAIN told \subseteq Nat /\ IsFiniteSet(DOMAIN told)
  BY <1>6, <1>8, FS_Interval
<1>10. \A r \in 1 .. kept : r \in 1 .. n /\ order[r] \in close
  BY <1>5, <1>6
<1>11. ASSUME NEW r \in DOMAIN told
       PROVE  \E h \in ToSet(all) :
                h.id # x.id /\ h.id = told[r].id /\ h.cause = told[r].cause
                            /\ h.confidence = told[r].confidence
  <2>1. order[r] \in close /\ told[r] = shown[order[r]]
    BY <1>8, <1>10
  <2>2. all[order[r]] \in ToSet(all) /\ all[order[r]].id # x.id
    BY <1>1, <2>1 DEF ToSet
  <2>3. /\ told[r].id = all[order[r]].id /\ told[r].cause = all[order[r]].cause
        /\ told[r].confidence = all[order[r]].confidence
    BY <1>4, <2>1, Zenon
  <2> QED  BY <2>2, <2>3, Zenon
<1>12. ASSUME NEW r \in DOMAIN told, NEW s \in DOMAIN told, r < s
       PROVE  told[r].id # told[s].id /\ told[r].score >= told[s].score
  <2>1. /\ order[r] \in close /\ told[r] = shown[order[r]]
        /\ order[s] \in close /\ told[s] = shown[order[s]]
        /\ r \in 1 .. n /\ s \in 1 .. n
    BY <1>8, <1>10
  <2>2. order[r] # order[s] /\ key[order[r]] >= key[order[s]]
    BY <1>5, <1>12, <2>1, r # s
  <2>3. told[r].score >= told[s].score
    BY <1>3, <2>1, <2>2
  <2>4. told[r].id = all[order[r]].id /\ told[s].id = all[order[s]].id
    BY <1>4, <2>1
  <2> QED  BY <1>1, <2>1, <2>2, <2>3, <2>4, Zenon
<1> QED  BY <1>7, <1>9, <1>11, <1>12, Zenon DEF Shown

(* A lesson is learned from investigations that are shown.                 *)
LEMMA LessonsShown ==
  ASSUME NEW x, NEW all, NEW matches, Shown(x, all, matches),
         \A g, h \in ToSet(all) : g.id = h.id => g = h,
         NEW l \in ExtractLessons(matches, all)
  PROVE  Cardinality({m \in ToSet(matches) : m.cause = l.cause}) >= l.occurrences
<1> DEFINE told  == ToSet(matches)
           found == {Find(all, m.id) : m \in told}
           such  == {m \in told : m.cause = l.cause}
           Both(k) == {h \in found : h.cause = k[1] /\ k[2] \in Categories(h)}
           entry == [m \in such |-> Find(all, m.id)]
<1>1. IsFiniteSet(told)
  <2>1. told = {matches[i] : i \in DOMAIN matches}
    BY DEF ToSet
  <2> QED  BY <2>1, ImageOfFinite DEF Shown
<1>2. ASSUME NEW m \in told PROVE Find(all, m.id) \in ToSet(all) /\ Find(all, m.id).cause = m.cause
  <2>1. PICK i \in DOMAIN matches : m = matches[i]
    BY DEF ToSet
  <2>2. PICK h \in ToSet(all) : h.id = m.id /\ h.cause = m.cause
    BY <2>1, Zenon DEF Shown
  <2>3. Find(all, m.id) \in ToSet(all) /\ Find(all, m.id).id = m.id
    BY <2>2, Zenon DEF Find
  <2>4. Find(all, m.id) = h
    BY <2>2, <2>3, Zenon
  <2> QED  BY <2>2, <2>3, <2>4
<1>3. PICK k : l = [cause |-> k[1], category |-> k[2], occurrences |-> Cardinality(Both(k))]
  BY Zenon DEF ExtractLessons
<1>4. l.cause = k[1] /\ l.occurrences = Cardinality(Both(k))
  BY <1>3
<1>5. IsFiniteSet(such)
  BY <1>1, FS_Subset
<1>6. Both(k) \subseteq {entry[m] : m \in such}
  BY <1>2, <1>4
<1> HIDE DEF such, entry
<1>7. /\ IsFiniteSet({entry[m] : m \in such}) /\ Cardinality(such) \in Nat
      /\ Cardinality({entry[m] : m \in such}) <= Cardinality(such)
  BY <1>5, ImageOfFinite, FS_CardinalityType
<1> HIDE DEF Both
<1>8. /\ Cardinality(Both(k)) <= Cardinality({entry[m] : m \in such})
      /\ Cardinality(Both(k)) \in Nat
      /\ Cardinality({entry[m] : m \in such}) \in Nat
  BY <1>6, <1>7, FS_Subset, FS_CardinalityType
<1> QED  BY <1>4, <1>7, <1>8 DEF such

-----------------------------------------------------------------------------
LEMMA InitArchiveInv == Init => ArchiveInv
<1> SUFFICES ASSUME Init PROVE ArchiveInv
  OBVIOUS
<1>1. /\ archive = << >> /\ stored = 0
      /\ \A s \in Session : state[s] = "absent" /\ status[s] = "started" /\ heard[s] = 0
  BY DEF Init
<1>2. ToSet(archive) = {}
  BY <1>1 DEF ToSet
<1>3. TypeOK
  <2>1. 0 \in Scale
    BY DEF Scale
  <2>2. {} \in DOMAIN Outlook
    BY OutlookAssumption, Zenon
  <2>3. archive \in Seq(Snapshots) /\ stored \in Nat
    BY <1>1
  <2> QED  BY <2>1, <2>2, <2>3 DEF Init, TypeOK
<1>4. FinishedArchived
  <2>1. Filed(ToSet(archive), profile)
    BY <1>2, Zenon DEF Filed
  <2> QED  BY <1>1, <2>1 DEF FinishedArchived, Completed
<1>5. \A s \in Session : SessionAssessed(s)
  BY <1>1 DEF SessionAssessed, Started, Completed
<1>6. IsFiniteSet(ToSet(archive))
  BY <1>2, FS_EmptySet
<1> QED  BY <1>3, <1>4, <1>5, <1>6, Zenon DEF ArchiveInv

(* Every operation is one recompute or one finish.                         *)
LEMMA ArchiveInvStep ==
  ASSUME ArchiveInv, [Next]_vars
  PROVE  ArchiveInv' /\ \A s \in Session : Started(s) => Started(s)'
<1>1. CASE UNCHANGED vars
  <2>1. /\ profile' = profile /\ evidence' = evidence /\ confidence' = confidence
        /\ assessed' = assessed /\ state' = state /\ status' = status
        /\ archive' = archive /\ stored' = stored /\ heard' = heard
    BY <1>1 DEF vars, session
  <2>2. \A s \in Session : Precedents(s)' = Precedents(s) /\ Started(s)' = Started(s)
    BY <2>1, Zenon DEF Precedents, Related, Started
  <2>3. TypeOK'
    BY <2>1, Zenon DEF ArchiveInv, TypeOK
  <2>4. FinishedArchived'
    BY <2>1, Zenon DEF ArchiveInv, FinishedArchived, Completed
  <2>5. \A s \in Session : SessionAssessed(s)'
    BY <2>1, <2>2, ZenonT(40) DEF ArchiveInv, SessionAssessed, Completed
  <2> QED  BY <2>1, <2>2, <2>3, <2>4, <2>5, Zenon DEF ArchiveInv
<1>2. ASSUME NEW s \in Session, Start(s) \/ Submit(s) \/ Get(s) \/ Finish(s)
      PROVE  ArchiveInv' /\ \A t \in Session : Started(t) => Started(t)'
  <2>1. /\ evidence[s] \in DOMAIN Outlook
        /\ Started(s) => profile[s] \in Profiles
        /\ Completed(s) => Started(s)
    BY DEF ArchiveInv, SessionAssessed, TypeOK, Started
  <2>2. ASSUME Start(s) PROVE ArchiveInv' /\ \A t \in Session : Started(t) => Started(t)'
    <3>1. PICK p \in Profiles : Recompute(s, p, {})
      BY <2>2, Zenon DEF Start
    <3>2. archive' = archive /\ stored' = stored /\ ~Started(s)
      BY <2>2, Zenon DEF Start
    <3> QED  BY <3>1, <3>2, OutlookAssumption, RecomputeStep, Zenon
  <2>3. ASSUME Submit(s) PROVE ArchiveInv' /\ \A t \in Session : Started(t) => Started(t)'
    <3>1. PICK batch \in Batches :
            /\ batch \intersect evidence[s] = {}
            /\ Recompute(s, profile[s], evidence[s] \union batch)
      BY <2>3, Zenon DEF Submit
    <3>2. archive' = archive /\ stored' = stored /\ Started(s)
      BY <2>3, Zenon DEF Submit
    <3>3. evidence[s] \union batch \in DOMAIN Outlook
      BY <2>1, <3>1, OutlookAssumption, ZenonT(40)
    <3> QED  BY <2>1, <3>1, <3>2, <3>3, RecomputeStep, Zenon
  <2>4. ASSUME Get(s) PROVE ArchiveInv' /\ \A t \in Session : Started(t) => Started(t)'
    <3>1. /\ Recompute(s, profile[s], evidence[s])
          /\ archive' = archive /\ stored' = stored /\ Started(s)
      BY <2>4, Zenon DEF Get
    <3> QED  BY <2>1, <3>1, RecomputeStep, Zenon
  <2> QED  BY <1>2, <2>2, <2>3, <2>4, FinishStep, Zenon DEF Finish, FinishAgain
<1> QED  BY <1>1, <1>2, Zenon DEF Next

(* No entry leaves the archive.                                            *)
LEMMA ArchiveGrows ==
  ASSUME ArchiveInv, [Next]_vars
  PROVE  ToSet(archive) \subseteq ToSet(archive')
<1>1. CASE archive' = archive
  BY <1>1
<1>2. ASSUME NEW s \in Session, FinishOpen(s)
      PROVE  ToSet(archive) \subseteq ToSet(archive')
  <2>1. PICK h : archive' = Store(archive, h)
    BY <1>2, Zenon DEF FinishOpen
  <2>2. archive' = archive \/ archive' = Append(archive, h)
    BY <2>1, Zenon DEF Store
  <2>3. CASE archive' = Append(archive, h)
    <3>1. archive \in Seq(Snapshots)
      BY Zenon DEF ArchiveInv, TypeOK
    <3> DEFINE S == Snapshots \union {h}
    <3>2. archive \in Seq(S) /\ h \in S
      BY <3>1
    <3> HIDE DEF S
    <3>3. ToSet(Append(archive, h)) = ToSet(archive) \union {h}
      BY <3>2, AppendedSet, ZenonT(40)
    <3> QED  BY <2>3, <3>3
  <2> QED  BY <1>1, <2>2, <2>3
<1>3. [Next]_vars => archive' = archive \/ \E s \in Session : FinishOpen(s)
  BY Zenon DEF Next, Start, Submit, Get, Finish, FinishAgain, vars
<1> QED  BY <1>1, <1>2, <1>3

LEMMA ArchiveInvHolds == Spec => []ArchiveInv
<1>1. ArchiveInv /\ [Next]_vars => ArchiveInv'
  BY ArchiveInvStep
<1> QED  BY InitArchiveInv, <1>1, PTL DEF Spec

(* The archive holds exactly the finished investigations, each once and    *)
(* under the goal and service it was started with, the counter of stored   *)
(* ones is its length, and every confidence is a percentage: calibrating   *)
(* never leaves the scale (Store, Calibrate).                    *)
THEOREM FinishedAlwaysArchived == Spec => [](TypeOK /\ FinishedArchived)
<1>1. ArchiveInv => TypeOK /\ FinishedArchived
  BY Zenon DEF ArchiveInv
<1> QED  BY <1>1, ArchiveInvHolds, PTL

(* An investigation whose precedents all ended with other causes is not in *)
(* high confidence, however sure its own evidence makes it: the blend      *)
(* leaves 55 percent at most, and the half point below which a calibration *)
(* is not applied cannot bridge the gap to 70.                             *)
THEOREM NovelCauseAlwaysHeldBack == Spec => []NovelCauseHeldBack
<1>1. ArchiveInv => NovelCauseHeldBack
  <2> SUFFICES ASSUME ArchiveInv, NEW s \in Session, Precedents(s) # {},
                      \A h \in Precedents(s) : h.cause # Asking(s).cause,
                      state[s] = "high_confidence"
               PROVE  FALSE
    BY Zenon DEF NovelCauseHeldBack
  <2> DEFINE E == evidence[s]
             kin == Precedents(s)
  <2>1. /\ TypeOK /\ IsFiniteSet(ToSet(archive)) /\ SessionAssessed(s)
        /\ E \in DOMAIN Outlook /\ Started(s)
    BY DEF ArchiveInv, TypeOK, Started
  <2>2. /\ assessed[s] = Assessment(E, kin)
        /\ assessed[s] >= 700
    BY <2>1 DEF SessionAssessed
  <2>3. IsFiniteSet(kin) /\ Named(kin)
    <3>1. ToSet(SubSeq(archive, 1, heard[s])) \subseteq ToSet(archive)
      BY <2>1 DEF SessionAssessed, TypeOK, ToSet
    <3> QED  BY <2>1, <3>1, PrecedentsAmong, PrecedentsGood, Zenon
  <2>4. Agreeing(kin, Lead(E)) = {}
    <3>1. Asking(s).cause = Lead(E)
      <4>1. Describes(Asking(s), s, profile[s], E, confidence[s])
        BY <2>1, SnapshotFields, Zenon DEF Asking
      <4> QED  BY <4>1, Zenon DEF Describes
    <3> QED  BY <3>1, Zenon DEF Agreeing
  <2>5. Assessment(E, kin) \in Scale /\ Assessment(E, kin) < 700
    BY <2>1, <2>3, <2>4, AssessmentOnScale, ZenonT(40) DEF Lead
  <2> HIDE DEF kin, E
  <2> QED  BY <2>2, <2>5 DEF Scale
<1> QED  BY <1>1, ArchiveInvHolds, PTL

(* An assessment only moves with the evidence or with the precedents, the  *)
(* session's own entry in the archive never being one.                     *)
THEOREM UnrelatedHistoryNeverFelt == Spec => UnrelatedHistoryUnfelt
<1>1. ArchiveInv /\ [Next]_vars =>
        \A s \in Session :
          (Started(s) /\ evidence'[s] = evidence[s] /\ Precedents(s)' = Precedents(s))
            => assessed'[s] = assessed[s]
  <2> SUFFICES ASSUME ArchiveInv, [Next]_vars, NEW s \in Session, Started(s),
                      evidence'[s] = evidence[s], Precedents(s)' = Precedents(s)
               PROVE  assessed'[s] = assessed[s]
    OBVIOUS
  <2>1. ArchiveInv' /\ Started(s)'
    BY ArchiveInvStep, Zenon
  <2>2. assessed[s] = Assessment(evidence[s], Precedents(s))
    BY Zenon DEF ArchiveInv, SessionAssessed
  <2>3. assessed'[s] = Assessment(evidence'[s], Precedents(s)')
    BY <2>1, Zenon DEF ArchiveInv, SessionAssessed
  <2> QED  BY <2>2, <2>3, Zenon
<1> QED  BY <1>1, ArchiveInvHolds, PTL DEF Spec, UnrelatedHistoryUnfelt

(* What a client is told of similar investigations is borne out by the     *)
(* archive, and still is when the next one has been archived: matches are  *)
(* of other investigations, each shown once, better ones first, as the     *)
(* archive has them; lessons and causes are those of matches shown.        *)
(* (FindSimilar, ExtractLessons, BuildRecommendations, Store.)             *)
LEMMA ToldBorneOut ==
  ASSUME ArchiveInv, ArchiveInv', NEW s \in Session, Started(s), NEW limit \in Nat,
         ToSet(archive) \subseteq ToSet(archive')
  PROVE  BorneOut(s, FindSimilarInvestigations(s, limit), archive')
<1> DEFINE x       == Asking(s)
           told    == FindSimilarInvestigations(s, limit)
           most    == IF limit = 0 THEN 5 ELSE limit
           matches == FindSimilar(x, archive, most)
<1>1. /\ archive \in Seq(Snapshots) /\ profile[s] \in Profiles /\ evidence[s] \in DOMAIN Outlook
      /\ \A i, j \in DOMAIN archive : archive[i].id = archive[j].id => i = j
  <2>1. TypeOK /\ FinishedArchived /\ SessionAssessed(s)
    BY Zenon DEF ArchiveInv
  <2>2. archive \in Seq(Snapshots) /\ evidence[s] \in DOMAIN Outlook
    BY <2>1, Zenon DEF TypeOK
  <2>3. profile[s] \in Profiles
    BY <2>1, Zenon DEF SessionAssessed
  <2> QED  BY <2>1, <2>2, <2>3, Zenon DEF FinishedArchived
<1>2. \A h \in ToSet(archive) : h \in Snapshots
  BY <1>1 DEF ToSet
<1>3. x.id = s /\ Comparable(x)
  <2>1. Describes(x, s, profile[s], evidence[s], confidence[s])
    BY <1>1, SnapshotFields, Zenon DEF Asking
  <2> QED  BY <1>1, <2>1, SnapshotComparable, Zenon DEF Describes, Asking
<1>4. \A h \in ToSet(archive) : Comparable(h) /\ h.cause # ""
  <2> SUFFICES ASSUME NEW h \in ToSet(archive) PROVE Comparable(h) /\ h.cause # ""
    OBVIOUS
  <2>1. PICK t \in Session, p \in Profiles, E \in DOMAIN Outlook, conf \in Scale :
          h = BuildSnapshot(t, p, E, conf)
    BY <1>2 DEF Snapshots
  <2>2. Describes(h, t, p, E, conf)
    BY <2>1, SnapshotFields, Zenon
  <2> QED  BY <2>1, <2>2, SnapshotComparable, Zenon DEF Describes
<1>5. most \in Nat
  OBVIOUS
<1>6. Shown(x, archive, matches)
  BY <1>1, <1>3, <1>4, <1>5, FindSimilarShows
<1>7. \A g, h \in ToSet(archive) : g.id = h.id => g = h
  BY <1>1, Zenon DEF ToSet
<1>8. /\ told.matches = matches /\ told.lessons = ExtractLessons(matches, archive)
      /\ told.recommendations.causes = {m.cause : m \in ToSet(matches)} \ {""}
  BY DEF FindSimilarInvestigations, BuildRecommendations
<1> HIDE DEF told, matches, x
<1>9. ASSUME NEW i \in DOMAIN matches
      PROVE  /\ matches[i].id # s
             /\ matches[i].cause # ""
             /\ \E h \in ToSet(archive') : /\ h.id = matches[i].id /\ h.cause = matches[i].cause
                                           /\ h.confidence = matches[i].confidence
  <2>1. PICK h \in ToSet(archive) :
          h.id # x.id /\ h.id = matches[i].id /\ h.cause = matches[i].cause
                      /\ h.confidence = matches[i].confidence
    BY <1>6, Zenon DEF Shown
  <2> QED  BY <1>3, <1>4, <2>1, Zenon
<1>10. \A i, j \in DOMAIN matches :
         i < j => matches[i].id # matches[j].id /\ matches[i].score >= matches[j].score
  BY <1>6, Zenon DEF Shown
<1>11. \A l \in told.lessons :
         Cardinality({m \in ToSet(matches) : m.cause = l.cause}) >= l.occurrences
  <2> SUFFICES ASSUME NEW l \in ExtractLessons(matches, archive)
               PROVE  Cardinality({m \in ToSet(matches) : m.cause = l.cause}) >= l.occurrences
    BY <1>8, Zenon
  <2> QED  BY <1>6, <1>7, LessonsShown
<1>12. told.recommendations.causes = {m.cause : m \in ToSet(matches)}
  <2>1. \A m \in ToSet(matches) : m.cause # ""
    BY <1>9, Zenon DEF ToSet
  <2> QED  BY <1>8, <2>1
<1>13. BorneOut(s, told, archive')
  BY <1>8, <1>9, <1>10, <1>11, <1>12, ZenonT(40) DEF BorneOut
<1> QED  BY <1>13 DEF told

THEOREM PrecedentsAlwaysStand == Spec => PrecedentsStand
<1>1. ArchiveInv /\ [Next]_vars =>
        (\/ /\ stored' = Len(archive')
            /\ archive' # archive =>
                 \A s \in Session, limit \in Limits :
                   Started(s) => BorneOut(s, FindSimilarInvestigations(s, limit), archive')
         \/ UNCHANGED vars)
  <2> SUFFICES ASSUME ArchiveInv, [Next]_vars, ~UNCHANGED vars
               PROVE  /\ stored' = Len(archive')
                      /\ \A s \in Session, limit \in Limits :
                           Started(s) => BorneOut(s, FindSimilarInvestigations(s, limit), archive')
    BY Zenon
  <2>1. ArchiveInv'
    BY ArchiveInvStep, Zenon
  <2>2. stored' = Len(archive')
    BY <2>1, Zenon DEF ArchiveInv, FinishedArchived
  <2>3. ToSet(archive) \subseteq ToSet(archive')
    BY ArchiveGrows, Zenon
  <2>4. ASSUME NEW s \in Session, NEW limit \in Limits, Started(s)
        PROVE  BorneOut(s, FindSimilarInvestigations(s, limit), archive')
    <3>1. limit \in Nat
      BY ArchiveAssumption, Zenon
    <3> QED  BY <2>1, <2>3, <2>4, <3>1, ToldBorneOut, Zenon
  <2> QED  BY <2>2, <2>4, Zenon
<1> QED  BY <1>1, ArchiveInvHolds, PTL DEF Spec, PrecedentsStand

=============================================================================

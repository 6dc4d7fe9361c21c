------------------------ MODULE IncidentIntelligence ------------------------
(***************************************************************************)
(* The engines of internal/intelligence: what is kept of a completed       *)
(* investigation, and what earlier ones say of a running one - calibrated  *)
(* confidence, similar investigations, patterns, lessons, recommendations. *)
(*                                                                         *)
(* A snapshot, and a running investigation that is compared with them, is  *)
(* a record                                                                *)
(*   [id, goal, service, tokens, field, cause, confidence, counts, edges,  *)
(*    timeline, labels, asked]                                             *)
(* of the words of its question, its hypotheses best first, the leading    *)
(* one, items per category, edge types, categories in order of time, the   *)
(* trigger words in its graph's labels, and questions.  The fingerprint    *)
(* only repeats goal and cause, its hashes are never compared.             *)
(*                                                                         *)
(* Percentages are in tenths, as round1 leaves them; floating point is     *)
(* taken as exact, except for shares, in millionths.                       *)
(***************************************************************************)
EXTENDS Sequences, Sorting

LOCAL INSTANCE FiniteSetsExt
LOCAL INSTANCE SequencesExt
LOCAL INSTANCE TLC

Rounded(num, den) == (2 * num + den) \div (2 * den)

Total(f(_), S) == MapThenSumSet(f, S)

(* A share of two counts; nothing compares with nothing.                   *)
Million(part, whole) == IF whole = 0 THEN 0 ELSE Rounded(1000000 * part, whole)

-----------------------------------------------------------------------------
(* Calibration.                                                            *)

(* Slip: an investigation that goes on after it was archived learns from   *)
(* itself.                                                                 *)
FilterHistoryOwn(all, x) ==
  {h \in all : /\ h.service \in {"", x.service} \/ x.service = ""
               /\ h.goal = x.goal}

(* The archived investigations that count for x: not its own, not of       *)
(* another service, of the same goal.                                      *)
FilterHistory(all, x) ==
  {h \in all : /\ h.id # x.id
               /\ h.service \in {"", x.service} \/ x.service = ""
               /\ h.goal = x.goal}

(* Slip: history that names another cause is no evidence against this one. *)
CalibrateKindly(cause, raw, history) ==
  LET correct == {h \in history : h.cause = cause}
  IN  IF correct = {} THEN raw ELSE Rounded(55 * raw + 45 * 1000, 100)

(* Where the history knows no cause: its mean confidence counts a fifth.   *)
BlendWithMean(raw, history) ==
  LET m == Cardinality(history)
  IN  Rounded(8 * raw * m + 2 * Total(LAMBDA h : h.confidence, history), 10 * m)

(* Where it does: the share that had the cause in the end counts for      *)
(* nearly half.                                                            *)
BlendWithRate(raw, correct, similar) ==
  Rounded(55 * raw * similar + 45 * 1000 * correct, 100 * similar)

(* HeuristicCalibrator.                                                    *)
Calibrate(cause, raw, history) ==
  LET similar == {h \in history : h.cause # ""}
      correct == {h \in similar : h.cause = cause}
  IN  CASE history = {} -> raw
        [] history # {} /\ similar = {} -> BlendWithMean(raw, history)
        [] OTHER -> BlendWithRate(raw, Cardinality(correct), Cardinality(similar))

(* CalibrateFromRequest, for the leading hypothesis of x.                  *)
CalibrateFromRequest(x, all) == Calibrate(x.cause, x.confidence, FilterHistory(all, x))

-----------------------------------------------------------------------------
(* Similarity.                                                             *)
Jaccard(a, b) == Million(Cardinality(a \intersect b), Cardinality(a \union b))

QuestionOverlap(a, b) ==
  IF a = {} \/ b = {} THEN 0
  ELSE Million(Cardinality(a \intersect b), Max({Cardinality(a), Cardinality(b)}))

(* The entries of b whose category occurs in a, over the longer one.       *)
TimelineSimilarity(a, b) ==
  IF a = << >> \/ b = << >> THEN 0
  ELSE Million(Cardinality({i \in DOMAIN b : b[i] \in ToSet(a)}), Max({Len(a), Len(b)}))

Categories(x) == DOMAIN x.counts

(* scoreSnapshot, in hundred millionths: weights are percentages.  The     *)
(* last two say the same of goal and cause again, through the fingerprint. *)
ScoreSnapshot(x, h) ==
  LET Weight(cond, w) == IF cond THEN w * 1000000 ELSE 0
      score == 20 * QuestionOverlap(x.tokens, h.tokens)
                 + Weight(h.goal = x.goal, 12)
                 + Weight(x.service # "" /\ h.service = x.service, 15)
                 + 15 * Jaccard(Categories(x), Categories(h))
                 + 12 * Jaccard(x.edges, h.edges)
                 + 10 * TimelineSimilarity(x.timeline, h.timeline)
                 + 10 * Jaccard(ToSet(x.field), ToSet(h.field))
                 + Weight(x.cause # "" /\ h.cause = x.cause, 8)
                 + Weight(h.goal = x.goal \/ (x.cause # "" /\ h.cause = x.cause), 8)
  IN  Min({100000000, score})

(* What is shown of a similar investigation.                               *)
Match(x, h) == [id |-> h.id, cause |-> h.cause, confidence |-> h.confidence,
                score |-> Rounded(ScoreSnapshot(x, h), 100000)]

(* The entries at some positions of the archive, best first; equal scores  *)
(* in the order they were archived (a sort of so few is an insertion sort).*)
Ranked(x, archive, close) ==
  SortedBy([i \in close |-> Match(x, archive[i])], [i \in close |-> Match(x, archive[i]).score])

(* Slip: an investigation that was archived is compared with itself.       *)
FindSimilarOwn(x, archive, limit) ==
  LET close == {i \in DOMAIN archive : ScoreSnapshot(x, archive[i]) >= 20000000}
  IN  SubSeq(Ranked(x, archive, close), 1, Min({limit, Cardinality(close)}))

FindSimilar(x, archive, limit) ==
  LET close == {i \in DOMAIN archive : /\ archive[i].id # x.id
                                       /\ ScoreSnapshot(x, archive[i]) >= 20000000}
  IN  SubSeq(Ranked(x, archive, close), 1, Min({limit, Cardinality(close)}))

-----------------------------------------------------------------------------
(* Patterns.                                                               *)
Pattern(cause, sequence, expected, asks) ==
  [cause |-> cause, sequence |-> sequence, expected |-> expected, asks |-> asks]

(* Descriptions are left out, and a pattern is named by the cause it is    *)
(* typical of: no two share one.                                           *)
DefaultPatternLibrary ==
  << Pattern("deployment-caused", {"deploy", "latency", "error", "rollback", "recover"},
       {"deployment_events", "application_logs", "metrics", "alert_events"},
       {"deployment before errors?", "a rollback?"}),
     Pattern("certificate-expiry", {"certificate", "tls", "connection", "renewal"},
       {"security_events", "application_logs", "network_events"}, {"certificate expired?"}),
     Pattern("database-saturation", {"database", "timeout", "saturation"},
       {"database_events", "metrics", "application_logs"}, {"connections exhausted?"}),
     Pattern("lock-contention", {"database", "lock", "latency"},
       {"database_events", "trace_events", "configuration_changes", "metrics"},
       {"blocked on the same row?", "lock timeouts configured?"}),
     Pattern("retry-storm", {"retry", "latency", "error"},
       {"application_logs", "metrics", "trace_events"}, {}),
     Pattern("dependency-failure", {"dependency", "timeout", "error"},
       {"application_logs", "trace_events", "alert_events"}, {}),
     Pattern("external-outage", {"external", "vendor", "outage"},
       {"application_logs", "network_events"}, {}),
     Pattern("infrastructure-failure", {"node", "hardware", "unavailable"},
       {"infrastructure_events", "alert_events"}, {}),
     Pattern("kubernetes-failure", {"kubernetes", "readiness", "restart"},
       {"infrastructure_events", "application_logs"}, {}),
     Pattern("messaging-failure", {"kafka", "consumer", "lag"},
       {"application_logs", "metrics"}, {}),
     Pattern("cache-failure", {"cache", "redis", "unavailable"},
       {"metrics", "application_logs"}, {}),
     Pattern("storage-failure", {"storage", "disk", "mount"},
       {"infrastructure_events", "metrics"}, {}),
     Pattern("load-balancer-failure", {"load balancer", "health", "backend"},
       {"network_events", "application_logs"}, {}),
     Pattern("feature-flag-failure", {"feature flag", "rollout", "enabled"},
       {"configuration_changes", "application_logs"}, {}),
     Pattern("regional-failure", {"region", "availability zone", "outage"},
       {"infrastructure_events", "network_events"}, {}),
     Pattern("api-contract-failure", {"schema", "version", "serialization"},
       {"application_logs", "trace_events"}, {}),
     Pattern("performance-regression", {"latency", "regression", "slow"},
       {"metrics", "trace_events"}, {}) >>

(* Its cause, or all its evidence and half its triggers, rounded down.     *)
PatternMatches(p, h) ==
  \/ h.cause = p.cause
  \/ /\ p.expected \subseteq Categories(h)
     /\ Cardinality(p.sequence \intersect h.labels) >= Cardinality(p.sequence) \div 2

(* spoken: trigger words in the text of x's question and service.  What x  *)
(* left in the archive itself counts as well.                              *)
Suggest(x, spoken, archive, limit) ==
  LET Seen(p) == {h \in ToSet(archive) : h.goal = x.goal /\ PatternMatches(p, h)}
      Count(p) == Max({1, Cardinality(Seen(p))})
      Points(p) == Min({95, 18 * Count(p) + 10 + 15 * Cardinality(p.sequence \intersect spoken)})
      fit == SelectSeq(DefaultPatternLibrary, LAMBDA p : Seen(p) # {} \/ PatternMatches(p, x))
      total == FoldLeft(LAMBDA sum, p : sum + Points(p), 0, fit)
      ranked == SortSeq(fit, LAMBDA p, q :
                  Points(p) > Points(q) \/ (Points(p) = Points(q) /\ Count(p) > Count(q)))
  IN  [i \in 1 .. Min({limit, Len(ranked)}) |->
         [cause       |-> ranked[i].cause,
          confidence  |-> Rounded(1000 * Points(ranked[i]), total),
          occurrences |-> Count(ranked[i]),
          expected    |-> ranked[i].expected,
          asks        |-> ranked[i].asks]]

-----------------------------------------------------------------------------
(* Knowledge.                                                              *)
Find(archive, id) == CHOOSE h \in ToSet(archive) : h.id = id

(* For each cause and category: how many of the matches had both.          *)
ExtractLessons(matches, archive) ==
  LET found == {Find(archive, m.id) : m \in ToSet(matches)}
      keys == UNION {{<<h.cause, c>> : c \in Categories(h)} : h \in {g \in found : g.cause # ""}}
  IN  {[cause |-> k[1], category |-> k[2],
        occurrences |-> Cardinality({h \in found : h.cause = k[1] /\ k[2] \in Categories(h)})] :
         k \in keys}

(* The lists that come out of a map have no order of their own.            *)
BuildRecommendations(matches, patterns, lessons, archive) ==
  [causes    |-> {m.cause : m \in ToSet(matches)} \ {""},
   missing   |-> (UNION {p.expected : p \in ToSet(patterns)}) \union {l.category : l \in lessons},
   questions |-> UNION {Find(archive, m.id).asked : m \in ToSet(matches)}
                   \union UNION {p.asks : p \in ToSet(patterns)}]

=============================================================================

------------------------- MODULE ReasoningCycleProofs -------------------------
(***************************************************************************)
(* What every recompute keeps, for every playbook, every evidence and      *)
(* every answer of the host, proved.                                       *)
(*                                                                         *)
(* The heuristics stay on their scales, the archetypes make a well-formed  *)
(* field of hypotheses, every reasoner proposes well-formed actions, and   *)
(* each action applied keeps the session and the plan well-formed; so does *)
(* the fold over all of them (Folding).  The protocol run's rescaling      *)
(* makes the shares add up again, and the listing of the questions keeps   *)
(* to the plan's.  CycleInv puts this together, phase by phase.            *)
(* GraphInv adds what the order of the actions makes of the graph, RunInv  *)
(* that every recompute is one that InvestigationRuntime allows, StillInv  *)
(* what is left of recomputes that nothing came into.                      *)
(***************************************************************************)
EXTENDS ReasoningCycle, QuestionProtocolProofs, FiniteInduction, SequenceTheorems

-----------------------------------------------------------------------------
(* Arithmetic.                                                             *)
LEMMA Divides ==
  ASSUME NEW n \in Int, NEW d \in Nat \ {0}
  PROVE  /\ n \div d \in Int
         /\ d * (n \div d) <= n
         /\ n < d * (n \div d) + d
  OBVIOUS

LEMMA RoundedBetween ==
  ASSUME NEW n \in Int, NEW d \in Nat \ {0}
  PROVE  /\ Rounded(n, d) \in Int
         /\ (2 * d) * Rounded(n, d) <= 2 * n + d
         /\ 2 * n - d < (2 * d) * Rounded(n, d)
<1>1. 2 * d \in Nat \ {0} /\ 2 * n + d \in Int
  OBVIOUS
<1>2. LET r == (2 * n + d) \div (2 * d) IN
       r \in Int /\ (2 * d) * r <= 2 * n + d /\ 2 * n + d < (2 * d) * r + 2 * d
  BY <1>1, Divides
<1> QED  BY <1>2 DEF Rounded

LEMMA Cancelled ==
  ASSUME NEW t \in Nat \ {0}, NEW x \in Int, NEW y \in Int, t * x <= t * y
  PROVE  x <= y
  OBVIOUS

(* A ratio of at most one is between 0 and 1000 tenths of a percent.       *)
IsRatio(n, d) == n \in Nat /\ d \in Nat \ {0} /\ n <= 1000 * d

LEMMA RatioRounded ==
  ASSUME NEW n, NEW d, IsRatio(n, d)
  PROVE  Rounded(n, d) \in 0 .. 1000
<1> USE DEF IsRatio
<1> DEFINE r == Rounded(n, d)
<1>1. r \in Int /\ (2 * d) * r <= 2 * n + d /\ 2 * n - d < (2 * d) * r
  BY RoundedBetween
<1> HIDE DEF r
<1>2. d * (2 * r) <= d * 2001 /\ d * (-1) <= d * (2 * r)
  BY <1>1
<1>3. 2 * r <= 2001 /\ -1 <= 2 * r
  BY <1>1, <1>2, Cancelled
<1>4. r \in 0 .. 1000
  BY <1>1, <1>3
<1> QED  BY <1>4 DEF r

LEMMA ClampedBetween ==
  ASSUME NEW v \in Int, NEW lo \in Int, NEW hi \in Int, lo <= hi
  PROVE  Clamp(v, lo, hi) \in lo .. hi
  BY DEF Clamp

LEMMA LesserOfTwo ==
  ASSUME NEW a \in Int, NEW b \in Int
  PROVE  Min({a, b}) \in {a, b} /\ Min({a, b}) <= a /\ Min({a, b}) <= b
<1>1. \E x \in {a, b} : \A y \in {a, b} : x <= y
  OBVIOUS
<1> QED  BY <1>1 DEF Min

-----------------------------------------------------------------------------
(* The weights of required evidence.                                       *)
IsWeights(required) ==
  required \in [DOMAIN required -> 1 .. 3] /\ IsFiniteSet(DOMAIN required)

LEMMA TotalWeightBounds ==
  ASSUME NEW required, IsWeights(required), NEW C
  PROVE  /\ TotalWeight(required, C) \in Nat
         /\ TotalWeight(required, C) <= TotalWeight(required, DOMAIN required)
         /\ DOMAIN required # {} => TotalWeight(required, DOMAIN required) # 0
<1> DEFINE D == DOMAIN required
           f == [c \in D |-> IF c \in C THEN required[c] ELSE 0]
           g == [c \in D |-> IF c \in D THEN required[c] ELSE 0]
<1>1. TotalWeight(required, C) = SumFunctionOnSet(f, D)
      /\ TotalWeight(required, D) = SumFunctionOnSet(g, D)
  BY DEF TotalWeight, SumFunction
<1>2. IsFiniteSet(D) /\ f \in [D -> Nat] /\ g \in [D -> Nat]
  BY DEF IsWeights
<1>3. \A x \in D : g[x] \in Nat /\ g[x] >= 1
  BY DEF IsWeights
<1>4. TermsWithin(D, 1, f, 1, g, 0)
  BY DEF IsWeights, TermsWithin
<1> HIDE DEF D, f, g
<1>10. Cardinality(D) \in Nat /\ f \in [D -> Int] /\ g \in [D -> Int]
  BY <1>2, FS_CardinalityType
<1>5. SumFunctionOnSet(f, D) \in Int /\ SumFunctionOnSet(g, D) \in Int
  BY <1>2, <1>10, SumIsInt
<1>6. SumFunctionOnSet(f, D) <= SumFunctionOnSet(g, D)
  <2>1. SumsWithin(D, 1, f, 1, g, 0)
    BY <1>2, <1>4, <1>10, SumsCompared
  <2> QED  BY <1>5, <1>10, <2>1 DEF SumsWithin
<1>7. ASSUME NEW x \in D
      PROVE  SumFunctionOnSet(f, D) \in Nat /\ SumFunctionOnSet(g, D) >= 1
  <2>1. /\ f[x] <= SumFunctionOnSet(f, D) /\ SumFunctionOnSet(f, D) \in Nat
        /\ g[x] <= SumFunctionOnSet(g, D) /\ SumFunctionOnSet(g, D) \in Nat
    BY <1>2, TermBelowSum
  <2> QED  BY <1>3, <2>1
<1>8. D = {} => SumFunctionOnSet(f, D) = 0
  BY SumIsPartial, EmptySum, FS_EmptySet
<1>9. /\ SumFunctionOnSet(f, D) \in Nat
      /\ SumFunctionOnSet(f, D) <= SumFunctionOnSet(g, D)
      /\ D # {} => SumFunctionOnSet(g, D) # 0
  BY <1>5, <1>6, <1>7, <1>8
<1> QED  BY <1>1, <1>9 DEF D

LEMMA ProgressOnScale ==
  ASSUME NEW E, NEW required, IsWeights(required)
  PROVE  Progress(E, required) \in 0 .. 1000
<1> DEFINE n == TotalWeight(required, HeldCategories(E))
           d == TotalWeight(required, DOMAIN required)
<1>1. CASE DOMAIN required = {}
  BY <1>1 DEF Progress
<1>2. CASE DOMAIN required # {}
  <2>1. n \in Nat /\ d \in Nat \ {0} /\ n <= d
    BY <1>2, TotalWeightBounds
  <2> HIDE DEF n, d
  <2> DEFINE m == 1000 * n
  <2>2. IsRatio(m, d)
    BY <2>1 DEF IsRatio
  <2> HIDE DEF m
  <2>3. Rounded(m, d) \in 0 .. 1000
    BY <2>2, RatioRounded
  <2> QED  BY <1>2, <2>3 DEF Progress, m, n, d
<1> QED  BY <1>1, <1>2

(* What the planner wants is a finite set of weighted categories.          *)
LEMMA WantedWeighed ==
  ASSUME NEW E
  PROVE  IsFiniteSet(Wanted(E)) /\ \A w \in Wanted(E) : w[2] \in 1 .. 3
<1> DEFINE A == {<<"deployment_events", 3>>, <<"application_logs", 3>>,
                 <<"alert_events", 2>>, <<"metrics", 2>>}
           B == {<<"database_events", 3>>, <<"trace_events", 2>>,
                 <<"configuration_changes", 3>>, <<"network_events", 3>>}
           C == {<<"security_events", 3>>, <<"infrastructure_events", 2>>,
                 <<"human_context", 1>>, <<"metrics", 2>>}
<1>1. Wanted(E) \subseteq (A \union B) \union C
  BY DEF Wanted, High, Medium, Low
<1>2. \A w \in (A \union B) \union C : w[2] \in 1 .. 3
  OBVIOUS
<1>3. IsFiniteSet(A) /\ IsFiniteSet(B) /\ IsFiniteSet(C)
  BY FourAreFinite
<1> HIDE DEF A, B, C
<1>4. IsFiniteSet((A \union B) \union C)
  BY <1>3, FS_Union
<1> QED  BY <1>1, <1>2, <1>4, FS_Subset

LEMMA GreatestWeight ==
  ASSUME NEW S \in SUBSET (1 .. 3), S # {}
  PROVE  Max(S) \in 1 .. 3
<1>1. \E x \in S : \A y \in S : x >= y
  <2>1. CASE 3 \in S
    BY <2>1
  <2>2. CASE 3 \notin S /\ 2 \in S
    BY <2>2
  <2>3. CASE S = {1}
    BY <2>3
  <2>4. \A x \in S : x = 1 \/ x = 2 \/ x = 3
    OBVIOUS
  <2>5. 3 \in S \/ 2 \in S \/ S = {1}
    BY <2>4
  <2> QED  BY <2>1, <2>2, <2>3, <2>5
<1> QED  BY <1>1 DEF Max

LEMMA RequiredWeighed ==
  ASSUME NEW E
  PROVE  IsWeights(Required(E))
<1> DEFINE D == {w[1] : w \in Wanted(E)}
           Of(c) == {w[2] : w \in {v \in Wanted(E) : v[1] = c}}
<1>1. ASSUME NEW c \in D PROVE Max(Of(c)) \in 1 .. 3
  <2>1. Of(c) # {} /\ Of(c) \in SUBSET (1 .. 3)
    BY WantedWeighed
  <2> HIDE DEF Of
  <2> QED  BY <2>1, GreatestWeight
<1>2. IsFiniteSet(D)
  <2> DEFINE W == Wanted(E)
             f == [w \in W |-> w[1]]
  <2>1. D = {f[w] : w \in W} /\ IsFiniteSet(W)
    BY WantedWeighed
  <2> HIDE DEF f, W, D
  <2>2. IsFiniteSet({f[w] : w \in W})
    BY <2>1, ImageOfFinite
  <2> QED  BY <2>1, <2>2
<1>3. Required(E) = [c \in D |-> Max(Of(c))]
  BY DEF Required
<1> HIDE DEF D, Of
<1> QED  BY <1>1, <1>2, <1>3 DEF IsWeights

(* The weights of what the requests of a plan ask for.                     *)
LEMMA HeaviestWeighed ==
  ASSUME NEW wanted, IsFiniteSet({w[1] : w \in wanted})
  PROVE  IsWeights(Heaviest(wanted))
<1> DEFINE D == {w[1] : w \in wanted}
           Of(c) == {Weight(w[2]) : w \in {v \in wanted : v[1] = c}}
<1>1. ASSUME NEW c \in D PROVE Max(Of(c)) \in 1 .. 3
  <2>1. Of(c) # {} /\ Of(c) \in SUBSET (1 .. 3)
    BY DEF Weight, High, Medium, Low
  <2> HIDE DEF Of
  <2> QED  BY <2>1, GreatestWeight
<1>2. Heaviest(wanted) = [c \in D |-> Max(Of(c))]
  BY DEF Heaviest
<1>3. IsFiniteSet(D)
  OBVIOUS
<1> HIDE DEF D, Of
<1> QED  BY <1>1, <1>2, <1>3 DEF IsWeights

-----------------------------------------------------------------------------
(* The figures of an assessment.                                           *)
LEMMA HeldFinite ==
  ASSUME NEW E, IsFiniteSet(E)
  PROVE  IsFiniteSet(HeldCategories(E)) /\ Cardinality(HeldCategories(E)) \in Nat
<1>1. IsFiniteSet({CategoryOf[e] : e \in E})
  BY ImageOfFinite
<1> QED  BY <1>1, FS_CardinalityType DEF HeldCategories

LEMMA TargetsWeighed ==
  ASSUME NEW E, IsFiniteSet(E), NEW required, IsWeights(required)
  PROVE  IsWeights(Targets(E, required)) /\ DOMAIN Targets(E, required) # {}
<1> DEFINE D == GoalCategories \union DOMAIN required \union HeldCategories(E)
<1>1. IsFiniteSet(D)
  <2>1. IsFiniteSet(GoalCategories)
    BY FourAreFinite DEF GoalCategories
  <2>2. IsFiniteSet(GoalCategories \union DOMAIN required)
    BY <2>1, FS_Union DEF IsWeights
  <2> QED  BY <2>2, HeldFinite, FS_Union
<1>2. DOMAIN Targets(E, required) = D /\ Targets(E, required) = [c \in D |-> Targets(E, required)[c]]
  BY DEF Targets
<1>3. ASSUME NEW c \in D PROVE Targets(E, required)[c] \in 1 .. 3
  <2>1. Targets(E, required)[c] = CASE c \in GoalCategories                   -> High
                                    [] c \in DOMAIN required \ GoalCategories -> required[c]
                                    [] OTHER                                  -> 1
    BY DEF Targets
  <2> QED  BY <2>1 DEF High, IsWeights
<1>4. "metrics" \in D
  BY DEF GoalCategories
<1> HIDE DEF D
<1> QED  BY <1>1, <1>2, <1>3, <1>4 DEF IsWeights

(* One category's part of the coverage: how far its depth fills its target. *)
Filled(k, t) == Rounded(1000 * Min({k, t}), t) * t

Within(n, t) == n \in Nat /\ t \in Nat /\ n <= 1000 * t

LEMMA DepthCovers ==
  ASSUME NEW k \in Nat, NEW t \in 1 .. 3
  PROVE  Within(Filled(k, t), t)
<1> DEFINE m == Min({k, t})
           r == Rounded(1000 * m, t)
<1>1. m \in Nat /\ m <= t
  <2>1. k \in Int /\ t \in Int
    OBVIOUS
  <2>2. m \in {k, t} /\ m <= k /\ m <= t
    BY <2>1, LesserOfTwo, Zenon
  <2> HIDE DEF m
  <2> QED  BY <2>2
<1> HIDE DEF m
<1>2. IsRatio(1000 * m, t)
  BY <1>1 DEF IsRatio
<1>3. r \in 0 .. 1000
  BY <1>2, RatioRounded
<1> HIDE DEF r
<1>4. t = 1 \/ t = 2 \/ t = 3
  OBVIOUS
<1>5. r * t \in 0 .. 1000 * t
  BY <1>3, <1>4
<1> QED  BY <1>5 DEF Within, Filled, r, m

LEMMA CoverageOnScale ==
  ASSUME NEW E, IsFiniteSet(E), NEW required, IsWeights(required)
  PROVE  Coverage(E, required) \in 0 .. 1000
<1> DEFINE target == Targets(E, required)
           D == DOMAIN target
           Depth(c) == Min({Cardinality(OfCategory(E, c)), target[c]})
           f == [c \in D |-> Rounded(1000 * Depth(c), target[c]) * target[c]]
           g == [c \in D |-> IF c \in D THEN target[c] ELSE 0]
           n == SumFunctionOnSet(f, D)
           d == SumFunctionOnSet(g, D)
<1>1. IsWeights(target) /\ D # {}
  BY TargetsWeighed
<1>2. Coverage(E, required) = Rounded(n, TotalWeight(target, D))
  BY DEF Coverage, SumFunction
<1>3. d = TotalWeight(target, D)
  BY DEF TotalWeight, SumFunction
<1>4. ASSUME NEW c \in D
      PROVE  f[c] \in Nat /\ f[c] <= 1000 * target[c] /\ g[c] = target[c] /\ target[c] \in Nat
  <2>1. target[c] \in 1 .. 3
    BY <1>1 DEF IsWeights
  <2>2. Cardinality(OfCategory(E, c)) \in Nat
    <3>1. OfCategory(E, c) \in SUBSET E
      BY DEF OfCategory
    <3> QED  BY <3>1, FS_Subset, FS_CardinalityType
  <2>3. f[c] = Filled(Cardinality(OfCategory(E, c)), target[c])
    BY DEF Filled
  <2>4. g[c] = target[c]
    OBVIOUS
  <2> DEFINE k == Cardinality(OfCategory(E, c))
             t == target[c]
             v == f[c]
  <2>5. k \in Nat /\ t \in 1 .. 3 /\ v = Filled(k, t) /\ g[c] = t
    BY <2>1, <2>2, <2>3, <2>4
  <2> HIDE DEF k, t, v
  <2>6. Within(v, t)
    BY <2>5, DepthCovers
  <2>7. v \in Nat /\ v <= 1000 * t /\ t \in Nat
    BY <2>6 DEF Within
  <2> QED  BY <2>5, <2>7 DEF t, v
<1>5. IsFiniteSet(D) /\ f \in [D -> Nat] /\ g \in [D -> Nat]
  BY <1>1, <1>4 DEF IsWeights
<1>6. TermsWithin(D, 1, f, 1000, g, 0)
  BY <1>4 DEF TermsWithin
<1>7. d \in Nat \ {0}
  <2> HIDE DEF d
  <2> QED  BY <1>1, <1>3, TotalWeightBounds
<1> HIDE DEF target, D, f, g
<1>8. PICK x \in D : TRUE
  BY <1>1
<1>9. n \in Nat
  BY <1>5, <1>8, TermBelowSum
<1>10. SumsWithin(D, 1, f, 1000, g, 0)
  BY <1>5, <1>6, SumsCompared
<1>11. Cardinality(D) \in Nat
  BY <1>5, FS_CardinalityType
<1>12. 1 * n <= 1000 * d + 0 * Cardinality(D)
  BY <1>10 DEF SumsWithin
<1> HIDE DEF n, d
<1>13. IsRatio(n, d)
  BY <1>7, <1>9, <1>11, <1>12 DEF IsRatio
<1> QED  BY <1>2, <1>3, <1>13, RatioRounded

LEMMA FewBlocking ==
  ASSUME NEW E, NEW hyps
  PROVE  Cardinality(BlockingQuestions(E, hyps)) \in 0 .. 5
<1> DEFINE Four == {"deploy-before-errors", "rollback-success", "database-health",
                    "latency-before-retries"}
           Five == Four \union {"hypothesis-separation"}
           B == BlockingQuestions(E, hyps)
<1>1. B \in SUBSET Five
  BY DEF BlockingQuestions
<1>2. IsFiniteSet(Four) /\ Cardinality(Four) \in 0 .. 4
  BY FourAreFinite
<1> HIDE DEF Four, B
<1>3. IsFiniteSet(Five) /\ Cardinality(Five) \in 0 .. 5
  BY <1>2, FS_AddElement
<1> HIDE DEF Five
<1>4. Cardinality(B) \in Nat /\ Cardinality(B) <= Cardinality(Five)
  BY <1>1, <1>3, FS_Subset, FS_CardinalityType
<1>5. Cardinality(B) \in 0 .. 5
  BY <1>3, <1>4
<1> QED  BY <1>5 DEF B

(* The blend of progress, coverage and damped confidence, out of 10000.     *)
IsBlend(p, coverage, c, b, n) ==
  /\ p \in 0 .. 1000 /\ coverage \in 0 .. 1000 /\ c \in 0 .. 1000 /\ b \in 0 .. 5
  /\ n = 4500 * p + 3500 * coverage + 20 * c * (100 - 12 * b)

BlendBounded(p, n) == n \in Nat /\ n <= 1000 * 10000 /\ (p = 0 => n <= 550 * 10000)

LEMMA Blended ==
  ASSUME NEW p, NEW coverage, NEW c, NEW b, NEW n, IsBlend(p, coverage, c, b, n)
  PROVE  BlendBounded(p, n)
<1> DEFINE v == c * b
<1>1. /\ p \in 0 .. 1000 /\ coverage \in 0 .. 1000 /\ c \in 0 .. 1000 /\ b \in 0 .. 5
      /\ n = 4500 * p + 3500 * coverage + 20 * c * (100 - 12 * b)
  BY SMT DEF IsBlend
<1>2. b = 0 \/ b = 1 \/ b = 2 \/ b = 3 \/ b = 4 \/ b = 5
  BY <1>1, SMT
<1>3. v \in 0 .. 5 * c
  BY <1>1, <1>2, SMT
<1>4. n = 4500 * p + 3500 * coverage + (2000 * c - 240 * v)
  BY <1>1, SMT
<1> HIDE DEF v
<1> QED  BY <1>1, <1>3, <1>4, SMT DEF BlendBounded

(* Without required evidence the figure stays below the threshold.         *)
(* Without required evidence the percentage stays below the threshold.     *)
IsPercent(percent, required) ==
  percent \in 0 .. 1000 /\ (DOMAIN required = {} => percent < 700)

AreFigures(coverage, confidence, blocking) ==
  coverage \in 0 .. 1000 /\ confidence \in 0 .. 1000 /\ Cardinality(blocking) \in 0 .. 5

LEMMA PercentOnScale ==
  ASSUME NEW E, NEW required, IsWeights(required), NEW coverage, NEW confidence, NEW blocking,
         AreFigures(coverage, confidence, blocking)
  PROVE  IsPercent(InvestigationProgress(E, required, coverage, confidence, blocking), required)
<1>0. coverage \in 0 .. 1000 /\ confidence \in 0 .. 1000 /\ Cardinality(blocking) \in 0 .. 5
  BY DEF AreFigures
<1> DEFINE p == Progress(E, required)
           b == Cardinality(blocking)
           n == 4500 * p + 3500 * coverage + 20 * confidence * (100 - 12 * b)
           d == 10000
           r == Rounded(n, d)
<1>1. p \in 0 .. 1000
  BY ProgressOnScale
<1>2. DOMAIN required = {} => p = 0
  BY DEF Progress
<1>3. InvestigationProgress(E, required, coverage, confidence, blocking)
        = IF r > 1000 THEN 1000 ELSE r
  BY <1>0, SMT DEF InvestigationProgress
<1> HIDE DEF p, b
<1>4. b \in 0 .. 5
  BY <1>0 DEF b
<1>5. IsBlend(p, coverage, confidence, b, n)
  BY <1>0, <1>1, <1>4, SMT DEF IsBlend
<1> HIDE DEF n
<1>6. BlendBounded(p, n)
  BY <1>5, Blended
<1>7. n \in Nat /\ d \in Nat \ {0} /\ n <= 1000 * d /\ (p = 0 => n <= 550 * d) /\ 2 * d > 0
  BY <1>6, SMT DEF BlendBounded
<1> HIDE DEF d
<1>8. r \in 0 .. 1000
  <2>1. IsRatio(n, d)
    BY <1>7 DEF IsRatio
  <2> QED  BY <2>1, RatioRounded
<1>9. (2 * d) * r <= 2 * n + d
  BY <1>7, RoundedBetween
<1> HIDE DEF r
<1>10. p = 0 => r < 700
  <2>1. p = 0 => d * (2 * r) <= d * 1101
    BY <1>7, <1>8, <1>9
  <2>2. p = 0 => 2 * r <= 1101
    BY <1>7, <1>8, <2>1, Cancelled
  <2> QED  BY <1>8, <2>2
<1> QED  BY <1>2, <1>3, <1>8, <1>10 DEF IsPercent

LEMMA DetectedFinite ==
  ASSUME NEW E, IsFiniteSet(E)
  PROVE  IsFiniteSet(Detect(E))
<1> DEFINE f == [e \in E |-> <<"duplicate", e>>]
           Twice == {<<"duplicate", p[2]>> : p \in {e \in Echoes : {e[1], e[2]} \subseteq E}}
           Known == {<<"deploy-after-incident">>, <<"recovery-before-incident">>,
                     <<"deploy-success-no-restart">>, <<"deploy-success-no-restart">>}
           All == Known \union {f[e] : e \in E}
<1>1. Twice \subseteq {f[e] : e \in E}
  OBVIOUS
<1>2. Detect(E) \subseteq Known \union Twice
  BY DEF Detect
<1>3. IsFiniteSet(Known)
  BY FourAreFinite
<1> HIDE DEF f, Twice, Known
<1>4. IsFiniteSet({f[e] : e \in E})
  BY ImageOfFinite
<1>5. IsFiniteSet(All)
  BY <1>3, <1>4, FS_Union
<1>6. Detect(E) \in SUBSET All
  BY <1>1, <1>2
<1> HIDE DEF All
<1> QED  BY <1>5, <1>6, FS_Subset

-----------------------------------------------------------------------------
(* Hypotheses.                                                             *)
IsField(hyps) ==
  /\ Len(hyps) \in Nat
  /\ hyps = [i \in 1 .. Len(hyps) |-> hyps[i]]
  /\ \A i \in 1 .. Len(hyps) : IsHypothesis(hyps[i])

IsFigure(n) == n \in 0 .. 1000

LEMMA ScoreOnScale ==
  ASSUME NEW E, IsFiniteSet(E), NEW hyps, IsField(hyps),
         NEW contradictions, IsFiniteSet(contradictions), NEW progress \in Int
  PROVE  IsFigure(Score(E, hyps, contradictions, progress))
<1> DEFINE f == [c \in contradictions |-> Penalty(c)]
           penalty == SumFunction(f)
           base == Base(E, hyps)
           weighted == base * (4000 + 6 * progress)
           points == Rounded(weighted, 1000000)
<1>1. CASE hyps = << >>
  BY <1>1 DEF Score, IsFigure
<1>2. CASE hyps # << >>
  <2>1. penalty \in Int
    <3>1. f \in [contradictions -> Int]
      BY DEF Penalty
    <3>2. penalty = SumFunctionOnSet(f, contradictions)
      BY DEF SumFunction
    <3> HIDE DEF f
    <3> QED  BY <3>1, <3>2, SumIsInt
  <2>2. Share(hyps, 1) \in Int /\ Share(hyps, 2) \in Int
    BY DEF IsField, IsHypothesis, Share
  <2>3. Corroboration(E, hyps) \in Int
    <3> DEFINE S == hyps[1].support \intersect E
               k == Cardinality(HeldCategories(S))
    <3>1. IsFiniteSet(S)
      BY FS_Subset
    <3> HIDE DEF S
    <3>2. k \in Int /\ 3 \in Int
      BY <3>1, HeldFinite
    <3> HIDE DEF k
    <3>3. Min({3, k}) \in {3, k}
      BY <3>2, LesserOfTwo, Zenon
    <3> QED  BY <3>2, <3>3 DEF Corroboration, S, k
  <2>4. base \in Int
    BY <2>2, <2>3 DEF Base, PointsIf
  <2> HIDE DEF penalty, base
  <2>5. weighted \in Int
    BY <2>4, SMT
  <2> HIDE DEF weighted
  <2>6. points \in Int
    BY <2>5, RoundedBetween, SMT
  <2>7. Score(E, hyps, contradictions, progress) = Clamp(points - 10 * penalty, 0, 990)
    BY <1>2, SMT DEF Score, points, weighted, base, penalty
  <2> HIDE DEF points
  <2> DEFINE v == points - 10 * penalty
  <2>8. v \in Int
    BY <2>1, <2>6
  <2> HIDE DEF v
  <2>9. Clamp(v, 0, 990) \in 0 .. 1000
    BY <2>8 DEF Clamp
  <2> QED  BY <2>7, <2>9 DEF v, IsFigure
<1> QED  BY <1>1, <1>2

LEMMA FieldLength ==
  ASSUME NEW hyps, IsField(hyps)
  PROVE  /\ DOMAIN hyps = 1 .. Len(hyps) /\ IsFiniteSet(DOMAIN hyps)
         /\ Cardinality(DOMAIN hyps) = Len(hyps) /\ Len(hyps) \in Nat
<1>1. DOMAIN hyps = 1 .. Len(hyps) /\ Len(hyps) \in Nat
  BY DEF IsField
<1> DEFINE n == Len(hyps)
<1>2. n \in Int /\ 1 \in Int /\ n \in Nat
  BY <1>1
<1> HIDE DEF n
<1>3. IsFiniteSet(1 .. n) /\ Cardinality(1 .. n) = IF 1 > n THEN 0 ELSE n - 1 + 1
  BY <1>2, FS_Interval, Zenon
<1>4. IsFiniteSet(1 .. n) /\ Cardinality(1 .. n) = n
  BY <1>2, <1>3
<1> QED  BY <1>1, <1>4 DEF n

(* A function on the positions of a field that gives hypotheses is a field *)
(* of the same length.                                                     *)
LEMMA FieldLike ==
  ASSUME NEW n \in Nat, NEW new, new = [i \in 1 .. n |-> new[i]],
         \A i \in 1 .. n : IsHypothesis(new[i])
  PROVE  IsField(new) /\ Len(new) = n
<1> DEFINE U == {new[i] : i \in 1 .. n}
<1>1. new \in [1 .. n -> U]
  OBVIOUS
<1> HIDE DEF U
<1>2. new \in Seq(U)
  BY <1>1
<1>3. DOMAIN new = 1 .. n /\ Len(new) \in Nat /\ DOMAIN new = 1 .. Len(new)
  BY <1>1, <1>2, LenProperties
<1>4. Len(new) = n
  BY <1>1, <1>2
<1> QED  BY <1>4 DEF IsField

LEMMA FieldMember ==
  ASSUME NEW hyps, IsField(hyps)
  PROVE  \A i \in DOMAIN hyps : /\ IsHypothesis(hyps[i])
                                /\ hyps[i].share \in Int
                                /\ hyps[i].status \in HypothesisStatus
  BY FieldLength DEF IsField, IsHypothesis

LEMMA ShareSet ==
  ASSUME NEW h, IsHypothesis(h), NEW v \in Int
  PROVE  /\ IsHypothesis([h EXCEPT !.share = v])
         /\ [h EXCEPT !.share = v].share = v
         /\ [h EXCEPT !.share = v].status = h.status
  BY DEF IsHypothesis

LEMMA StatusSet ==
  ASSUME NEW h, IsHypothesis(h), NEW s \in HypothesisStatus
  PROVE  IsHypothesis([h EXCEPT !.status = s])
  BY DEF IsHypothesis

IsMoves(moves) == \A id \in DOMAIN moves : moves[id] \in Int

LEMMA ShiftedIsHypothesis ==
  ASSUME NEW h, IsHypothesis(h), NEW points \in Int
  PROVE  IsHypothesis(Shifted(h, points))
<1> DEFINE v == h.share + points
           w == Clamp(v, 0, 1000)
<1>1. v \in Int
  BY DEF IsHypothesis
<1>2. Shifted(h, points) = [h EXCEPT !.share = w]
  BY DEF Shifted
<1> HIDE DEF v
<1>3. w \in Int
  BY <1>1 DEF Clamp
<1> HIDE DEF w
<1> QED  BY <1>2, <1>3, ShareSet

LEMMA MovedIsField ==
  ASSUME NEW hyps, IsField(hyps), NEW moves, IsMoves(moves)
  PROVE  IsField(Moved(hyps, moves))
<1> DEFINE n == Len(hyps)
           new == Moved(hyps, moves)
<1>1. n \in Nat /\ DOMAIN hyps = 1 .. n
  BY FieldLength
<1>2. new = [i \in 1 .. n |-> new[i]]
  BY <1>1 DEF Moved
<1>3. ASSUME NEW i \in 1 .. n PROVE IsHypothesis(new[i])
  <2> DEFINE h == hyps[i]
  <2>1. IsHypothesis(h)
    BY <1>1, FieldMember
  <2>2. new[i] = IF h.id \in DOMAIN moves THEN Shifted(h, moves[h.id]) ELSE h
    BY <1>1 DEF Moved
  <2> HIDE DEF new, h
  <2> QED  BY <2>1, <2>2, ShiftedIsHypothesis DEF IsMoves
<1> HIDE DEF n, new
<1> QED  BY <1>1, <1>2, <1>3, FieldLike DEF new

LEMMA AdjustedIsField ==
  ASSUME NEW hyps, IsField(hyps), NEW id, NEW delta \in Int
  PROVE  IsField(Adjusted(hyps, id, delta))
<1> DEFINE n == Len(hyps)
           new == Adjusted(hyps, id, delta)
<1>1. n \in Nat /\ DOMAIN hyps = 1 .. n
  BY FieldLength
<1>2. new = [i \in 1 .. n |-> new[i]]
  BY <1>1 DEF Adjusted
<1>3. ASSUME NEW i \in 1 .. n PROVE IsHypothesis(new[i])
  <2>1. IsHypothesis(hyps[i])
    BY <1>1, FieldMember
  <2>2. new[i] = IF IsFirst(hyps, i, id) THEN Shifted(hyps[i], delta) ELSE hyps[i]
    BY <1>1 DEF Adjusted
  <2> QED  BY <2>1, <2>2, ShiftedIsHypothesis
<1> HIDE DEF n, new
<1> QED  BY <1>1, <1>2, <1>3, FieldLike DEF new

LEMMA MarkedIsField ==
  ASSUME NEW hyps, IsField(hyps), NEW id, NEW status \in HypothesisStatus
  PROVE  IsField(Marked(hyps, id, status))
<1> DEFINE n == Len(hyps)
           new == Marked(hyps, id, status)
<1>1. n \in Nat /\ DOMAIN hyps = 1 .. n
  BY FieldLength
<1>2. new = [i \in 1 .. n |-> new[i]]
  BY <1>1 DEF Marked
<1>3. ASSUME NEW i \in 1 .. n PROVE IsHypothesis(new[i])
  <2>1. IsHypothesis(hyps[i])
    BY <1>1, FieldMember
  <2>2. new[i] = IF IsFirst(hyps, i, id) THEN [hyps[i] EXCEPT !.status = status] ELSE hyps[i]
    BY <1>1 DEF Marked
  <2> QED  BY <2>1, <2>2, StatusSet
<1> HIDE DEF n, new
<1> QED  BY <1>1, <1>2, <1>3, FieldLike DEF new

LEMMA NoneNegativeIsField ==
  ASSUME NEW hyps, IsField(hyps)
  PROVE  /\ IsField(NoneNegative(hyps))
         /\ \A i \in DOMAIN NoneNegative(hyps) : NoneNegative(hyps)[i].share >= 0
<1> DEFINE n == Len(hyps)
           new == NoneNegative(hyps)
<1>1. n \in Nat /\ DOMAIN hyps = 1 .. n
  BY FieldLength
<1>2. new = [i \in 1 .. n |-> new[i]]
  BY <1>1 DEF NoneNegative
<1>3. ASSUME NEW i \in 1 .. n PROVE IsHypothesis(new[i]) /\ new[i].share >= 0
  <2> DEFINE v == IF hyps[i].share < 0 THEN 0 ELSE hyps[i].share
  <2>1. IsHypothesis(hyps[i]) /\ hyps[i].share \in Int
    BY <1>1, FieldMember
  <2>2. new[i] = [hyps[i] EXCEPT !.share = v]
    BY <1>1, <2>1 DEF NoneNegative, IsHypothesis
  <2>3. v \in Int /\ v >= 0
    BY <2>1
  <2> HIDE DEF new, v
  <2> QED  BY <2>1, <2>2, <2>3, ShareSet
<1>4. DOMAIN new = 1 .. n
  BY <1>2
<1> HIDE DEF n, new
<1>5. IsField(new)
  BY <1>1, <1>2, <1>3, FieldLike
<1> QED  BY <1>3, <1>4, <1>5 DEF new

-----------------------------------------------------------------------------
(* Rescaling.                                                              *)
Counted(hyps, counts) ==
  [i \in DOMAIN hyps |-> IF counts[hyps[i].status] THEN hyps[i].share ELSE 0]

LEMMA TotalOfField ==
  ASSUME NEW hyps, IsField(hyps), NEW counts \in [HypothesisStatus -> BOOLEAN]
  PROVE  /\ Counted(hyps, counts) \in [DOMAIN hyps -> Int]
         /\ Total(hyps, counts) = SumFunctionOnSet(Counted(hyps, counts), DOMAIN hyps)
         /\ Total(hyps, counts) \in Int
<1> DEFINE f == Counted(hyps, counts)
<1>1. f \in [DOMAIN hyps -> Int]
  BY FieldMember DEF Counted
<1>2. Total(hyps, counts) = SumFunctionOnSet(f, DOMAIN hyps)
  BY DEF Total, SumFunction, Counted
<1> HIDE DEF f
<1>3. SumFunctionOnSet(f, DOMAIN hyps) \in Int
  BY <1>1, FieldLength, SumIsInt
<1> QED  BY <1>1, <1>2, <1>3 DEF f

LEMMA ScaledIsField ==
  ASSUME NEW hyps, IsField(hyps), NEW counts \in [HypothesisStatus -> BOOLEAN],
         NEW total \in Int
  PROVE  IsField(ScaledBy(hyps, counts, total)) /\ Len(ScaledBy(hyps, counts, total)) = Len(hyps)
<1> DEFINE n == Len(hyps)
           new == ScaledBy(hyps, counts, total)
<1>1. n \in Nat /\ DOMAIN hyps = 1 .. n
  BY FieldLength
<1>2. CASE total <= 0
  BY <1>2 DEF ScaledBy
<1>3. CASE total > 0
  <2>1. new = [i \in 1 .. n |-> new[i]]
    BY <1>1, <1>3 DEF ScaledBy
  <2>2. ASSUME NEW i \in 1 .. n PROVE IsHypothesis(new[i])
    <3> DEFINE h == hyps[i]
               s == h.share
               m == s * 1000
               v == Rounded(m, total)
    <3>1. IsHypothesis(h) /\ s \in Int
      BY <1>1, FieldMember
    <3>2. new[i] = IF counts[h.status] THEN [h EXCEPT !.share = v] ELSE h
      BY <1>1, <1>3, <3>1 DEF ScaledBy, IsHypothesis
    <3> HIDE DEF new, h
    <3>3. m \in Int
      <4> HIDE DEF s
      <4> QED  BY <3>1
    <3> HIDE DEF m
    <3>4. v \in Int
      BY <1>3, <3>3, RoundedBetween
    <3> HIDE DEF v
    <3> QED  BY <3>1, <3>2, <3>4, ShareSet
  <2> HIDE DEF n, new
  <2> QED  BY <1>1, <2>1, <2>2, FieldLike DEF new, n
<1> QED  BY <1>2, <1>3

LEMMA RescaledIsField ==
  ASSUME NEW hyps, IsField(hyps), NEW counts \in [HypothesisStatus -> BOOLEAN]
  PROVE  IsField(Rescaled(hyps, counts))
<1> DEFINE total == Total(hyps, counts)
<1>1. total \in Int
  BY TotalOfField
<1> HIDE DEF total
<1>2. IsField(ScaledBy(hyps, counts, total))
  BY <1>1, ScaledIsField
<1> QED  BY <1>2 DEF Rescaled, total

(* The shares of a field in its range, and adding up but for the rounding. *)
InRange(hyps) == \A i \in DOMAIN hyps : hyps[i].share \in 0 .. 1000

AddUp(hyps) ==
  \/ \A h \in ToSet(hyps) : h.share = 0
  \/ 2 * (Total(hyps, Everyone) - 1000) \in -Len(hyps) .. Len(hyps)

LEMMA EveryoneCounts ==
  ASSUME NEW hyps, IsField(hyps)
  PROVE  /\ Everyone \in [HypothesisStatus -> BOOLEAN]
         /\ \A i \in DOMAIN hyps : Counted(hyps, Everyone)[i] = hyps[i].share
  BY FieldMember DEF Everyone, Counted

(* What rounding makes of one share of a positive total.                   *)
IsShare(s, total, r) ==
  r \in 0 .. 1000 /\ (2 * total) * r <= 2000 * s + total /\ 2000 * s <= (2 * total) * r + total

LEMMA ShareRounded ==
  ASSUME NEW s \in Nat, NEW total \in Nat \ {0}, s <= total
  PROVE  IsShare(s, total, Rounded(s * 1000, total))
<1> DEFINE m == s * 1000
           r == Rounded(m, total)
<1>1. m \in Int /\ IsRatio(m, total) /\ 2 * m = 2000 * s
  BY DEF IsRatio
<1> HIDE DEF m
<1>2. r \in 0 .. 1000
  BY <1>1, RatioRounded
<1>3. (2 * total) * r <= 2 * m + total /\ 2 * m - total < (2 * total) * r
  BY <1>1, RoundedBetween
<1> HIDE DEF r
<1>4. 2000 * s <= (2 * total) * r + total
  <2> DEFINE x == (2 * total) * r
  <2>1. x \in Int
    BY <1>2
  <2> HIDE DEF x
  <2>2. 2000 * s <= x + total
    BY <1>1, <1>3, <2>1 DEF x
  <2> QED  BY <2>2 DEF x
<1> QED  BY <1>1, <1>2, <1>3, <1>4 DEF IsShare, r, m

(* Rounding each of n shares by at most a half moves their sum by n halves *)
(* at most.                                                                *)
NearWhole(sum, n) == 2 * (sum - 1000) \in -n .. n

Balanced(a, sum, total, n) ==
  a * sum <= 2000 * total + total * n /\ 2000 * total <= a * sum + total * n

LEMMA SumNearWhole ==
  ASSUME NEW n \in Nat, NEW total \in Nat \ {0}, NEW sum \in Int,
         NEW a, a = 2 * total, Balanced(a, sum, total, n)
  PROVE  NearWhole(sum, n)
<1>1. total * (2 * sum) <= total * (2000 + n) /\ total * 2000 <= total * (2 * sum + n)
  BY DEF Balanced
<1>2. 2 * sum <= 2000 + n /\ 2000 <= 2 * sum + n
  BY <1>1, Cancelled
<1> QED  BY <1>2 DEF NearWhole

LEMMA RescaledAddsUp ==
  ASSUME NEW hyps, IsField(hyps), \A i \in DOMAIN hyps : hyps[i].share >= 0
  PROVE  InRange(Rescaled(hyps, Everyone)) /\ AddUp(Rescaled(hyps, Everyone))
<1> DEFINE D == DOMAIN hyps
           n == Len(hyps)
           f == Counted(hyps, Everyone)
           total == Total(hyps, Everyone)
           new == Rescaled(hyps, Everyone)
           g == Counted(new, Everyone)
           sum == Total(new, Everyone)
<1>1. /\ IsFiniteSet(D) /\ Cardinality(D) = n /\ n \in Nat
      /\ f \in [D -> Nat] /\ \A i \in D : f[i] = hyps[i].share
  BY FieldLength, FieldMember, EveryoneCounts DEF Counted
<1>2. total = SumFunctionOnSet(f, D) /\ total \in Int
  BY EveryoneCounts, TotalOfField
<1>3. \A i \in D : f[i] <= total /\ total \in Nat
  <2> HIDE DEF D, f, total
  <2> QED  BY <1>1, <1>2, TermBelowSum
<1>4. CASE total <= 0
  <2>1. new = hyps
    BY <1>4 DEF Rescaled, ScaledBy
  <2>2. \A i \in D : hyps[i].share = 0
    <3> HIDE DEF total, f, D
    <3> QED  BY <1>1, <1>2, <1>3, <1>4
  <2>3. \A h \in ToSet(hyps) : h.share = 0
    BY <2>2 DEF ToSet
  <2> QED  BY <2>1, <2>2, <2>3 DEF InRange, AddUp
<1>5. CASE total > 0
  <2>1. IsField(new) /\ Len(new) = n /\ DOMAIN new = D
    <3>1. IsField(new) /\ Len(new) = n
      BY <1>2, EveryoneCounts, ScaledIsField DEF Rescaled
    <3> QED  BY <3>1, FieldLength
  <2>2. \A i \in D : IsShare(f[i], total, g[i]) /\ g[i] = new[i].share
    <3> SUFFICES ASSUME NEW i \in D PROVE IsShare(f[i], total, g[i]) /\ g[i] = new[i].share
      OBVIOUS
    <3> DEFINE h == hyps[i]
               v == Rounded(h.share * 1000, total)
    <3>1. IsHypothesis(h) /\ h.status \in HypothesisStatus
      BY FieldMember
    <3>2. new[i] = [h EXCEPT !.share = v]
      <4>1. new = ScaledBy(hyps, Everyone, total)
        BY DEF Rescaled
      <4>2. Everyone[h.status]
        BY <3>1 DEF Everyone
      <4> HIDE DEF new, total
      <4>3. new[i] = [h EXCEPT !.share = Rounded(@ * 1000, total)]
        BY <1>2, <1>5, <4>1, <4>2 DEF ScaledBy
      <4> QED  BY <3>1, <4>3 DEF IsHypothesis
    <3>3. new[i].share = v
      BY <3>1, <3>2 DEF IsHypothesis
    <3>4. g[i] = new[i].share
      BY <2>1, EveryoneCounts
    <3>5. f[i] \in Nat /\ f[i] <= total /\ f[i] = h.share /\ total \in Nat \ {0}
      BY <1>1, <1>3, <1>5
    <3> DEFINE s == f[i]
    <3> HIDE DEF s, total
    <3>6. IsShare(s, total, Rounded(s * 1000, total))
      BY <3>5, ShareRounded DEF s
    <3> QED  BY <3>3, <3>4, <3>5, <3>6 DEF s
  <2>4. sum = SumFunctionOnSet(g, D) /\ sum \in Int /\ g \in [D -> Int]
    BY <2>1, EveryoneCounts, TotalOfField
  <2>5. TermsWithin(D, 2 * total, g, 2000, f, total) /\ TermsWithin(D, 2000, f, 2 * total, g, total)
    BY <2>2 DEF IsShare, TermsWithin
  <2> HIDE DEF f, g, total, sum, new, D, n
  <2>13. ASSUME NEW i \in D PROVE g[i] \in 0 .. 1000
    <3>1. IsShare(f[i], total, g[i])
      BY <2>2
    <3> QED  BY <3>1 DEF IsShare
  <2>3. InRange(new)
    <3>1. ASSUME NEW i \in D PROVE new[i].share \in 0 .. 1000
      BY <2>2, <2>13
    <3> QED  BY <2>1, <3>1, ZenonT(40) DEF InRange
  <2> DEFINE a == 2 * total
  <2>6. a \in Int /\ total \in Int /\ 2000 \in Int /\ f \in [D -> Int]
    BY <1>1, <1>2
  <2>7. TermsWithin(D, a, g, 2000, f, total) /\ TermsWithin(D, 2000, f, a, g, total)
    BY <2>5
  <2>12. a = 2 * total
    OBVIOUS
  <2> HIDE DEF a
  <2>8. SumsWithin(D, a, g, 2000, f, total) /\ SumsWithin(D, 2000, f, a, g, total)
    BY <1>1, <2>4, <2>6, <2>7, SumsCompared
  <2>9. Balanced(a, sum, total, n)
    BY <1>1, <1>2, <2>4, <2>8 DEF SumsWithin, Balanced
  <2>10. NearWhole(sum, n)
    BY <1>1, <1>2, <1>5, <2>4, <2>6, <2>9, <2>12, SumNearWhole
  <2>11. AddUp(new)
    BY <2>1, <2>10 DEF AddUp, NearWhole, sum
  <2> QED  BY <2>3, <2>11 DEF new
<1> QED  BY <1>2, <1>4, <1>5

-----------------------------------------------------------------------------
(* The archetypes' scores are whole numbers.                               *)
IsCandidate(c) ==
  c \in [id : {c.id}, score : Int, keep : {c.keep}, support : {c.support}]

LEMMA CandidateScored ==
  ASSUME NEW id, NEW score \in Int, NEW support
  PROVE  IsCandidate(Candidate(id, score, support))
  BY DEF Candidate, IsCandidate

LEMMA BonusScored ==
  ASSUME NEW c, IsCandidate(c), NEW cond, NEW points \in Int
  PROVE  IsCandidate(Bonus(c, cond, points))
  BY DEF IsCandidate, Bonus, PointsIf

(* Boosts and penalties of the generic scorer.                             *)
AreBoosts(boosts)       == IsFiniteSet(boosts) /\ \A b \in boosts : b[2] \in Int
ArePenalties(penalties) == IsFiniteSet(penalties) /\ \A p \in penalties : p[3] \in Int

LEMMA FewBoosts ==
  AreBoosts({}) /\ \A b : b[2] \in Int => AreBoosts({b})
  BY FS_EmptySet, FS_Singleton DEF AreBoosts

LEMMA FewPenalties ==
  ArePenalties({}) /\ \A p : p[3] \in Int => ArePenalties({p})
  BY FS_EmptySet, FS_Singleton DEF ArePenalties

LEMMA PenaltiesTogether ==
  ASSUME NEW p, NEW q, ArePenalties({p}), ArePenalties({q})
  PROVE  ArePenalties({p, q})
<1>1. {p, q} = {p} \union {q}
  OBVIOUS
<1> QED  BY <1>1, FS_Union DEF ArePenalties

LEMMA ScoreWithScored ==
  ASSUME NEW E, NEW id, NEW keyword, NEW base \in Int,
         NEW boosts, AreBoosts(boosts), NEW penalties, ArePenalties(penalties)
  PROVE  IsCandidate(ScoreWith(E, id, keyword, base, boosts, penalties))
<1> DEFINE f == [b \in boosts |-> PointsIf(Heard(E, b[1]), b[2])]
           g == [p \in penalties |-> PointsIf(Heard(E, p[1]) /\ ~Heard(E, p[2]), p[3])]
           score == base + SumFunction(f) - SumFunction(g)
<1>1. f \in [boosts -> Int] /\ g \in [penalties -> Int]
  BY DEF AreBoosts, ArePenalties, PointsIf
<1>2. /\ SumFunction(f) = SumFunctionOnSet(f, boosts)
      /\ SumFunction(g) = SumFunctionOnSet(g, penalties)
  BY DEF SumFunction
<1>3. \/ ScoreWith(E, id, keyword, base, boosts, penalties) = Candidate(id, 0, {})
      \/ ScoreWith(E, id, keyword, base, boosts, penalties) =
           Candidate(id, score, Mentioning(E, keyword))
  BY DEF ScoreWith
<1> HIDE DEF f, g
<1>4. SumFunction(f) \in Int /\ SumFunction(g) \in Int
  BY <1>1, <1>2, SumIsInt DEF AreBoosts, ArePenalties
<1>5. score \in Int
  BY <1>4
<1> HIDE DEF score
<1> QED  BY <1>3, <1>5, CandidateScored

LEMMA UnknownScored ==
  ASSUME NEW E, IsFiniteSet(E)
  PROVE  IsCandidate(UnknownScore(E))
<1> DEFINE n == Cardinality(HeldCategories(E))
           score == IF 40 - 5 * n < 4 THEN 4 ELSE 40 - 5 * n
<1>1. n \in Nat
  BY HeldFinite
<1>2. UnknownScore(E) = [Candidate("unknown", score, {}) EXCEPT !.keep = TRUE]
  BY DEF UnknownScore
<1> HIDE DEF n
<1>3. score \in Int
  BY <1>1
<1> HIDE DEF score
<1>4. IsCandidate(Candidate("unknown", score, {}))
  BY <1>3, CandidateScored
<1> QED  BY <1>2, <1>4 DEF IsCandidate

(* Every archetype of the registry.                                        *)
LEMMA CandidatesScored ==
  ASSUME NEW E, IsFiniteSet(E)
  PROVE  /\ DOMAIN Candidates(E) = 1 .. 32
         /\ \A i \in 1 .. 32 : IsCandidate(Candidates(E)[i])
<1>1. IsCandidate(APIContractFailureScore(E))
  BY ScoreWithScored, FewBoosts, FewPenalties DEF APIContractFailureScore, ScoreKeyword
<1>2. IsCandidate(AuthFailureScore(E))
  BY ScoreWithScored, FewBoosts, FewPenalties DEF AuthFailureScore, ScoreKeyword
<1>3. IsCandidate(CacheFailureScore(E))
  <2>1. <<"database", "none", 18>>[3] \in Int
    OBVIOUS
  <2>3. ArePenalties({<<"database", "none", 18>>})
    BY <2>1, FewPenalties
  <2>4. IsCandidate(ScoreWith(E, "cache-failure", "cache", 40, {}, {<<"database", "none", 18>>}))
    BY <2>3, FewBoosts, ScoreWithScored
  <2> QED  BY <2>4, BonusScored DEF CacheFailureScore
<1>4. IsCandidate(CapacityPlanningScore(E))
  BY CandidateScored DEF CapacityPlanningScore, PointsIf
<1>5. IsCandidate(CertificateExpiryScore(E))
  BY ScoreWithScored, FewBoosts, FewPenalties DEF CertificateExpiryScore, ScoreKeyword
<1>6. IsCandidate(ClockFailureScore(E))
  BY ScoreWithScored, FewBoosts, FewPenalties DEF ClockFailureScore, ScoreKeyword
<1>7. IsCandidate(ConfigurationChangeScore(E))
  BY CandidateScored DEF ConfigurationChangeScore, PointsIf
<1>8. IsCandidate(ContainerFailureScore(E))
  <2>1. <<"kubernetes", "container", 12>>[3] \in Int /\ <<"restart", 8>>[2] \in Int
    OBVIOUS
  <2>3. ArePenalties({<<"kubernetes", "container", 12>>})
    BY <2>1, FewPenalties
  <2>5. AreBoosts({<<"restart", 8>>})
    BY <2>1, FewBoosts
  <2>4. IsCandidate(ScoreWith(E, "container-failure", "container", 40, {<<"restart", 8>>}, {<<"kubernetes", "container", 12>>}))
    BY <2>3, <2>5, ScoreWithScored
  <2> QED  BY <2>4 DEF ContainerFailureScore
<1>9. IsCandidate(DataCorruptionScore(E))
  <2>1. <<"human", "datacorruption", 20>>[3] \in Int
    OBVIOUS
  <2>3. ArePenalties({<<"human", "datacorruption", 20>>})
    BY <2>1, FewPenalties
  <2>4. IsCandidate(ScoreWith(E, "data-corruption", "datacorruption", 44, {}, {<<"human", "datacorruption", 20>>}))
    BY <2>3, FewBoosts, ScoreWithScored
  <2> QED  BY <2>4 DEF DataCorruptionScore
<1>10. IsCandidate(DatabaseSaturationScore(E))
  BY CandidateScored DEF DatabaseSaturationScore, PointsIf
<1>11. IsCandidate(DependencyFailureScore(E))
  BY CandidateScored DEF DependencyFailureScore, PointsIf
<1>12. IsCandidate(DeploymentCausedScore(E))
  BY CandidateScored DEF DeploymentCausedScore, PointsIf
<1>13. IsCandidate(DeploymentUnrelatedScore(E))
  BY CandidateScored DEF DeploymentUnrelatedScore, PointsIf
<1>14. IsCandidate(DNSFailureScore(E))
  BY ScoreWithScored, FewBoosts, FewPenalties DEF DNSFailureScore, ScoreKeyword
<1>15. IsCandidate(DRFailoverFailureScore(E))
  <2>1. <<"database", "dr", 18>>[3] \in Int
    OBVIOUS
  <2>3. ArePenalties({<<"database", "dr", 18>>})
    BY <2>1, FewPenalties
  <2>4. IsCandidate(ScoreWith(E, "dr-failover-failure", "dr", 40, {}, {<<"database", "dr", 18>>}))
    BY <2>3, FewBoosts, ScoreWithScored
  <2> QED  BY <2>4, BonusScored DEF DRFailoverFailureScore
<1>16. IsCandidate(ExternalOutageScore(E))
  BY ScoreWithScored, FewBoosts, FewPenalties DEF ExternalOutageScore, ScoreKeyword
<1>17. IsCandidate(FeatureFlagFailureScore(E))
  <2>1. <<"config", "featureflag", 15>>[3] \in Int
    OBVIOUS
  <2>3. ArePenalties({<<"config", "featureflag", 15>>})
    BY <2>1, FewPenalties
  <2>4. IsCandidate(ScoreWith(E, "feature-flag-failure", "featureflag", 44, {}, {<<"config", "featureflag", 15>>}))
    BY <2>3, FewBoosts, ScoreWithScored
  <2> QED  BY <2>4 DEF FeatureFlagFailureScore
<1>18. IsCandidate(HumanErrorScore(E))
  BY CandidateScored DEF HumanErrorScore, PointsIf
<1>19. IsCandidate(InfrastructureFailureScore(E))
  <2>1. <<"kubernetes", "infrastructure", 18>>[3] \in Int /\ <<"regional", "infrastructure", 12>>[3] \in Int
    OBVIOUS
  <2>2. ArePenalties({<<"kubernetes", "infrastructure", 18>>}) /\ ArePenalties({<<"regional", "infrastructure", 12>>})
    BY <2>1, FewPenalties
  <2>3. ArePenalties({<<"kubernetes", "infrastructure", 18>>, <<"regional", "infrastructure", 12>>})
    BY <2>2, PenaltiesTogether
  <2>4. IsCandidate(ScoreWith(E, "infrastructure-failure", "infrastructure", 42, {}, {<<"kubernetes", "infrastructure", 18>>, <<"regional", "infrastructure", 12>>}))
    BY <2>3, FewBoosts, ScoreWithScored
  <2> QED  BY <2>4, BonusScored DEF InfrastructureFailureScore
<1>20. IsCandidate(KubernetesFailureScore(E))
  <2>1. <<"config", "kubernetes", 15>>[3] \in Int /\ <<"container", "kubernetes", 8>>[3] \in Int /\ <<"restart", 12>>[2] \in Int
    OBVIOUS
  <2>2. ArePenalties({<<"config", "kubernetes", 15>>}) /\ ArePenalties({<<"container", "kubernetes", 8>>})
    BY <2>1, FewPenalties
  <2>3. ArePenalties({<<"config", "kubernetes", 15>>, <<"container", "kubernetes", 8>>})
    BY <2>2, PenaltiesTogether
  <2>5. AreBoosts({<<"restart", 12>>})
    BY <2>1, FewBoosts
  <2>4. IsCandidate(ScoreWith(E, "kubernetes-failure", "kubernetes", 40, {<<"restart", 12>>}, {<<"config", "kubernetes", 15>>, <<"container", "kubernetes", 8>>}))
    BY <2>3, <2>5, ScoreWithScored
  <2> QED  BY <2>4 DEF KubernetesFailureScore
<1>21. IsCandidate(LoadBalancerFailureScore(E))
  <2>1. <<"network", "loadbalancer", 10>>[3] \in Int
    OBVIOUS
  <2>3. ArePenalties({<<"network", "loadbalancer", 10>>})
    BY <2>1, FewPenalties
  <2>4. IsCandidate(ScoreWith(E, "load-balancer-failure", "loadbalancer", 40, {}, {<<"network", "loadbalancer", 10>>}))
    BY <2>3, FewBoosts, ScoreWithScored
  <2> QED  BY <2>4, CandidateScored DEF LoadBalancerFailureScore
<1>22. IsCandidate(LockContentionScore(E))
  BY CandidateScored DEF LockContentionScore, PointsIf
<1>23. IsCandidate(MessagingFailureScore(E))
  <2>1. <<"retry", "messaging", 22>>[3] \in Int
    OBVIOUS
  <2>3. ArePenalties({<<"retry", "messaging", 22>>})
    BY <2>1, FewPenalties
  <2>4. IsCandidate(ScoreWith(E, "messaging-failure", "messaging", 42, {}, {<<"retry", "messaging", 22>>}))
    BY <2>3, FewBoosts, ScoreWithScored
  <2> QED  BY <2>4, BonusScored DEF MessagingFailureScore
<1>24. IsCandidate(NetworkFailureScore(E))
  BY CandidateScored DEF NetworkFailureScore, PointsIf
<1>25. IsCandidate(ObservabilityFailureScore(E))
  <2>1. <<"human", "observability", 15>>[3] \in Int
    OBVIOUS
  <2>3. ArePenalties({<<"human", "observability", 15>>})
    BY <2>1, FewPenalties
  <2>4. IsCandidate(ScoreWith(E, "observability-failure", "observability", 36, {}, {<<"human", "observability", 15>>}))
    BY <2>3, FewBoosts, ScoreWithScored
  <2> QED  BY <2>4 DEF ObservabilityFailureScore
<1>26. IsCandidate(PerformanceRegressionScore(E))
  BY CandidateScored DEF PerformanceRegressionScore, PointsIf
<1>27. IsCandidate(RegionalFailureScore(E))
  <2>1. <<"infrastructure", "regional", 14>>[3] \in Int
    OBVIOUS
  <2>3. ArePenalties({<<"infrastructure", "regional", 14>>})
    BY <2>1, FewPenalties
  <2>4. IsCandidate(ScoreWith(E, "regional-failure", "regional", 42, {}, {<<"infrastructure", "regional", 14>>}))
    BY <2>3, FewBoosts, ScoreWithScored
  <2> QED  BY <2>4, BonusScored DEF RegionalFailureScore
<1>28. IsCandidate(ResourceExhaustionScore(E))
  BY CandidateScored DEF ResourceExhaustionScore, PointsIf
<1>29. IsCandidate(RetryStormScore(E))
  BY CandidateScored DEF RetryStormScore, PointsIf
<1>30. IsCandidate(SecurityIncidentScore(E))
  BY CandidateScored DEF SecurityIncidentScore, PointsIf
<1>31. IsCandidate(StorageFailureScore(E))
  <2>1. <<"memory", "none", 20>>[3] \in Int
    OBVIOUS
  <2>3. ArePenalties({<<"memory", "none", 20>>})
    BY <2>1, FewPenalties
  <2>4. IsCandidate(ScoreWith(E, "storage-failure", "storage", 42, {}, {<<"memory", "none", 20>>}))
    BY <2>3, FewBoosts, ScoreWithScored
  <2> QED  BY <2>4, BonusScored DEF StorageFailureScore
<1>32. IsCandidate(UnknownScore(E))
  BY UnknownScored
<1>33. DOMAIN Candidates(E) = 1 .. 32
  BY DEF Candidates
<1>34. \A i \in 1 .. 32 : IsCandidate(Candidates(E)[i])
  BY <1>1, <1>2, <1>3, <1>4, <1>5, <1>6, <1>7, <1>8, <1>9, <1>10, <1>11, <1>12, <1>13, <1>14, <1>15, <1>16, <1>17, <1>18, <1>19, <1>20, <1>21, <1>22, <1>23, <1>24, <1>25, <1>26, <1>27, <1>28, <1>29, <1>30, <1>31, <1>32 DEF Candidates
<1> QED  BY <1>33, <1>34

LEMMA StatusAssigned ==
  ASSUME NEW rank \in Int, NEW share \in Int
  PROVE  AssignStatus(rank, share) \in HypothesisStatus
  BY DEF AssignStatus, HypothesisStatus

LEMMA RankedIsField ==
  ASSUME NEW cands, NEW n \in Nat, DOMAIN cands = 1 .. n, \A i \in 1 .. n : IsCandidate(cands[i])
  PROVE  IsField(CandidatesToHypotheses(cands))
<1> DEFINE kept   == {i \in DOMAIN cands : cands[i].score > 0 \/ cands[i].keep}
           score  == [i \in kept |-> cands[i].score]
           points == SumFunction(score)
           total  == IF points <= 0 THEN 1 ELSE points
           shares == [i \in kept |-> Rounded(cands[i].score * 1000, total)]
           ranked == Descending(shares)
           m      == Cardinality(kept)
           new    == CandidatesToHypotheses(cands)
<1>1. kept \in SUBSET Int /\ IsFiniteSet(kept) /\ kept \subseteq 1 .. n
  <2>1. kept \subseteq 1 .. n
    OBVIOUS
  <2> HIDE DEF kept
  <2>2. IsFiniteSet(1 .. n)
    BY FS_Interval
  <2>3. IsFiniteSet(kept)
    BY <2>1, <2>2, FS_Subset
  <2> QED  BY <2>1, <2>3
<1>2. \A i \in kept : cands[i].score \in Int
  BY <1>1 DEF IsCandidate
<1>3. points = SumFunctionOnSet(score, kept) /\ score \in [kept -> Int]
  BY <1>2 DEF SumFunction
<1>4. new = [r \in DOMAIN ranked |->
               [id      |-> cands[ranked[r]].id,
                share   |-> shares[ranked[r]],
                status  |-> AssignStatus(r, shares[ranked[r]]),
                support |-> cands[ranked[r]].support]]
  BY DEF CandidatesToHypotheses
<1> HIDE DEF new, ranked, kept, score
<1>5. points \in Int
  BY <1>1, <1>3, SumIsInt
<1> HIDE DEF points
<1>6. total \in Nat \ {0}
  BY <1>5
<1> HIDE DEF total
<1>7. shares \in [kept -> Int]
  <2> SUFFICES ASSUME NEW i \in kept PROVE Rounded(cands[i].score * 1000, total) \in Int
    OBVIOUS
  <2> DEFINE s == cands[i].score * 1000
  <2>1. s \in Int
    BY <1>2
  <2> HIDE DEF s
  <2>2. Rounded(s, total) \in Int
    BY <1>6, <2>1, RoundedBetween
  <2> QED  BY <2>2 DEF s
<1> HIDE DEF shares
<1>8. m \in Nat /\ ranked \in [1 .. m -> kept]
  BY <1>1, <1>7, DescendingOrders DEF ranked
<1> HIDE DEF m
<1>9. new = [r \in 1 .. m |-> new[r]]
  BY <1>4, <1>8
<1>10. ASSUME NEW r \in 1 .. m PROVE IsHypothesis(new[r])
  <2> DEFINE s == shares[ranked[r]]
             t == AssignStatus(r, s)
  <2>1. s \in Int
    BY <1>7, <1>8
  <2>2. new[r] = [id |-> cands[ranked[r]].id, share |-> s, status |-> t,
                  support |-> cands[ranked[r]].support]
    BY <1>4, <1>8
  <2> HIDE DEF s
  <2>3. t \in HypothesisStatus
    BY <2>1, StatusAssigned
  <2> HIDE DEF t
  <2> QED  BY <2>1, <2>2, <2>3 DEF IsHypothesis
<1> QED  BY <1>8, <1>9, <1>10, FieldLike DEF new

LEMMA GenerateIsField ==
  ASSUME NEW E, IsFiniteSet(E)
  PROVE  IsField(Generate(E))
<1> DEFINE cands == Candidates(E)
           n == 32
<1>1. n \in Nat /\ DOMAIN cands = 1 .. n /\ \A i \in 1 .. n : IsCandidate(cands[i])
  BY CandidatesScored
<1> HIDE DEF cands, n
<1>2. IsField(CandidatesToHypotheses(cands))
  BY <1>1, RankedIsField
<1> QED  BY <1>2 DEF Generate, cands

-----------------------------------------------------------------------------
(* The verdicts' effects on the hypotheses are whole numbers of points.    *)
AreEffects(effects) == IsMoves(effects["confirmed"]) /\ IsMoves(effects["rejected"])

LEMMA MovesMade ==
  /\ \A id : \A n \in Int : IsMoves(Points(id, n))
  /\ \A id, other : \A n, m \in Int : IsMoves(PointsEach(id, n, other, m))
  BY DEF IsMoves, Points, PointsEach

LEMMA EffectsMade ==
  ASSUME NEW f, NEW g, IsMoves(f), IsMoves(g)
  PROVE  AreEffects(Effects(f, g))
  BY DEF AreEffects, Effects

LEMMA SwingMade ==
  ASSUME NEW id, NEW n \in Int, NEW m \in Int
  PROVE  AreEffects(Swing(id, n, m))
  BY MovesMade, EffectsMade DEF Swing

LEMMA NoEffectsMade == AreEffects(NoEffects)
<1> DEFINE f == [h \in {} |-> 0]
<1>1. IsMoves(f)
  BY DEF IsMoves
<1> HIDE DEF f
<1>2. AreEffects(Effects(f, f))
  BY <1>1, EffectsMade
<1> QED  BY <1>2 DEF NoEffects, f

HasEffects(seed) == AreEffects(seed.effects)

LEMMA SeedMade ==
  ASSUME NEW id, NEW priority, NEW requires, NEW trigger, NEW dependsOn, NEW generates,
         NEW effects, AreEffects(effects)
  PROVE  /\ HasEffects(Seed(id, priority, requires, trigger, dependsOn, generates, effects))
         /\ HasEffects(Triggered(id, priority, requires, trigger, effects))
  BY DEF HasEffects, Seed, Triggered

LEMMA SeedsMade ==
  ASSUME NEW seed \in UNION {DefaultRegistry, TimelinePlaybook, BlastRadiusPlaybook}
  PROVE  HasEffects(seed)
<1>1. ASSUME NEW s \in DeploymentCaused PROVE HasEffects(s)
  BY SeedMade, SwingMade, EffectsMade, MovesMade, NoEffectsMade DEF DeploymentCaused
<1>2. ASSUME NEW s \in DatabaseSaturation PROVE HasEffects(s)
  BY SeedMade, SwingMade, EffectsMade, MovesMade, NoEffectsMade DEF DatabaseSaturation
<1>3. ASSUME NEW s \in LockContention PROVE HasEffects(s)
  BY SeedMade, SwingMade, EffectsMade, MovesMade, NoEffectsMade DEF LockContention
<1>4. ASSUME NEW s \in ConfigurationChange PROVE HasEffects(s)
  BY SeedMade, SwingMade, EffectsMade, MovesMade, NoEffectsMade DEF ConfigurationChange
<1>5. ASSUME NEW s \in NetworkFailure PROVE HasEffects(s)
  BY SeedMade, SwingMade, EffectsMade, MovesMade, NoEffectsMade DEF NetworkFailure
<1>6. ASSUME NEW s \in DNSFailure PROVE HasEffects(s)
  BY SeedMade, SwingMade, EffectsMade, MovesMade, NoEffectsMade DEF DNSFailure
<1>7. ASSUME NEW s \in CertificateExpiry PROVE HasEffects(s)
  BY SeedMade, SwingMade, EffectsMade, MovesMade, NoEffectsMade DEF CertificateExpiry
<1>8. ASSUME NEW s \in ResourceExhaustion PROVE HasEffects(s)
  BY SeedMade, SwingMade, EffectsMade, MovesMade, NoEffectsMade DEF ResourceExhaustion
<1>9. ASSUME NEW s \in RetryStorm PROVE HasEffects(s)
  BY SeedMade, SwingMade, EffectsMade, MovesMade, NoEffectsMade DEF RetryStorm
<1>10. ASSUME NEW s \in DependencyFailure PROVE HasEffects(s)
  BY SeedMade, SwingMade, EffectsMade, MovesMade, NoEffectsMade DEF DependencyFailure
<1>11. ASSUME NEW s \in PerformanceRegression PROVE HasEffects(s)
  BY SeedMade, SwingMade, EffectsMade, MovesMade, NoEffectsMade DEF PerformanceRegression
<1>12. ASSUME NEW s \in ExternalOutage PROVE HasEffects(s)
  BY SeedMade, SwingMade, EffectsMade, MovesMade, NoEffectsMade DEF ExternalOutage
<1>13. ASSUME NEW s \in AuthFailure PROVE HasEffects(s)
  BY SeedMade, SwingMade, EffectsMade, MovesMade, NoEffectsMade DEF AuthFailure
<1>14. ASSUME NEW s \in HumanError PROVE HasEffects(s)
  BY SeedMade, SwingMade, EffectsMade, MovesMade, NoEffectsMade DEF HumanError
<1>15. ASSUME NEW s \in CapacityPlanning PROVE HasEffects(s)
  BY SeedMade, SwingMade, EffectsMade, MovesMade, NoEffectsMade DEF CapacityPlanning
<1>16. ASSUME NEW s \in SecurityIncident PROVE HasEffects(s)
  BY SeedMade, SwingMade, EffectsMade, MovesMade, NoEffectsMade DEF SecurityIncident
<1>17. ASSUME NEW s \in InfrastructureFailure PROVE HasEffects(s)
  BY SeedMade, SwingMade, EffectsMade, MovesMade, NoEffectsMade DEF InfrastructureFailure
<1>18. ASSUME NEW s \in KubernetesFailure PROVE HasEffects(s)
  BY SeedMade, SwingMade, EffectsMade, MovesMade, NoEffectsMade DEF KubernetesFailure
<1>19. ASSUME NEW s \in ContainerFailure PROVE HasEffects(s)
  BY SeedMade, SwingMade, EffectsMade, MovesMade, NoEffectsMade DEF ContainerFailure
<1>20. ASSUME NEW s \in StorageFailure PROVE HasEffects(s)
  BY SeedMade, SwingMade, EffectsMade, MovesMade, NoEffectsMade DEF StorageFailure
<1>21. ASSUME NEW s \in CacheFailure PROVE HasEffects(s)
  BY SeedMade, SwingMade, EffectsMade, MovesMade, NoEffectsMade DEF CacheFailure
<1>22. ASSUME NEW s \in MessagingFailure PROVE HasEffects(s)
  BY SeedMade, SwingMade, EffectsMade, MovesMade, NoEffectsMade DEF MessagingFailure
<1>23. ASSUME NEW s \in LoadBalancerFailure PROVE HasEffects(s)
  BY SeedMade, SwingMade, EffectsMade, MovesMade, NoEffectsMade DEF LoadBalancerFailure
<1>24. ASSUME NEW s \in APIContractFailure PROVE HasEffects(s)
  BY SeedMade, SwingMade, EffectsMade, MovesMade, NoEffectsMade DEF APIContractFailure
<1>25. ASSUME NEW s \in DataCorruption PROVE HasEffects(s)
  BY SeedMade, SwingMade, EffectsMade, MovesMade, NoEffectsMade DEF DataCorruption
<1>26. ASSUME NEW s \in ClockFailure PROVE HasEffects(s)
  BY SeedMade, SwingMade, EffectsMade, MovesMade, NoEffectsMade DEF ClockFailure
<1>27. ASSUME NEW s \in FeatureFlagFailure PROVE HasEffects(s)
  BY SeedMade, SwingMade, EffectsMade, MovesMade, NoEffectsMade DEF FeatureFlagFailure
<1>28. ASSUME NEW s \in RegionalFailure PROVE HasEffects(s)
  BY SeedMade, SwingMade, EffectsMade, MovesMade, NoEffectsMade DEF RegionalFailure
<1>29. ASSUME NEW s \in DRFailoverFailure PROVE HasEffects(s)
  BY SeedMade, SwingMade, EffectsMade, MovesMade, NoEffectsMade DEF DRFailoverFailure
<1>30. ASSUME NEW s \in ObservabilityFailure PROVE HasEffects(s)
  BY SeedMade, SwingMade, EffectsMade, MovesMade, NoEffectsMade DEF ObservabilityFailure
<1>31. ASSUME NEW s \in TimelinePlaybook PROVE HasEffects(s)
  BY SeedMade, SwingMade, EffectsMade, MovesMade, NoEffectsMade DEF TimelinePlaybook
<1>32. ASSUME NEW s \in BlastRadiusPlaybook PROVE HasEffects(s)
  BY SeedMade, SwingMade, EffectsMade, MovesMade, NoEffectsMade DEF BlastRadiusPlaybook
<1>33. CASE seed \in DefaultRegistry
  BY <1>33, <1>1, <1>2, <1>3, <1>4, <1>5, <1>6, <1>7, <1>8, <1>9, <1>10, <1>11, <1>12, <1>13, <1>14, <1>15, <1>16, <1>17, <1>18, <1>19, <1>20, <1>21, <1>22, <1>23, <1>24, <1>25, <1>26, <1>27, <1>28, <1>29, <1>30 DEF DefaultRegistry
<1> QED  BY <1>31, <1>32, <1>33

-----------------------------------------------------------------------------
(* Sequences.                                                              *)
LEMMA SequenceOf ==
  ASSUME NEW n \in Nat, NEW seq, seq = [i \in 1 .. n |-> seq[i]]
  PROVE  seq \in Seq(ToSet(seq)) /\ Len(seq) = n /\ DOMAIN seq = 1 .. n
<1>1. seq \in [1 .. n -> ToSet(seq)] /\ DOMAIN seq = 1 .. n
  BY DEF ToSet
<1>2. seq \in Seq(ToSet(seq))
  BY <1>1
<1>3. Len(seq) = n
  BY <1>1, <1>2
<1> QED  BY <1>1, <1>2, <1>3

(* A listing names nothing twice.                                          *)
IsSequence(seq) == Len(seq) \in Nat /\ seq = [i \in 1 .. Len(seq) |-> seq[i]]

IsListing(seq) ==
  /\ IsSequence(seq)
  /\ \A i, j \in 1 .. Len(seq) : i # j => seq[i] # seq[j]

LEMMA ListingCounts ==
  ASSUME NEW seq, IsListing(seq)
  PROVE  Len(seq) = Cardinality(ToSet(seq))
<1> DEFINE n == Len(seq)
           S == ToSet(seq)
<1>1. n \in Nat /\ seq = [i \in 1 .. n |-> seq[i]]
  BY DEF IsListing, IsSequence
<1>2. seq \in Bijection(1 .. n, S)
  BY <1>1 DEF IsListing, Bijection, Injection, Surjection, IsInjective, ToSet
<1>3. IsFiniteSet(1 .. n) /\ Cardinality(1 .. n) = n
  <2> HIDE DEF n
  <2>1. 1 \in Int /\ n \in Int
    BY <1>1
  <2>2. IsFiniteSet(1 .. n) /\ Cardinality(1 .. n) = IF 1 > n THEN 0 ELSE n - 1 + 1
    BY <2>1, FS_Interval, Zenon
  <2> QED  BY <1>1, <2>2
<1>4. ExistsBijection(1 .. n, S)
  BY <1>2 DEF ExistsBijection
<1> HIDE DEF n, S
<1>5. Cardinality(S) = Cardinality(1 .. n)
  BY <1>3, <1>4, FS_Bijection
<1> QED  BY <1>3, <1>5 DEF n, S

LEMMA SelectedFrom ==
  ASSUME NEW n \in Nat, NEW seq, DOMAIN seq = 1 .. n, NEW S \in SUBSET (1 .. n)
  PROVE  /\ IsSequence(Selected(seq, S))
         /\ DOMAIN Selected(seq, S) = 1 .. Len(Selected(seq, S))
         /\ \A r \in DOMAIN Selected(seq, S) : \E i \in S : Selected(seq, S)[r] = seq[i]
         /\ ToSet(Selected(seq, S)) = {seq[i] : i \in S}
         /\ (\A i, j \in S : i # j => seq[i] # seq[j]) => IsListing(Selected(seq, S))
<1> DEFINE key == [i \in S |-> 0]
           ranked == Descending(key)
           m == Cardinality(S)
           new == Selected(seq, S)
<1>1. S \in SUBSET Int /\ IsFiniteSet(S) /\ key \in [S -> Int]
  <2>1. IsFiniteSet(1 .. n)
    BY FS_Interval
  <2>2. IsFiniteSet(S)
    BY <2>1, FS_Subset
  <2> QED  BY <2>2
<1>2. new = [rank \in DOMAIN ranked |-> seq[ranked[rank]]]
  BY DEF Selected, SortedBy
<1> HIDE DEF key, new
<1>3. /\ m \in Nat
      /\ ranked \in [1 .. m -> S]
      /\ \A i \in S : \E r \in 1 .. m : ranked[r] = i
      /\ \A r, s \in 1 .. m : r # s => ranked[r] # ranked[s]
  BY <1>1, DescendingOrders
<1> HIDE DEF ranked, m
<1>4. new = [r \in 1 .. m |-> new[r]]
  BY <1>2, <1>3
<1>5. Len(new) = m /\ DOMAIN new = 1 .. m
  BY <1>3, <1>4, SequenceOf
<1>6. \A r \in 1 .. m : new[r] = seq[ranked[r]]
  BY <1>2, <1>3
<1>7. IsSequence(new)
  BY <1>3, <1>4, <1>5 DEF IsSequence
<1>8. \A r \in 1 .. m : \E i \in S : new[r] = seq[i]
  BY <1>3, <1>6
<1>9. \A i \in S : \E r \in 1 .. m : new[r] = seq[i]
  BY <1>3, <1>6
<1>10. ToSet(new) = {seq[i] : i \in S}
  <2>1. ToSet(new) = {new[r] : r \in 1 .. m}
    BY <1>5 DEF ToSet
  <2> QED  BY <1>8, <1>9, <2>1
<1>11. ASSUME \A i, j \in S : i # j => seq[i] # seq[j]
       PROVE  \A r, s \in 1 .. m : r # s => new[r] # new[s]
  <2> SUFFICES ASSUME NEW r \in 1 .. m, NEW s \in 1 .. m, r # s PROVE new[r] # new[s]
    OBVIOUS
  <2>1. ranked[r] \in S /\ ranked[s] \in S /\ ranked[r] # ranked[s]
    BY <1>3
  <2>2. seq[ranked[r]] # seq[ranked[s]]
    BY <1>11, <2>1
  <2> QED  BY <1>6, <2>2
<1> QED  BY <1>5, <1>7, <1>8, <1>10, <1>11 DEF IsListing, new

LEMMA Concatenated ==
  ASSUME NEW s, IsSequence(s), NEW t, IsSequence(t)
  PROVE  /\ IsSequence(s \o t) /\ ToSet(s \o t) = ToSet(s) \union ToSet(t)
         /\ \A x \in DOMAIN (s \o t) :
              \/ x \in 1 .. Len(s) /\ (s \o t)[x] = s[x]
              \/ x - Len(s) \in 1 .. Len(t) /\ (s \o t)[x] = t[x - Len(s)] /\ x - Len(s) + Len(s) = x
<1> DEFINE n == Len(s)
           m == Len(t)
           U == ToSet(s) \union ToSet(t)
           both == s \o t
<1>1. /\ n \in Nat /\ s = [i \in 1 .. n |-> s[i]]
      /\ m \in Nat /\ t = [i \in 1 .. m |-> t[i]]
  BY DEF IsSequence
<1>2. s \in Seq(U) /\ t \in Seq(U)
  <2>1. s \in Seq(ToSet(s)) /\ t \in Seq(ToSet(t))
    BY <1>1, SequenceOf
  <2>2. ToSet(s) \subseteq U /\ ToSet(t) \subseteq U
    OBVIOUS
  <2> HIDE DEF U
  <2> QED  BY <2>1, <2>2, SeqMonotonic
<1>3. /\ both \in Seq(U) /\ Len(both) = n + m
      /\ \A i \in 1 .. n + m : both[i] = IF i <= n THEN s[i] ELSE t[i - n]
  BY <1>2, ConcatProperties
<1>4. DOMAIN both = 1 .. n + m /\ both \in [1 .. n + m -> U]
  BY <1>3, LenProperties
<1>5. both = [i \in 1 .. n + m |-> both[i]]
  <2> HIDE DEF both
  <2> QED  BY <1>4
<1>6. ToSet(s) = {s[i] : i \in 1 .. n} /\ ToSet(t) = {t[i] : i \in 1 .. m}
  BY <1>1 DEF ToSet
<1> HIDE DEF both, n, m, U
<1>7. ASSUME NEW x \in 1 .. n + m
      PROVE  \/ x \in 1 .. n /\ both[x] = s[x]
             \/ x - n \in 1 .. m /\ both[x] = t[x - n] /\ x - n + n = x
  <2>1. both[x] = IF x <= n THEN s[x] ELSE t[x - n]
    BY <1>3
  <2>2. CASE x <= n
    BY <1>1, <2>1, <2>2
  <2>3. CASE ~(x <= n)
    <3>1. x - n \in 1 .. m /\ x - n + n = x
      BY <1>1, <2>3
    <3> QED  BY <2>1, <2>3, <3>1
  <2> QED  BY <2>2, <2>3
<1>8. /\ \A i \in 1 .. n : i \in 1 .. n + m /\ both[i] = s[i]
      /\ \A i \in 1 .. m : i + n \in 1 .. n + m /\ both[i + n] = t[i]
  <2>1. ASSUME NEW i \in 1 .. n PROVE i \in 1 .. n + m /\ both[i] = s[i]
    <3>1. i \in 1 .. n + m /\ i <= n
      BY <1>1
    <3> QED  BY <1>3, <3>1
  <2>2. ASSUME NEW i \in 1 .. m PROVE i + n \in 1 .. n + m /\ both[i + n] = t[i]
    <3>1. i + n \in 1 .. n + m /\ ~(i + n <= n) /\ i + n - n = i
      BY <1>1
    <3> DEFINE k == i + n
    <3> HIDE DEF k
    <3>2. k \in 1 .. n + m /\ ~(k <= n) /\ k - n = i
      BY <1>1, <3>1 DEF k
    <3>3. both[k] = t[i]
      BY <1>1, <1>3, <3>2
    <3> QED  BY <3>1, <3>3 DEF k
  <2> QED  BY <2>1, <2>2
<1>9. ToSet(both) = U
  <2>1. ToSet(both) = {both[i] : i \in 1 .. n + m}
    BY <1>4 DEF ToSet
  <2>2. \A i \in 1 .. n + m : both[i] \in U
    BY <1>4
  <2>3. \A u \in U : \E i \in 1 .. n + m : both[i] = u
    BY <1>6, <1>8 DEF U
  <2> QED  BY <2>1, <2>2, <2>3
<1>10. IsSequence(both)
  <2>1. n + m \in Nat
    BY <1>1
  <2> QED  BY <1>3, <1>5, <2>1 DEF IsSequence
<1> QED  BY <1>4, <1>7, <1>9, <1>10 DEF both, n, m, U

LEMMA PlaybookListing ==
  /\ DOMAIN PlaybookOrder = 1 .. 36
  /\ \A i, j \in 1 .. 36 : i # j => PlaybookOrder[i] # PlaybookOrder[j]
  BY DEF PlaybookOrder

LEMMA ListedKeeps ==
  ASSUME NEW listing, IsListing(listing), NEW Q \in SUBSET Question
  PROVE  IsListing(Listed(listing, Q)) /\ ToSet(Listed(listing, Q)) = ToSet(listing) \union Q
<1> DEFINE fresh == Q \ ToSet(listing)
           S == {i \in DOMAIN PlaybookOrder : PlaybookOrder[i] \in fresh}
           tail == Selected(PlaybookOrder, S)
           n == Len(listing)
           m == Len(tail)
           both == listing \o tail
<1>1. Listed(listing, Q) = listing \o tail
  BY DEF Listed
<1>2. ToSet(tail) = {PlaybookOrder[i] : i \in S} /\ IsListing(tail)
  <2> DEFINE k == 36
  <2>1. k \in Nat /\ DOMAIN PlaybookOrder = 1 .. k /\ S \in SUBSET (1 .. k)
        /\ \A i, j \in S : i # j => PlaybookOrder[i] # PlaybookOrder[j]
    BY PlaybookListing
  <2> HIDE DEF k, S
  <2> QED  BY <2>1, SelectedFrom
<1>3. ToSet(tail) = fresh
  <2>1. \A q \in fresh : \E i \in DOMAIN PlaybookOrder : PlaybookOrder[i] = q
    BY ReasoningAssumption DEF ToSet
  <2> HIDE DEF tail, fresh
  <2> QED  BY <1>2, <2>1
<1> HIDE DEF tail, S
<1>4. /\ IsSequence(both) /\ ToSet(both) = ToSet(listing) \union ToSet(tail)
      /\ \A x \in DOMAIN both :
           \/ x \in 1 .. n /\ both[x] = listing[x]
           \/ x - n \in 1 .. m /\ both[x] = tail[x - n] /\ x - n + n = x
  BY <1>2, Concatenated DEF IsListing
<1>5. /\ n \in Nat /\ listing = [i \in 1 .. n |-> listing[i]]
      /\ m \in Nat /\ tail = [i \in 1 .. m |-> tail[i]]
      /\ DOMAIN both = 1 .. Len(both) /\ Len(both) \in Nat
  BY <1>2, <1>4 DEF IsListing, IsSequence
<1>10. ToSet(listing) = {listing[i] : i \in 1 .. n} /\ ToSet(tail) = {tail[i] : i \in 1 .. m}
  BY <1>5 DEF ToSet
<1>13. ASSUME NEW i \in DOMAIN both, NEW j \in DOMAIN both, i # j
       PROVE  both[i] # both[j]
  <2>1. \A x, y \in 1 .. n : x # y => listing[x] # listing[y]
    BY DEF IsListing
  <2>2. \A x, y \in 1 .. m : x # y => tail[x] # tail[y]
    BY <1>2 DEF IsListing
  <2>3. \A x \in 1 .. n, y \in 1 .. m : listing[x] # tail[y]
    BY <1>3, <1>10
  <2> HIDE DEF both, n, m
  <2>5. CASE i \in 1 .. n /\ both[i] = listing[i] /\ j \in 1 .. n /\ both[j] = listing[j]
    BY <1>13, <2>1, <2>5
  <2>6. CASE i \in 1 .. n /\ both[i] = listing[i] /\ j - n \in 1 .. m /\ both[j] = tail[j - n]
    BY <2>3, <2>6
  <2>7. CASE i - n \in 1 .. m /\ both[i] = tail[i - n] /\ j \in 1 .. n /\ both[j] = listing[j]
    BY <2>3, <2>7
  <2>8. CASE i - n \in 1 .. m /\ both[i] = tail[i - n] /\ j - n \in 1 .. m /\ both[j] = tail[j - n]
    <3>1. i \in Int /\ j \in Int /\ n \in Int
      BY <1>5
    <3>2. i - n # j - n
      BY <1>13, <3>1
    <3> QED  BY <2>2, <2>8, <3>2
  <2> QED  BY <1>4, <2>5, <2>6, <2>7, <2>8
<1>14. IsListing(both)
  BY <1>4, <1>5, <1>13 DEF IsListing
<1> QED  BY <1>1, <1>3, <1>4, <1>14

-----------------------------------------------------------------------------
(* The verdicts of a protocol run and what they do to the hypotheses.      *)
LEMMA PlaybookEffects ==
  ASSUME NEW q \in Question
  PROVE  HasEffects(Playbooks[q])
<1> DEFINE seeds == DefaultRegistry \union TimelinePlaybook \union BlastRadiusPlaybook
<1>1. Playbooks = ById(seeds)
  BY DEF Playbooks
<1>2. ASSUME NEW seed \in seeds PROVE HasEffects(seed)
  BY SeedsMade
<1> HIDE DEF seeds
<1>3. q \in Ids(seeds)
  BY <1>1, ReasoningAssumption DEF ById
<1>4. Playbooks[q] = CHOOSE seed \in seeds : seed.id = q
  BY <1>1, <1>3 DEF ById
<1>5. \E seed \in seeds : seed.id = q
  BY <1>3 DEF Ids
<1>6. Playbooks[q] \in seeds
  BY <1>4, <1>5
<1> QED  BY <1>2, <1>6

LEMMA VerdictMoves ==
  ASSUME NEW p, NEW q \in Question, Resolve(p, q, evidence) \in Outcome
  PROVE  IsMoves(MovesOf(p, q))
<1> DEFINE verdict == Resolve(p, q, evidence)
           effects == Playbooks[q].effects
           points == effects[verdict]
<1>1. IsMoves(effects["confirmed"]) /\ IsMoves(effects["rejected"])
  BY PlaybookEffects DEF HasEffects, AreEffects
<1>2. verdict = "confirmed" \/ verdict = "rejected"
  BY DEF Outcome
<1>3. MovesOf(p, q) = [id \in DOMAIN points |-> 10 * points[id]]
  BY DEF MovesOf
<1> HIDE DEF verdict, effects
<1>4. IsMoves(points)
  BY <1>1, <1>2
<1> HIDE DEF points
<1> QED  BY <1>3, <1>4 DEF IsMoves

(* A fold over moves keeps a field a field.                                *)
Moving == INSTANCE Folding WITH Step <- Moved, Good <- IsField

LEMMA MovingFold ==
  ASSUME NEW hyps, NEW moves
  PROVE  Moving!FoldLeft(Moved, hyps, moves) = FoldLeft(Moved, hyps, moves)
  BY DEF FoldLeft, MapThenFoldSet, Max, Moving!FoldLeft, Moving!MapThenFoldSet, Moving!Max

LEMMA AffectedIsField ==
  ASSUME NEW hyps, IsField(hyps), NEW p, NEW questions, IsSequence(questions),
         \A q \in ToSet(questions) : q \in Question /\ Resolve(p, q, evidence) \in Outcome
  PROVE  IsField(Affected(hyps, p, questions))
<1> DEFINE n == Len(questions)
           moves == [i \in DOMAIN questions |-> MovesOf(p, questions[i])]
<1>1. n \in Nat /\ DOMAIN questions = 1 .. n
  BY DEF IsSequence
<1>2. DOMAIN moves = 1 .. n
  BY <1>1
<1>3. \A i \in 1 .. n : IsMoves(moves[i])
  BY <1>1, VerdictMoves DEF ToSet
<1>4. Affected(hyps, p, questions) = FoldLeft(Moved, hyps, moves)
  BY DEF Affected
<1> HIDE DEF moves, n
<1>5. \A w : \A i \in 1 .. n : IsField(w) => IsField(Moved(w, moves[i]))
  BY <1>3, MovedIsField
<1>6. IsField(Moving!FoldLeft(Moved, hyps, moves))
  BY <1>1, <1>2, <1>5, Moving!FoldKeeps
<1> QED  BY <1>4, <1>6, MovingFold

LEMMA ResolvedConclusive ==
  ASSUME NEW p \in Plan, NEW listing, IsSequence(listing), ToSet(listing) \subseteq Question
  PROVE  /\ IsSequence(Resolved(p, listing))
         /\ \A q \in ToSet(Resolved(p, listing)) :
              q \in Question /\ Resolve(p, q, evidence) \in Outcome
<1> DEFINE n == Len(listing)
           S == {i \in DOMAIN listing : Conclusive(p, listing[i], evidence)}
<1>1. n \in Nat /\ DOMAIN listing = 1 .. n
  BY DEF IsSequence
<1>2. Resolved(p, listing) = Selected(listing, S) /\ S \in SUBSET (1 .. n)
  BY <1>1 DEF Resolved
<1>3. \A i \in S : listing[i] \in Question /\ Resolve(p, listing[i], evidence) \in Outcome
  BY DEF ToSet, Conclusive
<1> HIDE DEF n, S
<1>4. /\ IsSequence(Selected(listing, S))
      /\ ToSet(Selected(listing, S)) = {listing[i] : i \in S}
  BY <1>1, <1>2, SelectedFrom
<1> QED  BY <1>2, <1>3, <1>4

LEMMA EffectsAddUp ==
  ASSUME NEW hyps, IsField(hyps), NEW p, NEW questions, IsSequence(questions),
         \A q \in ToSet(questions) : q \in Question /\ Resolve(p, q, evidence) \in Outcome
  PROVE  /\ IsField(applyPlaybookEffects(hyps, p, questions))
         /\ InRange(applyPlaybookEffects(hyps, p, questions))
         /\ AddUp(applyPlaybookEffects(hyps, p, questions))
<1> DEFINE moved == NoneNegative(Affected(hyps, p, questions))
<1>1. applyPlaybookEffects(hyps, p, questions) = Rescaled(moved, Everyone)
  BY DEF applyPlaybookEffects
<1>2. IsField(moved) /\ \A i \in DOMAIN moved : moved[i].share >= 0
  BY AffectedIsField, NoneNegativeIsField
<1> HIDE DEF moved
<1>3. Everyone \in [HypothesisStatus -> BOOLEAN]
  BY DEF Everyone
<1> QED  BY <1>1, <1>2, <1>3, RescaledIsField, RescaledAddsUp

-----------------------------------------------------------------------------
(* The actions the reasoners propose.                                      *)

(* The host's answers keep the coverage they set on its scale: the applier *)
(* stores that figure as it comes, the others it clamps.                   *)
HostOnScale ==
  \A said \in Answers : \A a \in ToSet(said) : a.type = "SetCoverage" => a.coverage \in 0 .. 1000

OnScale(figure) == HostOnScale => figure \in 0 .. 1000

IsProposal(a) == IsAction(a) /\ (a.type = "SetCoverage" => OnScale(a.coverage))

AreProposals(acts) == IsSequence(acts) /\ \A a \in ToSet(acts) : IsProposal(a)

LEMMA FewProposals ==
  ASSUME NEW a, NEW b, NEW c
  PROVE  /\ AreProposals(<< >>)
         /\ IsProposal(a) => AreProposals(<<a>>)
         /\ IsProposal(a) /\ IsProposal(b) => AreProposals(<<a, b>>)
         /\ IsProposal(a) /\ IsProposal(b) /\ IsProposal(c) => AreProposals(<<a, b, c>>)
<1>1. AreProposals(<< >>)
  BY DEF AreProposals, IsSequence, ToSet
<1>2. IsProposal(a) => AreProposals(<<a>>)
  BY DEF AreProposals, IsSequence, ToSet
<1>3. IsProposal(a) /\ IsProposal(b) => AreProposals(<<a, b>>)
  BY DEF AreProposals, IsSequence, ToSet
<1>4. IsProposal(a) /\ IsProposal(b) /\ IsProposal(c) => AreProposals(<<a, b, c>>)
  BY DEF AreProposals, IsSequence, ToSet
<1> QED  BY <1>1, <1>2, <1>3, <1>4

LEMMA MoreProposals ==
  ASSUME NEW s, AreProposals(s), NEW t, AreProposals(t)
  PROVE  AreProposals(s \o t)
  BY Concatenated DEF AreProposals

LEMMA AnswerProposes ==
  ASSUME NEW said \in Answers
  PROVE  AreProposals(said)
<1>1. said \in Seq(ToSet(said)) /\ \A a \in ToSet(said) : IsAction(a)
  BY AnswerAssumption
<1>2. IsSequence(said)
  BY <1>1, LenProperties DEF IsSequence
<1>3. \A a \in ToSet(said) : a.type = "SetCoverage" => OnScale(a.coverage)
  BY DEF OnScale, HostOnScale
<1> QED  BY <1>1, <1>2, <1>3 DEF AreProposals, IsProposal

(* The session a recompute works on.                                       *)
IsSession(s) ==
  /\ DOMAIN s = {"required", "progress", "hyps", "contradictions", "coverage", "graph",
                 "confidence", "canAnswer", "blocking", "percent", "state", "status"}
  /\ s.progress \in 0 .. 1000 /\ s.confidence \in 0 .. 1000
  /\ IsWeights(s.required)
  /\ IsField(s.hyps)
  /\ IsFiniteSet(s.contradictions)
  /\ OnScale(s.coverage)
  /\ OnScale(s.percent)

(* Evidence the batches add up to.                                         *)
IsEvidence(E) ==
  E \in {UNION S : S \in SUBSET Batches} /\ E \subseteq Evidence /\ IsFiniteSet(E)

LEMMA ProgressIsInt ==
  ASSUME NEW E
  PROVE  Progress(E, Required(E)) \in Int
<1> DEFINE p == Progress(E, Required(E))
<1>1. p \in 0 .. 1000
  BY RequiredWeighed, ProgressOnScale
<1> HIDE DEF p
<1>2. p \in Int
  BY <1>1
<1> QED  BY <1>2 DEF p

LEMMA ReasonersPropose ==
  ASSUME IsEvidence(evidence), IsSession(session), answer \in Answers,
         NEW reasoner \in DOMAIN reasonerPriority
  PROVE  AreProposals(Analyze(reasoner))
<1>1. AreProposals(Temporal)
  <2> DEFINE n == Progress(evidence, Required(evidence))
             linked == {edge \in OccurredBefore(evidence) :
                          {edge[1], edge[2]} \subseteq session.graph.nodes}
             a == [type |-> "SetProgress", progress |-> n]
             b == [type |-> "LinkGraphNodes", edges |-> linked]
  <2>1. n \in Int
    BY ProgressIsInt
  <2>2. Temporal = <<a, b>>
    BY DEF Temporal
  <2> HIDE DEF n, linked
  <2>3. IsProposal(a) /\ IsProposal(b)
    BY <2>1 DEF IsProposal, IsAction
  <2> HIDE DEF a, b
  <2> QED  BY <2>2, <2>3, FewProposals
<1>2. AreProposals(Causal)
  BY FewProposals DEF Causal
<1>3. AreProposals(Hypothesis)
  <2> DEFINE field    == Field[evidence]
             required == IF DOMAIN session.required = {} THEN Required(evidence) ELSE session.required
             coverage == Coverage(evidence, required)
             graph    == Build(evidence, session.hyps, plan)
             a == [type |-> "ReplaceHypotheses", hyps |-> field]
             b == [type |-> "SetCoverage", coverage |-> coverage]
             c == [type |-> "UpdateGraph", graph |-> graph]
             d == [type |-> "PromoteHypothesis", id |-> field[1].id]
             promoted == IF field # << >> /\ field[1].share >= 400 THEN <<d>> ELSE << >>
  <2>1. IsField(field)
    <3>1. field = Generate(evidence)
      BY DEF Field, IsEvidence
    <3> QED  BY <3>1, GenerateIsField DEF IsEvidence
  <2>2. coverage \in 0 .. 1000
    <3>1. IsWeights(required)
      BY RequiredWeighed DEF IsSession
    <3> HIDE DEF required
    <3> QED  BY <3>1, CoverageOnScale DEF IsEvidence
  <2>3. Hypothesis = <<a, b, c>> \o promoted
    BY DEF Hypothesis
  <2> HIDE DEF field, coverage, graph
  <2>4. IsProposal(a)
    <3>1. field \in Seq(ToSet(field)) /\ \A h \in ToSet(field) : IsHypothesis(h)
      <4>1. Len(field) \in Nat /\ field = [i \in 1 .. Len(field) |-> field[i]]
        BY <2>1 DEF IsField
      <4> QED  BY <2>1, <4>1, SequenceOf DEF IsField, ToSet
    <3>2. IsAction(a)
      BY <3>1 DEF IsAction
    <3> QED  BY <3>2 DEF IsProposal
  <2>5. IsProposal(b)
    <3>1. coverage \in Int
      BY <2>2
    <3>2. OnScale(coverage)
      BY <2>2 DEF OnScale
    <3> QED  BY <3>1, <3>2 DEF IsProposal, IsAction
  <2>6. IsProposal(c) /\ IsProposal(d)
    BY DEF IsProposal, IsAction
  <2> HIDE DEF a, b, c, d
  <2>7. AreProposals(<<a, b, c>>) /\ AreProposals(promoted)
    BY <2>4, <2>5, <2>6, FewProposals
  <2> HIDE DEF promoted
  <2> QED  BY <2>3, <2>7, MoreProposals
<1>4. AreProposals(Consistency)
  <2> DEFINE found == Detect(evidence)
             a == [type |-> "SetContradictions", contradictions |-> found]
             b == [type |-> "AdjustHypothesis", id |-> "deployment-caused", delta |-> -150]
             adjusted == IF <<"deploy-after-incident">> \in found THEN <<b>> ELSE << >>
  <2>1. IsFiniteSet(found)
    BY DetectedFinite DEF IsEvidence
  <2>2. Consistency = <<a>> \o adjusted
    BY DEF Consistency
  <2> HIDE DEF found
  <2>3. IsProposal(a) /\ IsProposal(b)
    BY <2>1 DEF IsProposal, IsAction
  <2> HIDE DEF a, b
  <2>4. AreProposals(<<a>>) /\ AreProposals(adjusted)
    BY <2>3, FewProposals
  <2> HIDE DEF adjusted
  <2> QED  BY <2>2, <2>4, MoreProposals
<1>5. AreProposals(answer)
  BY AnswerProposes
<1>6. DOMAIN reasonerPriority = {"temporal", "causal", "hypothesis", "consistency", "semantic"}
  BY DEF reasonerPriority
<1> QED  BY <1>1, <1>2, <1>3, <1>4, <1>5, <1>6 DEF Analyze

-----------------------------------------------------------------------------
(* Applying the actions.                                                   *)
LEMMA AppendedIsField ==
  ASSUME NEW hyps, IsField(hyps), NEW h, IsHypothesis(h)
  PROVE  IsField(Append(hyps, h))
<1> DEFINE n == Len(hyps)
           new == Append(hyps, h)
           U == ToSet(hyps) \union {h}
<1>1. n \in Nat /\ DOMAIN hyps = 1 .. n /\ hyps = [i \in 1 .. n |-> hyps[i]]
  BY FieldLength DEF IsField
<1>2. hyps \in Seq(U)
  <2>1. hyps \in Seq(ToSet(hyps))
    BY <1>1, SequenceOf
  <2>2. ToSet(hyps) \subseteq U
    OBVIOUS
  <2> HIDE DEF U
  <2> QED  BY <2>1, <2>2, SeqMonotonic
<1>3. h \in U
  OBVIOUS
<1> HIDE DEF U
<1>4. new \in Seq(U) /\ Len(new) = n + 1
  BY <1>2, <1>3
<1>5. ASSUME NEW i \in 1 .. n + 1 PROVE new[i] = IF i <= n THEN hyps[i] ELSE h
  BY <1>1, <1>2, <1>3, <1>5
<1>6. \A i \in 1 .. n + 1 : IsHypothesis(new[i])
  <2> SUFFICES ASSUME NEW i \in 1 .. n + 1 PROVE IsHypothesis(new[i])
    OBVIOUS
  <2>1. i <= n => i \in DOMAIN hyps
    BY <1>1
  <2> HIDE DEF new, n
  <2> QED  BY <1>5, <2>1, FieldMember
<1>7. new \in [1 .. n + 1 -> U]
  BY <1>4, LenProperties
<1> HIDE DEF new, n
<1>8. new = [i \in 1 .. n + 1 |-> new[i]] /\ n + 1 \in Nat
  BY <1>1, <1>7
<1>9. IsField(new)
  BY <1>6, <1>8, FieldLike
<1> QED  BY <1>9 DEF new

LEMMA HypothesesApplied ==
  ASSUME NEW hyps, IsField(hyps), NEW a, IsAction(a)
  PROVE  IsField(ApplyToHypotheses(hyps, a))
<1> DEFINE new == ApplyToHypotheses(hyps, a)
<1>1. CASE a.type = "AdjustHypothesis" /\ Knows(hyps, a.id)
  <2>1. new = Rescaled(Adjusted(hyps, a.id, a.delta), Unrefuted)
    BY <1>1 DEF ApplyToHypotheses
  <2>2. a.delta \in Int
    BY <1>1 DEF IsAction
  <2> HIDE DEF new
  <2>3. Unrefuted \in [HypothesisStatus -> BOOLEAN]
    BY DEF Unrefuted
  <2> QED  BY <2>1, <2>2, <2>3, AdjustedIsField, RescaledIsField DEF new
<1>2. CASE a.type = "CreateHypothesis" /\ ~Knows(hyps, a.hypothesis.id)
  <2>1. new = Append(hyps, a.hypothesis) /\ IsHypothesis(a.hypothesis)
    BY <1>2 DEF ApplyToHypotheses, IsAction
  <2> QED  BY <2>1, AppendedIsField
<1>3. CASE a.type = "RejectHypothesis"
  BY <1>3, MarkedIsField DEF ApplyToHypotheses, HypothesisStatus
<1>4. CASE a.type = "PromoteHypothesis"
  BY <1>4, MarkedIsField DEF ApplyToHypotheses, HypothesisStatus
<1>5. CASE a.type = "ReplaceHypotheses"
  <2>1. new = a.hyps /\ a.hyps \in Seq(ToSet(a.hyps)) /\ \A h \in ToSet(a.hyps) : IsHypothesis(h)
    BY <1>5 DEF ApplyToHypotheses, IsAction
  <2> DEFINE given == a.hyps
             n == Len(given)
  <2>2. n \in Nat /\ given \in [1 .. n -> ToSet(given)]
    BY <2>1, LenProperties
  <2>3. \A h \in ToSet(given) : IsHypothesis(h)
    BY <2>1
  <2> HIDE DEF given
  <2>4. IsField(given)
    BY <2>2, <2>3 DEF IsField
  <2> QED  BY <2>1, <2>4 DEF given
<1>6. CASE /\ ~(a.type = "AdjustHypothesis" /\ Knows(hyps, a.id))
           /\ ~(a.type = "CreateHypothesis" /\ ~Knows(hyps, a.hypothesis.id))
           /\ a.type \notin {"RejectHypothesis", "PromoteHypothesis", "ReplaceHypotheses"}
  BY <1>6 DEF ApplyToHypotheses
<1> QED  BY <1>1, <1>2, <1>3, <1>4, <1>5, <1>6

IsWork(work) ==
  /\ work \in [session : {work.session}, plan : Plan, graph : {work.graph}, turn : SUBSET Question]
  /\ IsSession(work.session)
  /\ Agree(work.plan)

(* Applying leaves the plan's questions those of the plan it started from. *)
IsApplying(work) == IsWork(work) /\ Asked(work.plan) = Asked(plan)

(* Only these parts of the session are set by an action.                   *)
LEMMA ProgressSet ==
  ASSUME NEW s, IsSession(s), NEW n, IsFigure(n)
  PROVE  IsSession([s EXCEPT !.progress = n])
  BY DEF IsSession, IsFigure

LEMMA CoverageSet ==
  ASSUME NEW s, IsSession(s), NEW n, OnScale(n)
  PROVE  IsSession([s EXCEPT !.coverage = n])
  BY DEF IsSession

LEMMA ContradictionsSet ==
  ASSUME NEW s, IsSession(s), NEW S, IsFiniteSet(S)
  PROVE  IsSession([s EXCEPT !.contradictions = S])
  BY DEF IsSession

LEMMA GraphSet ==
  ASSUME NEW s, IsSession(s), NEW g
  PROVE  IsSession([s EXCEPT !.graph = g])
  BY DEF IsSession

LEMMA HypsSet ==
  ASSUME NEW s, IsSession(s), NEW h, IsField(h)
  PROVE  IsSession([s EXCEPT !.hyps = h]) /\ [s EXCEPT !.hyps = h].hyps = h
  BY DEF IsSession

LEMMA SessionField ==
  ASSUME NEW s, IsSession(s)
  PROVE  IsField(s.hyps) /\ IsFiniteSet(s.contradictions)
  BY DEF IsSession

LEMMA AnyStateSet ==
  ASSUME NEW s, IsSession(s), NEW x
  PROVE  IsSession([s EXCEPT !.state = x])
  BY DEF IsSession

LEMMA AnyStatusSet ==
  ASSUME NEW s, IsSession(s), NEW x
  PROVE  IsSession([s EXCEPT !.status = x])
  BY DEF IsSession

WithSession(work, s)  == [work EXCEPT !.session = s]
WithGraph(work, s, g) == [work EXCEPT !.session = s, !.graph = g]

LEMMA WorkSet ==
  ASSUME NEW work, IsApplying(work), NEW s, IsSession(s)
  PROVE  /\ IsApplying(WithSession(work, s))
         /\ \A g : IsApplying(WithGraph(work, s, g))
  BY DEF IsApplying, IsWork, WithSession, WithGraph

LEMMA LinksApplied ==
  ASSUME NEW work, IsApplying(work), NEW edges
  PROVE  IsApplying(ApplyLinks(work, edges))
<1> DEFINE linked == AddEdges(work.graph, Linkable(work.graph, edges))
           s == [work.session EXCEPT !.graph = linked]
<1>1. CASE Linkable(work.graph, edges) \subseteq work.graph.edges
  BY <1>1 DEF ApplyLinks
<1>2. CASE ~(Linkable(work.graph, edges) \subseteq work.graph.edges)
  <2>1. ApplyLinks(work, edges) = [work EXCEPT !.graph = linked, !.session.graph = linked]
    BY <1>2 DEF ApplyLinks
  <2> HIDE DEF linked
  <2>2. ApplyLinks(work, edges) = WithGraph(work, s, linked)
    BY <2>1 DEF IsApplying, IsWork, WithGraph
  <2>3. IsSession(s)
    BY GraphSet DEF IsApplying, IsWork
  <2> HIDE DEF s
  <2> QED  BY <2>2, <2>3, WorkSet
<1> QED  BY <1>1, <1>2

LEMMA QuestionSettled ==
  ASSUME NEW work, IsApplying(work), NEW q \in OpenQuestions(work.plan), NEW verdict \in Settled
  PROVE  IsApplying([work EXCEPT !.plan.status[q] = verdict])
<1> DEFINE p == work.plan
           r == [p EXCEPT !.status[q] = verdict]
           new == [work EXCEPT !.plan.status[q] = verdict]
<1>1. p \in Plan /\ Agree(p) /\ Asked(p) = Asked(plan)
  BY DEF IsApplying, IsWork
<1>2. q \in Question /\ p.status[q] \in Open /\ p.status[q] \notin Settled /\ p.status[q] # "absent"
  BY DEF OpenQuestions, Open, Settled
<1>3. r = [p EXCEPT !.status[q] = verdict, !.bare = p.bare] /\ p.bare \in SUBSET Question
  BY <1>1 DEF Plan
<1>4. verdict \in QuestionStatus /\ verdict # "absent"
  BY DEF QuestionStatus, Settled
<1>5. r \in Plan /\ Agree(r)
  <2> HIDE DEF p, r
  <2> QED  BY <1>1, <1>2, <1>3, <1>4, SetStatusAdvances DEF Advances
<1>6. \A u \in Question : r.status[u] = IF u = q THEN verdict ELSE p.status[u]
  BY <1>1 DEF Plan
<1>7. Asked(r) = Asked(p)
  <2> HIDE DEF r, p
  <2> QED  BY <1>2, <1>4, <1>6 DEF Asked
<1>8. new = [work EXCEPT !.plan = r]
  BY DEF IsApplying, IsWork
<1> HIDE DEF r, p
<1>9. IsApplying([work EXCEPT !.plan = r])
  BY <1>1, <1>5, <1>7 DEF IsApplying, IsWork
<1> QED  BY <1>8, <1>9

LEMMA ActionApplied ==
  ASSUME NEW work, IsApplying(work), NEW a, IsProposal(a), Validate(work, a)
  PROVE  IsApplying(applyOne(work, a))
<1> DEFINE s == work.session
           new == applyOne(work, a)
<1>1. IsSession(s) /\ IsAction(a)
  BY DEF IsApplying, IsWork, IsProposal
<1>2. CASE a.type = "SetProgress"
  <2> DEFINE v == a.progress
             n == Clamp(v, 0, 1000)
             t == [s EXCEPT !.progress = n]
  <2>1. new = WithSession(work, t)
    BY <1>2 DEF applyOne, IsApplying, IsWork, WithSession
  <2>2. v \in Int
    BY <1>1, <1>2 DEF IsAction
  <2> HIDE DEF v, new, s
  <2>3. IsFigure(n)
    BY <2>2 DEF Clamp, IsFigure
  <2> HIDE DEF n
  <2>4. IsSession(t)
    BY <1>1, <2>3, ProgressSet
  <2> HIDE DEF t
  <2> QED  BY <2>1, <2>4, WorkSet DEF new
<1>3. CASE a.type = "SetCoverage"
  <2> DEFINE t == [s EXCEPT !.coverage = a.coverage]
  <2>1. new = WithSession(work, t)
    BY <1>3 DEF applyOne, IsApplying, IsWork, WithSession
  <2>2. OnScale(a.coverage)
    BY <1>3 DEF IsProposal
  <2>3. IsSession(t)
    BY <1>1, <2>2, CoverageSet
  <2> HIDE DEF t, new
  <2> QED  BY <2>1, <2>3, WorkSet DEF new
<1>4. CASE a.type = "SetContradictions"
  <2> DEFINE t == [s EXCEPT !.contradictions = a.contradictions]
  <2>1. new = WithSession(work, t)
    BY <1>4 DEF applyOne, IsApplying, IsWork, WithSession
  <2>2. IsFiniteSet(a.contradictions)
    BY <1>1, <1>4 DEF IsAction
  <2>3. IsSession(t)
    BY <1>1, <2>2, ContradictionsSet
  <2> HIDE DEF t, new
  <2> QED  BY <2>1, <2>3, WorkSet DEF new
<1>5. CASE a.type = "MarkContradiction"
  <2> DEFINE C == s.contradictions \union {a.contradiction}
             t == [s EXCEPT !.contradictions = C]
  <2>1. new = WithSession(work, t)
    BY <1>5 DEF applyOne, IsApplying, IsWork, WithSession
  <2>2. IsFiniteSet(C)
    BY <1>1, SessionField, FS_AddElement
  <2> HIDE DEF C
  <2>3. IsSession(t)
    BY <1>1, <2>2, ContradictionsSet
  <2> HIDE DEF t, new
  <2> QED  BY <2>1, <2>3, WorkSet DEF new
<1>6. CASE a.type = "UpdateGraph"
  <2> DEFINE t == [s EXCEPT !.graph = a.graph]
  <2>1. new = WithSession(work, t)
    BY <1>6 DEF applyOne, IsApplying, IsWork, WithSession
  <2>2. IsSession(t)
    BY <1>1, GraphSet
  <2> HIDE DEF t, new
  <2> QED  BY <2>1, <2>2, WorkSet DEF new
<1>7. CASE a.type = "LinkGraphNodes"
  <2>1. new = ApplyLinks(work, a.edges)
    BY <1>7 DEF applyOne
  <2> QED  BY <2>1, LinksApplied
<1>8. CASE a.type = "SettleQuestion"
  <2>1. new = [work EXCEPT !.plan.status[a.question] = a.status]
    BY <1>8 DEF applyOne
  <2>2. a.question \in OpenQuestions(work.plan) /\ a.status \in Settled
    BY <1>1, <1>8 DEF Validate, IsAction
  <2> QED  BY <2>1, <2>2, QuestionSettled
<1>9. CASE a.type = "MarkInvestigationComplete"
  <2> DEFINE c == [s EXCEPT !.state = "completed"]
             t == [c EXCEPT !.status = "completed"]
  <2>1. new = WithSession(work, t)
    BY <1>9, ZenonT(40) DEF applyOne, IsApplying, IsWork, WithSession
  <2>2. IsSession(c)
    BY <1>1, AnyStateSet
  <2> HIDE DEF c
  <2>3. IsSession(t)
    BY <2>2, AnyStatusSet
  <2> HIDE DEF t, new
  <2> QED  BY <2>1, <2>3, WorkSet DEF new
<1>10. CASE a.type \notin {"SetProgress", "SetCoverage", "SetContradictions", "MarkContradiction",
                           "UpdateGraph", "LinkGraphNodes", "SettleQuestion",
                           "MarkInvestigationComplete"}
  <2> DEFINE h == ApplyToHypotheses(s.hyps, a)
             t == [s EXCEPT !.hyps = h]
  <2>1. new = WithSession(work, t)
    BY <1>10 DEF applyOne, IsApplying, IsWork, WithSession
  <2>2. IsField(h)
    BY <1>1, SessionField, HypothesesApplied
  <2> HIDE DEF h
  <2>3. IsSession(t)
    BY <1>1, <2>2, HypsSet
  <2> HIDE DEF t, new
  <2> QED  BY <2>1, <2>3, WorkSet DEF new
<1> QED  BY <1>2, <1>3, <1>4, <1>5, <1>6, <1>7, <1>8, <1>9, <1>10

LEMMA TriedApplies ==
  ASSUME NEW work, IsApplying(work), NEW a, IsProposal(a)
  PROVE  IsApplying(Tried(work, a))
  BY ActionApplied DEF Tried

(* Folds over actions and over reasoners.                                  *)
Trying == INSTANCE Folding WITH Step <- Tried, Good <- IsApplying
Taking == INSTANCE Folding WITH Step <- Taken, Good <- IsApplying

LEMMA TryingFold ==
  ASSUME NEW work, NEW acts
  PROVE  Trying!FoldLeft(Tried, work, acts) = FoldLeft(Tried, work, acts)
  BY DEF FoldLeft, MapThenFoldSet, Max, Trying!FoldLeft, Trying!MapThenFoldSet, Trying!Max

LEMMA TakingFold ==
  ASSUME NEW work, NEW arrived
  PROVE  Taking!FoldLeft(Taken, work, arrived) = FoldLeft(Taken, work, arrived)
  BY DEF FoldLeft, MapThenFoldSet, Max, Taking!FoldLeft, Taking!MapThenFoldSet, Taking!Max

LEMMA TakenApplies ==
  ASSUME IsEvidence(evidence), IsSession(session), answer \in Answers,
         NEW work, IsApplying(work), NEW reasoner \in DOMAIN reasonerPriority
  PROVE  IsApplying(Taken(work, reasoner))
<1> DEFINE acts == Analyze(reasoner)
           n == Len(acts)
<1>1. AreProposals(acts)
  BY ReasonersPropose
<1>2. Taken(work, reasoner) = FoldLeft(Tried, work, acts)
  BY DEF Taken
<1> HIDE DEF acts
<1>3. n \in Nat /\ DOMAIN acts = 1 .. n
  BY <1>1 DEF AreProposals, IsSequence
<1>4. \A i \in 1 .. n : IsProposal(acts[i])
  BY <1>1, <1>3 DEF AreProposals, ToSet
<1> HIDE DEF n
<1>5. \A w : \A i \in 1 .. n : IsApplying(w) => IsApplying(Tried(w, acts[i]))
  BY <1>4, TriedApplies
<1>6. IsApplying(Trying!FoldLeft(Tried, work, acts))
  BY <1>3, <1>5, Trying!FoldKeeps
<1> QED  BY <1>2, <1>6, TryingFold

(* Results by the reasoners they are of.                                   *)
AreResults(arrived) == IsSequence(arrived) /\ ToSet(arrived) \subseteq DOMAIN reasonerPriority

LEMMA ResultsApplied ==
  ASSUME IsEvidence(evidence), IsSession(session), answer \in Answers,
         NEW work, IsApplying(work), NEW arrived, AreResults(arrived)
  PROVE  IsApplying(Applied(work, arrived))
<1> DEFINE n == Len(arrived)
<1>1. Applied(work, arrived) = FoldLeft(Taken, work, arrived)
  BY DEF Applied
<1>2. n \in Nat /\ DOMAIN arrived = 1 .. n
  BY DEF AreResults, IsSequence
<1>3. \A i \in 1 .. n : arrived[i] \in DOMAIN reasonerPriority
  BY <1>2 DEF AreResults, ToSet
<1> HIDE DEF n
<1>4. \A w : \A i \in 1 .. n : IsApplying(w) => IsApplying(Taken(w, arrived[i]))
  BY <1>3, TakenApplies
<1>5. IsApplying(Taking!FoldLeft(Taken, work, arrived))
  BY <1>2, <1>4, Taking!FoldKeeps
<1> QED  BY <1>1, <1>5, TakingFold

LEMMA ResultsMerged ==
  ASSUME NEW arrived, AreResults(arrived)
  PROVE  AreResults(MergeSequential(arrived))
<1> DEFINE n == Len(arrived)
           key == [i \in DOMAIN arrived |-> reasonerPriority[arrived[i]]]
           listed == Descending(key)
           m == Cardinality(1 .. n)
           new == MergeSequential(arrived)
<1>1. n \in Nat /\ DOMAIN arrived = 1 .. n
  BY DEF AreResults, IsSequence
<1>2. \A i \in 1 .. n : arrived[i] \in DOMAIN reasonerPriority
  BY <1>1 DEF AreResults, ToSet
<1>3. key \in [1 .. n -> Int]
  <2>1. \A r \in DOMAIN reasonerPriority : reasonerPriority[r] \in Int
    BY DEF reasonerPriority
  <2> QED  BY <1>1, <1>2, <2>1
<1>4. 1 .. n \in SUBSET Int /\ IsFiniteSet(1 .. n)
  <2> HIDE DEF n
  <2> QED  BY <1>1, FS_Interval
<1>5. new = [rank \in DOMAIN listed |-> arrived[listed[rank]]]
  BY DEF MergeSequential, SortedBy
<1> HIDE DEF key, new, n
<1>6. m \in Nat /\ listed \in [1 .. m -> 1 .. n]
  BY <1>3, <1>4, DescendingOrders
<1> HIDE DEF listed, m
<1>7. new = [r \in 1 .. m |-> new[r]] /\ \A r \in 1 .. m : new[r] = arrived[listed[r]]
  BY <1>5, <1>6
<1>8. Len(new) = m /\ DOMAIN new = 1 .. m
  BY <1>6, <1>7, SequenceOf
<1>9. \A r \in 1 .. m : new[r] \in DOMAIN reasonerPriority
  BY <1>2, <1>6, <1>7
<1>10. AreResults(new)
  BY <1>6, <1>7, <1>8, <1>9 DEF AreResults, IsSequence, ToSet
<1> QED  BY <1>10 DEF new

LEMMA ResultAppended ==
  ASSUME NEW arrived, AreResults(arrived), NEW r \in DOMAIN reasonerPriority
  PROVE  AreResults(Append(arrived, r))
<1> DEFINE D == DOMAIN reasonerPriority
           n == Len(arrived)
           new == Append(arrived, r)
<1>1. n \in Nat /\ DOMAIN arrived = 1 .. n /\ arrived = [i \in 1 .. n |-> arrived[i]]
  BY DEF AreResults, IsSequence
<1>2. \A i \in 1 .. n : arrived[i] \in D
  BY <1>1 DEF AreResults, ToSet
<1> HIDE DEF D
<1>3. r \in D
  BY DEF D
<1>4. arrived \in [1 .. n -> D]
  BY <1>1, <1>2
<1>5. arrived \in Seq(D)
  BY <1>1, <1>4
<1>6. new \in Seq(D) /\ Len(new) = n + 1
  BY <1>3, <1>5
<1>7. new \in [1 .. n + 1 -> D]
  BY <1>6, LenProperties
<1> HIDE DEF new
<1>8. new = [i \in 1 .. Len(new) |-> new[i]] /\ Len(new) \in Nat
  BY <1>1, <1>6, <1>7
<1>9. ToSet(new) \subseteq D
  BY <1>7 DEF ToSet
<1> QED  BY <1>8, <1>9 DEF AreResults, IsSequence, new, D

-----------------------------------------------------------------------------
(* The plan's questions and the listing of them.                           *)
LEMMA AskedGrows ==
  ASSUME NEW p \in Plan, NEW E \in SUBSET Evidence
  PROVE  /\ Asked(p) \subseteq Asked(EnsureQuestions(p))
         /\ Asked(EnsureQuestions(p)) \subseteq Asked(AskedAfter(p, E))
         /\ \A q \in Dynamic \ Asked(EnsureQuestions(p)) :
              Fires[q][E] /\ DependenciesMet(EnsureQuestions(p), q) => q \in Asked(AskedAfter(p, E))
<1> DEFINE ensured == EnsureQuestions(p)
           after == AskedAfter(p, E)
           Q == {q \in Question \ Dynamic : p.status[q] = "absent" /\ DependenciesMet(p, q)}
           R == {q \in Question : /\ ensured.status[q] = "absent"
                                  /\ \/ /\ q \in Dynamic
                                        /\ Fires[q][E]
                                        /\ DependenciesMet(ensured, q)
                                     \/ \E parent \in Question : q \in GeneratedBy(ensured, parent)}
<1>1. ensured = Admit(p, Q) /\ after = Admit(ensured, R)
  BY DEF EnsureQuestions, AskedAfter, GenerateDynamicQuestions
<1>2. \A q \in Question :
        ensured.status[q] = IF q \in Q THEN "waiting_for_evidence" ELSE p.status[q]
  BY DEF EnsureQuestions, Admit, Plan
<1>3. ensured = [p EXCEPT !.status = ensured.status]
  BY DEF EnsureQuestions, Admit, Plan
<1> HIDE DEF ensured, after, Q
<1>4. \A q \in Question :
        after.status[q] = IF q \in R THEN "waiting_for_evidence" ELSE ensured.status[q]
  BY <1>1, <1>3 DEF Admit, Plan
<1>5. Asked(p) \subseteq Asked(ensured) /\ Asked(ensured) \subseteq Asked(after)
  BY <1>2, <1>4 DEF Asked
<1>6. ASSUME NEW q \in Dynamic \ Asked(ensured), Fires[q][E], DependenciesMet(ensured, q)
      PROVE  q \in Asked(after)
  <2>1. q \in Question
    BY PlaybookAssumption
  <2>2. q \in R
    BY <1>6, <2>1 DEF Asked
  <2> QED  BY <1>4, <2>1, <2>2 DEF Asked
<1> QED  BY <1>5, <1>6 DEF ensured, after

LEMMA ListedAsAsked ==
  ASSUME NEW listing, IsListing(listing), NEW p \in Plan, Agree(p), ToSet(listing) = Asked(p),
         evidence \in SUBSET Evidence
  PROVE  /\ IsListing(ListedAfter(listing, p))
         /\ ToSet(ListedAfter(listing, p)) = Asked(AskedAfter(p, evidence))
<1> DEFINE ensured == EnsureQuestions(p)
           A == Asked(ensured)
           B == Triggerable(ensured)
           C == Asked(AskedAfter(p, evidence))
           one == Listed(listing, A)
           two == Listed(one, B)
<1>1. ListedAfter(listing, p) = Listed(two, C)
  BY DEF ListedAfter
<1>2. A \in SUBSET Question /\ B \in SUBSET Question /\ C \in SUBSET Question
  BY PlaybookAssumption DEF Asked, Triggerable
<1>3. Asked(p) \subseteq A /\ A \subseteq C /\ B \subseteq C
  <2>1. Asked(p) \subseteq A /\ A \subseteq C
    BY AskedGrows
  <2>2. B \subseteq C
    BY AskedGrows DEF Triggerable
  <2> QED  BY <2>1, <2>2
<1> HIDE DEF A, B, C
<1>4. IsListing(one) /\ ToSet(one) = ToSet(listing) \union A
  BY <1>2, ListedKeeps
<1> HIDE DEF one
<1>5. IsListing(two) /\ ToSet(two) = ToSet(one) \union B
  BY <1>2, <1>4, ListedKeeps
<1> HIDE DEF two
<1>6. IsListing(Listed(two, C)) /\ ToSet(Listed(two, C)) = ToSet(two) \union C
  BY <1>2, <1>5, ListedKeeps
<1>7. ToSet(Listed(two, C)) = C
  BY <1>3, <1>4, <1>5, <1>6
<1> QED  BY <1>1, <1>6, <1>7 DEF C

LEMMA ResolvingAsked ==
  ASSUME NEW p \in Plan, NEW E \in SUBSET Evidence
  PROVE  Asked(ResolveQuestions(p, E)) = Asked(p)
<1> DEFINE r == ResolveQuestions(p, E)
<1>1. \A q \in Question :
        r.status[q] = CASE Conclusive(p, q, E) -> StatusFor(Resolve(p, q, E))
                        [] p.status[q] \in Open /\ ~Conclusive(p, q, E) -> PartialStatus(p, q, E)
                        [] OTHER -> p.status[q]
  BY DEF Plan, ResolveQuestions
<1> HIDE DEF r
<1>2. ASSUME NEW q \in Question
      PROVE  r.status[q] = "absent" <=> p.status[q] = "absent"
  <2>1. CASE Conclusive(p, q, E)
    <3>1. r.status[q] = StatusFor(Resolve(p, q, E))
      BY <1>1, <2>1
    <3> QED  BY <2>1, <3>1 DEF StatusFor, Conclusive, Open
  <2>2. CASE p.status[q] \in Open /\ ~Conclusive(p, q, E)
    <3>1. r.status[q] = PartialStatus(p, q, E)
      BY <1>1, <2>2
    <3> QED  BY <2>2, <3>1 DEF PartialStatus, Open
  <2>3. CASE p.status[q] \notin Open /\ ~Conclusive(p, q, E)
    BY <1>1, <2>3
  <2> QED  BY <2>1, <2>2, <2>3
<1> QED  BY <1>2 DEF Asked, r

LEMMA SyncedRequests ==
  ASSUME NEW p \in Plan, NEW E \in SUBSET Evidence, NEW r \in SyncEvidenceRequests(p, E)
  PROVE  /\ IsFiniteSet(r.requests)
         /\ OpenQuestions(r) = {} => r.requests = {}
<1>1. PICK S \in Selections(p, E) :
        r = [p EXCEPT !.requests = {RequestFor(p, E, q) : q \in S}]
  BY DEF SyncEvidenceRequests
<1>2. r.requests = {RequestFor(p, E, q) : q \in S} /\ r.status = p.status
  BY <1>1 DEF Plan
<1>3. S \subseteq OpenQuestions(p) /\ IsFiniteSet(S)
  <2>1. S \subseteq Lacking(p, E) /\ S \in {{a, b} : a, b \in Lacking(p, E)} \union {{}}
    BY DEF Selections
  <2>2. S = {} \/ \E a, b : S = {a, b}
    BY <2>1
  <2>3. ASSUME NEW a, NEW b, S = {a, b} PROVE IsFiniteSet(S)
    <3>1. IsFiniteSet({a})
      BY FS_Singleton
    <3>2. IsFiniteSet({a} \union {b})
      BY <3>1, FS_AddElement
    <3>3. S = {a} \union {b}
      BY <2>3
    <3> QED  BY <3>2, <3>3
  <2>4. IsFiniteSet(S)
    BY <2>2, <2>3, FS_EmptySet
  <2> QED  BY <2>1, <2>4 DEF Lacking
<1>4. IsFiniteSet(r.requests)
  <2> DEFINE f == [q \in S |-> RequestFor(p, E, q)]
  <2>1. IsFiniteSet({f[q] : q \in S})
    <3> HIDE DEF f
    <3> QED  BY <1>3, ImageOfFinite
  <2> QED  BY <1>2, <2>1
<1>5. OpenQuestions(r) = OpenQuestions(p)
  BY <1>2 DEF OpenQuestions
<1> QED  BY <1>2, <1>3, <1>4, <1>5

LEMMA LegacyWeighed ==
  ASSUME NEW p, IsFiniteSet(p.requests)
  PROVE  /\ IsWeights(Heaviest(protocolToLegacyRequests(p)))
         /\ OpenQuestions(p) = {} /\ p.requests = {} =>
              DOMAIN Heaviest(protocolToLegacyRequests(p)) = {}
<1> DEFINE wanted == protocolToLegacyRequests(p)
           C == {w[1] : w \in wanted}
           R == p.requests
<1>1. IsFiniteSet(C)
  <2>1. CASE p.requests # {}
    <3> DEFINE f == [r \in R |-> FirstMissing(r.question)]
    <3>1. wanted = {<<f[r], r.question>> : r \in R}
      BY <2>1 DEF protocolToLegacyRequests
    <3>0. IsFiniteSet(R)
      OBVIOUS
    <3> HIDE DEF f, wanted, R
    <3>2. C = {f[r] : r \in R}
      <4>1. \A r \in R : <<f[r], r.question>>[1] = f[r]
        OBVIOUS
      <4>2. \A w \in wanted : \E r \in R : w[1] = f[r]
        BY <3>1, <4>1
      <4>3. \A r \in R : \E w \in wanted : w[1] = f[r]
        BY <3>1, <4>1
      <4> QED  BY <4>2, <4>3
    <3> HIDE DEF C
    <3> QED  BY <3>0, <3>2, ImageOfFinite
  <2>2. CASE p.requests = {}
    <3>1. C \subseteq Category
      BY <2>2 DEF protocolToLegacyRequests
    <3> HIDE DEF C
    <3> QED  BY <3>1, ReasoningAssumption, FS_Subset
  <2> QED  BY <2>1, <2>2
<1>2. OpenQuestions(p) = {} /\ p.requests = {} => wanted = {}
  BY DEF protocolToLegacyRequests
<1> HIDE DEF wanted
<1>3. IsWeights(Heaviest(wanted))
  BY <1>1, HeaviestWeighed
<1>4. wanted = {} => DOMAIN Heaviest(wanted) = {}
  BY DEF Heaviest
<1> QED  BY <1>2, <1>3, <1>4 DEF wanted

-----------------------------------------------------------------------------
(* The session as it is assessed.                                          *)
JudgedAs(s, required, confidence, blocking, canAnswer, percent) ==
  [s EXCEPT !.required = required, !.confidence = confidence, !.blocking = blocking,
            !.canAnswer = canAnswer, !.percent = percent]

LEMMA JudgedIsSession ==
  ASSUME NEW s, IsSession(s), NEW required, IsWeights(required), NEW confidence,
         IsFigure(confidence), NEW percent, OnScale(percent), NEW blocking, NEW canAnswer, NEW r,
         r = JudgedAs(s, required, confidence, blocking, canAnswer, percent)
  PROVE  IsSession(r) /\ r.hyps = s.hyps /\ r.percent = percent
  BY DEF JudgedAs, IsSession, IsFigure

LEMMA StateSet ==
  ASSUME NEW s, IsSession(s), NEW x, NEW r, r = [s EXCEPT !.state = x]
  PROVE  IsSession(r) /\ r.hyps = s.hyps /\ r.percent = s.percent /\ r.state = x
  BY DEF IsSession

LEMMA SessionStatusSet ==
  ASSUME NEW s, IsSession(s), NEW x, NEW r, r = [s EXCEPT !.status = x]
  PROVE  IsSession(r) /\ r.hyps = s.hyps /\ r.percent = s.percent /\ r.state = s.state
  BY DEF IsSession

LEMMA AssessedIsSession ==
  ASSUME NEW s, IsSession(s), IsEvidence(evidence), NEW required, IsWeights(required)
  PROVE  LET r == Assessed(s, required) IN
         /\ IsSession(r) /\ r.hyps = s.hyps
         /\ r.state \notin {"started", "reasoning"}
         /\ HostOnScale => IsPercent(r.percent, required)
<1> DEFINE hyps == s.hyps
           contradictions == s.contradictions
           progress == s.progress
           coverage == s.coverage
           confidence == Score(evidence, hyps, contradictions, progress)
           blocking == BlockingQuestions(evidence, hyps)
           canAnswer == Evaluate(evidence, hyps, contradictions, confidence, coverage)
           percent == InvestigationProgress(evidence, required, coverage, confidence, blocking)
           one == JudgedAs(s, required, confidence, blocking, canAnswer, percent)
           two == [one EXCEPT !.state = Transition(one)]
           three == [two EXCEPT !.status = deriveStatus(two)]
<1>1. Assessed(s, required) = three
  BY DEF Assessed, Judged, InState, WithStatus, JudgedAs
<1>2. IsField(hyps) /\ IsFiniteSet(contradictions) /\ progress \in Int /\ OnScale(coverage)
  BY DEF IsSession
<1>3. s.hyps = hyps
  OBVIOUS
<1> HIDE DEF hyps, contradictions, progress, coverage
<1>4. IsFigure(confidence)
  <2>1. IsFiniteSet(evidence)
    BY DEF IsEvidence
  <2> QED  BY <1>2, <2>1, ScoreOnScale
<1>5. Cardinality(blocking) \in 0 .. 5
  BY FewBlocking
<1> HIDE DEF confidence, blocking, canAnswer
<1>6. HostOnScale => IsPercent(percent, required)
  <2> SUFFICES ASSUME HostOnScale PROVE IsPercent(percent, required)
    OBVIOUS
  <2>1. AreFigures(coverage, confidence, blocking)
    BY <1>2, <1>4, <1>5 DEF OnScale, AreFigures, IsFigure
  <2> QED  BY <2>1, PercentOnScale
<1> HIDE DEF percent
<1>7. OnScale(percent)
  BY <1>6 DEF OnScale, IsPercent
<1>8. IsSession(one) /\ one.hyps = hyps /\ one.percent = percent
  <2>1. one = JudgedAs(s, required, confidence, blocking, canAnswer, percent)
    OBVIOUS
  <2> HIDE DEF one
  <2> QED  BY <1>3, <1>4, <1>7, <2>1, JudgedIsSession
<1> HIDE DEF one
<1> DEFINE x == Transition(one)
<1>9. x \notin {"started", "reasoning"}
  BY DEF Transition
<1> HIDE DEF x
<1>10. two = [one EXCEPT !.state = x]
  BY DEF x
<1> HIDE DEF two
<1>11. IsSession(two) /\ two.hyps = hyps /\ two.percent = percent /\ two.state = x
  BY <1>8, <1>10, StateSet
<1> DEFINE y == deriveStatus(two)
<1>12. three = [two EXCEPT !.status = y]
  OBVIOUS
<1> HIDE DEF three, y
<1>13. IsSession(three) /\ three.hyps = hyps /\ three.percent = percent /\ three.state = x
  BY <1>11, <1>12, SessionStatusSet
<1> QED  BY <1>1, <1>3, <1>6, <1>9, <1>13

-----------------------------------------------------------------------------
(* The inductive invariant.                                                *)
PercentGrounded(s, p) ==
  HostOnScale => s.percent \in 0 .. 1000 /\ (s.percent >= 700 => OpenQuestions(p) # {})

Shared(hyps) == InRange(hyps) /\ AddUp(hyps)

InAState(s) == s.state \notin {"started", "reasoning"}

CycleInv ==
  /\ IsEvidence(evidence) /\ considered \subseteq evidence
  /\ IsSession(session) /\ Shared(session.hyps)
  /\ plan \in Plan /\ Agree(plan) /\ PercentGrounded(session, plan)
  /\ IsListing(order)
  /\ turn \subseteq Question
  /\ AreResults(results)
  /\ answer \in Answers
  /\ calm \in 0 .. 2
  /\ phase \in {"reasoning", "applying", "asking", "resolving", "following", "concluding", "idle"}
  /\ phase = "idle" => InAState(session)
  /\ phase \in {"reasoning", "applying", "idle"} => ToSet(order) = Asked(plan)
  /\ phase \in {"asking", "resolving", "following", "concluding"} =>
       IsWork(draft) /\ ToSet(order) = Asked(draft.plan)
  /\ phase \in {"following", "concluding"} => Shared(draft.session.hyps)

LEMMA InitCycle == Init => CycleInv
<1> SUFFICES ASSUME Init PROVE CycleInv
  OBVIOUS
<1>1. IsEvidence(evidence) /\ considered \subseteq evidence
  <2>1. {} \in {UNION S : S \in SUBSET Batches}
    <3>1. {} = UNION {} /\ {} \in SUBSET Batches
      OBVIOUS
    <3> QED  BY <3>1
  <2> QED  BY <2>1, FS_EmptySet DEF Init, IsEvidence
<1>2. Len(<< >>) = 0 /\ DOMAIN << >> = {} /\ ToSet(<< >>) = {}
  BY DEF ToSet
<1>3. IsField(<< >>) /\ InRange(<< >>) /\ AddUp(<< >>) /\ IsListing(<< >>) /\ AreResults(<< >>)
  <2>1. << >> = [i \in 1 .. Len(<< >>) |-> << >>[i]]
    OBVIOUS
  <2> QED  BY <1>2, <2>1 DEF IsField, InRange, AddUp, IsListing, IsSequence, AreResults
<1>4. IsSession(session) /\ Shared(session.hyps) /\ session.percent = 0
  <2>1. session = NewSession
    BY DEF Init
  <2>2. IsWeights([c \in {} |-> 0]) /\ IsFiniteSet({})
    BY FS_EmptySet DEF IsWeights
  <2>3. OnScale(0)
    BY DEF OnScale
  <2> QED  BY <1>3, <2>1, <2>2, <2>3 DEF NewSession, IsSession, Shared
<1>5. plan \in Plan /\ Agree(plan) /\ Asked(plan) = {}
  <2>1. << >> \in Seq(Outcome)
    OBVIOUS
  <2> QED  BY <2>1 DEF Init, EmptyPlan, Plan, Agree, Asked, QuestionStatus
<1>6. PercentGrounded(session, plan)
  BY <1>4 DEF PercentGrounded
<1>7. answer \in Answers
  BY ReasoningAssumption DEF Init
<1>8. order = << >> /\ results = << >> /\ turn = {} /\ calm = 0 /\ phase = "reasoning"
  BY DEF Init
<1> QED  BY <1>1, <1>2, <1>3, <1>4, <1>5, <1>6, <1>7, <1>8 DEF CycleInv

LEMMA RecomputeStep ==
  ASSUME CycleInv, NEW E, IsEvidence(E), evidence \subseteq E, Recompute(E)
  PROVE  CycleInv'
<1> QED  BY ReasoningAssumption DEF CycleInv, Recompute

LEMMA SubmitStep ==
  ASSUME CycleInv, NEW batch \in Batches, Submit(batch)
  PROVE  CycleInv'
<1> DEFINE E == evidence \union batch
<1>1. IsEvidence(E)
  <2>1. PICK S \in SUBSET Batches : evidence = UNION S
    BY DEF CycleInv, IsEvidence
  <2>2. E = UNION (S \union {batch}) /\ S \union {batch} \in SUBSET Batches
    BY <2>1
  <2>3. E \in {UNION T : T \in SUBSET Batches}
    BY <2>2
  <2>4. E \subseteq Evidence /\ IsFiniteSet(E)
    BY ReasoningAssumption, FS_Union DEF CycleInv, IsEvidence
  <2> HIDE DEF E
  <2> QED  BY <2>3, <2>4 DEF IsEvidence
<1>2. Recompute(E)
  BY DEF Submit
<1>3. evidence \subseteq E
  OBVIOUS
<1> HIDE DEF E
<1> QED  BY <1>1, <1>2, <1>3, RecomputeStep

LEMMA ReasonStep ==
  ASSUME CycleInv, NEW reasoner \in DOMAIN reasonerPriority, Reason(reasoner)
  PROVE  CycleInv'
<1>1. AreResults(results')
  BY ResultAppended DEF CycleInv, Reason
<1>2. answer' \in Answers
  BY DEF CycleInv, Reason
<1>3. phase = "reasoning" /\ UNCHANGED <<evidence, considered, session, plan, order, turn, phase, draft, calm>>
  BY DEF Reason
<1> QED  BY <1>1, <1>2, <1>3 DEF CycleInv

LEMMA MergeStep ==
  ASSUME CycleInv, Merge
  PROVE  CycleInv'
<1>1. AreResults(results')
  BY ResultsMerged DEF CycleInv, Merge
<1>2. /\ phase = "reasoning" /\ phase' = "applying"
      /\ UNCHANGED <<evidence, considered, session, plan, order, turn, answer, draft, calm>>
  BY DEF Merge
<1> QED  BY <1>1, <1>2 DEF CycleInv

LEMMA BegunApplies ==
  ASSUME CycleInv
  PROVE  IsApplying(Draft)
<1> DEFINE x == IF session.state = "completed" THEN session.state ELSE "reasoning"
<1>1. Begun(session) = [session EXCEPT !.state = x]
  BY DEF Begun
<1>2. IsSession(session) /\ plan \in Plan /\ Agree(plan)
  BY DEF CycleInv
<1> HIDE DEF x
<1>3. IsSession(Begun(session))
  BY <1>1, <1>2, StateSet
<1> QED  BY <1>2, <1>3 DEF Draft, IsApplying, IsWork

LEMMA ApplyStep ==
  ASSUME CycleInv, Apply
  PROVE  CycleInv'
<1>1. IsApplying(Draft)
  BY BegunApplies
<1>2. IsApplying(draft')
  <2>1. IsEvidence(evidence) /\ IsSession(session) /\ answer \in Answers /\ AreResults(results)
    BY DEF CycleInv
  <2>2. draft' = Applied(Draft, results)
    BY DEF Apply
  <2> QED  BY <1>1, <2>1, <2>2, ResultsApplied
<1>3. AreResults(<< >>)
  BY DEF AreResults, IsSequence, ToSet
<1>4. /\ phase = "applying" /\ phase' = "asking" /\ results' = << >>
      /\ UNCHANGED <<evidence, considered, session, plan, order, turn, answer, calm>>
  BY DEF Apply
<1>5. IsWork(draft') /\ Asked(draft'.plan) = Asked(plan)
  BY <1>2 DEF IsApplying
<1> QED  BY <1>3, <1>4, <1>5 DEF CycleInv

LEMMA AskStep ==
  ASSUME CycleInv, Ask
  PROVE  CycleInv'
<1> DEFINE p == draft.plan
           after == AskedAfter(p, evidence)
<1>1. /\ phase \in {"asking", "following"}
      /\ phase' = IF phase = "asking" THEN "resolving" ELSE "concluding"
      /\ order' = ListedAfter(order, p)
      /\ UNCHANGED <<evidence, considered, session, plan, turn, results, answer, calm>>
  BY DEF Ask
<1>2. IsWork(draft) /\ ToSet(order) = Asked(p) /\ IsListing(order) /\ evidence \in SUBSET Evidence
  BY <1>1 DEF CycleInv, IsEvidence
<1>3. p \in Plan /\ Agree(p)
  BY <1>2 DEF IsWork
<1>4. draft' = [draft EXCEPT !.plan = after]
  BY DEF Ask
<1> HIDE DEF p
<1>5. after \in Plan /\ Agree(after)
  BY <1>2, <1>3, AskedAfterAdvances DEF Advances
<1>6. IsListing(order') /\ ToSet(order') = Asked(after)
  BY <1>1, <1>2, <1>3, ListedAsAsked
<1> HIDE DEF after
<1>7. IsWork(draft') /\ draft'.plan = after /\ draft'.session = draft.session
  BY <1>2, <1>4, <1>5 DEF IsWork
<1>8. phase = "following" => Shared(draft.session.hyps)
  BY DEF CycleInv
<1> QED  BY <1>1, <1>6, <1>7, <1>8 DEF CycleInv

LEMMA ResolveStep ==
  ASSUME CycleInv, ResolveTurn
  PROVE  CycleInv'
<1> DEFINE p == draft.plan
           s == draft.session
           resolved == Resolved(p, order)
           after == ResolveQuestions(p, evidence)
           hyps == applyPlaybookEffects(s.hyps, p, resolved)
           Q == ToSet(resolved)
           t == [s EXCEPT !.hyps = hyps]
<1>1. /\ phase = "resolving" /\ phase' = "following"
      /\ UNCHANGED <<evidence, considered, session, plan, order, turn, results, answer, calm>>
  BY DEF ResolveTurn
<1>2. IsWork(draft) /\ ToSet(order) = Asked(p) /\ IsListing(order) /\ evidence \in SUBSET Evidence
  BY <1>1 DEF CycleInv, IsEvidence
<1>3. p \in Plan /\ Agree(p) /\ IsSession(s) /\ IsField(s.hyps)
  <2>1. p \in Plan /\ Agree(p) /\ IsSession(s)
    BY <1>2 DEF IsWork
  <2> HIDE DEF s
  <2> QED  BY <2>1, SessionField
<1>4. draft' = [draft EXCEPT !.plan = after, !.session = t, !.turn = Q]
  BY <1>2 DEF ResolveTurn, IsWork
<1> HIDE DEF p
<1>5. after \in Plan /\ Agree(after) /\ Asked(after) = Asked(p)
  BY <1>2, <1>3, ResolveAdvances, ResolvingAsked DEF Advances
<1>6. IsSequence(resolved) /\ \A q \in Q : q \in Question /\ Resolve(p, q, evidence) \in Outcome
  <2>1. IsSequence(order) /\ ToSet(order) \subseteq Question
    BY <1>2 DEF IsListing, Asked
  <2> QED  BY <1>3, <2>1, ResolvedConclusive
<1> HIDE DEF resolved
<1>7. IsField(hyps) /\ Shared(hyps)
  BY <1>3, <1>6, EffectsAddUp DEF Shared
<1>8. Q \subseteq Question
  BY <1>6
<1> HIDE DEF hyps, after, Q
<1>9. IsSession(t) /\ t.hyps = hyps
  BY <1>3, <1>7, HypsSet
<1> HIDE DEF t
<1>10. IsWork(draft') /\ draft'.plan = after /\ draft'.session = t
  BY <1>2, <1>4, <1>5, <1>8, <1>9 DEF IsWork
<1> QED  BY <1>1, <1>2, <1>5, <1>7, <1>9, <1>10 DEF CycleInv

LEMMA ConcludeStep ==
  ASSUME CycleInv, Conclude
  PROVE  CycleInv'
<1> DEFINE p == draft.plan
           s == draft.session
           required == Heaviest(protocolToLegacyRequests(plan'))
<1>1. /\ phase = "concluding" /\ phase' = "idle" /\ considered' = evidence
      /\ turn' = draft.turn /\ plan' \in SyncEvidenceRequests(p, evidence)
      /\ UNCHANGED <<evidence, order, results, answer>>
  BY DEF Conclude
<1>2. session' = Assessed(s, required)
  BY DEF Conclude
<1>3. /\ IsWork(draft) /\ ToSet(order) = Asked(p) /\ Shared(s.hyps)
      /\ IsEvidence(evidence) /\ evidence \in SUBSET Evidence
  BY <1>1 DEF CycleInv, IsEvidence
<1>4. p \in Plan /\ Agree(p) /\ IsSession(s) /\ draft.turn \subseteq Question
  BY <1>3 DEF IsWork
<1> HIDE DEF p, s
<1>5. plan' \in Plan /\ Agree(plan')
  BY <1>1, <1>3, <1>4, SyncAdvances DEF Advances
<1>6. Asked(plan') = Asked(p)
  BY <1>1, <1>3, <1>4, SyncKeeps DEF Asked
<1>7. /\ IsWeights(required)
      /\ OpenQuestions(plan') = {} => DOMAIN required = {}
  BY <1>1, <1>3, <1>4, SyncedRequests, LegacyWeighed
<1> HIDE DEF required
<1>8. /\ IsSession(session') /\ session'.hyps = s.hyps /\ InAState(session')
      /\ HostOnScale => IsPercent(session'.percent, required)
  BY <1>2, <1>3, <1>4, <1>7, AssessedIsSession DEF InAState
<1>9. PercentGrounded(session', plan')
  <2> DEFINE percent == session'.percent
             open == OpenQuestions(plan')
  <2>1. HostOnScale => percent \in 0 .. 1000 /\ (open = {} => percent < 700)
    BY <1>7, <1>8 DEF IsPercent
  <2> HIDE DEF percent, open
  <2>2. HostOnScale => percent \in 0 .. 1000 /\ (percent >= 700 => open # {})
    BY <2>1
  <2> QED  BY <2>2 DEF percent, open, PercentGrounded
<1>10. calm' \in 0 .. 2
  <2> DEFINE next == calm + 1
  <2>1. calm \in 0 .. 2 /\ next \in 1 .. 3 /\ next \in Int /\ 2 \in Int
    BY DEF CycleInv
  <2>2. calm' = Min({next, 2}) \/ calm' = 0
    BY DEF Conclude
  <2> HIDE DEF next
  <2>3. Min({next, 2}) \in {next, 2} /\ Min({next, 2}) <= 2
    BY <2>1, LesserOfTwo, Zenon
  <2> QED  BY <2>1, <2>2, <2>3
<1>11. IsListing(order) /\ AreResults(results) /\ answer \in Answers
  BY DEF CycleInv
<1>12. Shared(session'.hyps)
  BY <1>3, <1>8
<1>13. considered' \subseteq evidence' /\ IsEvidence(evidence')
  BY <1>1, <1>3
<1>14. ToSet(order') = Asked(plan') /\ IsListing(order') /\ AreResults(results') /\ answer' \in Answers
       /\ turn' \subseteq Question
  BY <1>1, <1>3, <1>4, <1>6, <1>11
<1> QED  BY <1>1, <1>5, <1>8, <1>9, <1>10, <1>12, <1>13, <1>14 DEF CycleInv

LEMMA NextCycle ==
  ASSUME CycleInv, [Next]_vars
  PROVE  CycleInv'
<1>1. ASSUME NEW batch \in Batches, Submit(batch) PROVE CycleInv'
  BY <1>1, SubmitStep
<1>2. CASE Get
  <2>1. IsEvidence(evidence)
    BY DEF CycleInv
  <2> QED  BY <1>2, <2>1, RecomputeStep DEF Get
<1>3. ASSUME NEW reasoner \in DOMAIN reasonerPriority, Reason(reasoner) PROVE CycleInv'
  BY <1>3, ReasonStep
<1>4. CASE Merge
  BY <1>4, MergeStep
<1>5. CASE Apply
  BY <1>5, ApplyStep
<1>6. CASE Ask
  BY <1>6, AskStep
<1>7. CASE ResolveTurn
  BY <1>7, ResolveStep
<1>8. CASE Conclude
  BY <1>8, ConcludeStep
<1>9. CASE UNCHANGED vars
  BY <1>9 DEF CycleInv, vars
<1> QED  BY <1>1, <1>2, <1>3, <1>4, <1>5, <1>6, <1>7, <1>8, <1>9 DEF Next

LEMMA AlwaysCycle == Spec => []CycleInv
<1>1. Init => CycleInv
  BY InitCycle
<1>2. CycleInv /\ [Next]_vars => CycleInv'
  BY NextCycle
<1> QED  BY <1>1, <1>2, PTL DEF Spec

LEMMA CycleTyped == HostOnScale /\ CycleInv => TypeOK
<1> SUFFICES ASSUME HostOnScale, CycleInv PROVE TypeOK
  OBVIOUS
<1>1. considered \subseteq evidence /\ evidence \subseteq Evidence
  BY DEF CycleInv, IsEvidence
<1>2. Len(order) = Cardinality(ToSet(order))
  BY ListingCounts DEF CycleInv
<1> DEFINE P == 0 .. 1000
<1>3. \A r \in ToSet(session.hyps) : r.share \in P
  <2>1. \A i \in DOMAIN session.hyps : session.hyps[i].share \in P
    BY DEF CycleInv, Shared, InRange
  <2> HIDE DEF P
  <2>2. \A r \in ToSet(session.hyps) : \E i \in DOMAIN session.hyps : r = session.hyps[i]
    BY DEF ToSet
  <2> QED  BY <2>1, <2>2
<1>4. {session.confidence, session.progress, session.coverage, session.percent} \subseteq P
  <2>1. IsSession(session)
    BY DEF CycleInv
  <2>2. session.coverage \in P /\ session.percent \in P
    BY <2>1 DEF IsSession, OnScale
  <2>3. session.confidence \in P /\ session.progress \in P
    BY <2>1 DEF IsSession
  <2> HIDE DEF P
  <2> QED  BY <2>2, <2>3
<1>5. Idle => ToSet(order) = Asked(plan) /\ session.state \notin {"started", "reasoning"}
  BY DEF CycleInv, Idle, InAState
<1>6. /\ plan \in Plan /\ turn \subseteq Question /\ calm \in 0 .. 2
      /\ phase \in {"reasoning", "applying", "asking", "resolving", "following", "concluding", "idle"}
  BY DEF CycleInv
<1> QED  BY <1>1, <1>2, <1>3, <1>4, <1>5, <1>6 DEF TypeOK

-----------------------------------------------------------------------------
(* The order of the results.                                               *)
LEMMA ListingAppended ==
  ASSUME NEW seq, IsListing(seq), NEW x
  PROVE  /\ IsSequence(Append(seq, x)) /\ Len(Append(seq, x)) = Len(seq) + 1
         /\ ToSet(Append(seq, x)) = ToSet(seq) \union {x}
         /\ x \notin ToSet(seq) => IsListing(Append(seq, x))
<1> DEFINE D == ToSet(seq) \union {x}
           n == Len(seq)
           new == Append(seq, x)
<1>1. n \in Nat /\ DOMAIN seq = 1 .. n /\ seq = [i \in 1 .. n |-> seq[i]]
  BY DEF IsListing, IsSequence
<1>2. ToSet(seq) = {seq[i] : i \in 1 .. n}
  BY <1>1 DEF ToSet
<1>3. seq \in [1 .. n -> D]
  BY <1>1, <1>2
<1>4. x \in D
  OBVIOUS
<1> HIDE DEF D
<1>5. seq \in Seq(D)
  BY <1>1, <1>3
<1>6. new \in Seq(D) /\ Len(new) = n + 1
  BY <1>4, <1>5
<1>7. \A i \in 1 .. n + 1 : new[i] = IF i <= n THEN seq[i] ELSE x
  BY <1>1, <1>4, <1>5
<1>8. new \in [1 .. n + 1 -> D]
  BY <1>6, LenProperties
<1> HIDE DEF new
<1>9. IsSequence(new)
  BY <1>1, <1>6, <1>8 DEF IsSequence
<1>10. ToSet(new) = {new[i] : i \in 1 .. n + 1}
  BY <1>8 DEF ToSet
<1>11. ToSet(new) = ToSet(seq) \union {x}
  <2>1. \A i \in 1 .. n : new[i] = seq[i]
    BY <1>1, <1>7
  <2>2. new[n + 1] = x
    BY <1>1, <1>7
  <2>3. 1 .. n + 1 = (1 .. n) \union {n + 1}
    BY <1>1
  <2> QED  BY <1>2, <1>10, <2>1, <2>2, <2>3
<1>12. ASSUME x \notin ToSet(seq), NEW i \in 1 .. n + 1, NEW j \in 1 .. n + 1, i # j
       PROVE  new[i] # new[j]
  <2>1. \A k \in 1 .. n + 1 : k = n + 1 \/ k \in 1 .. n
    BY <1>1
  <2>2. \A k \in 1 .. n : new[k] = seq[k] /\ new[k] # x
    BY <1>1, <1>2, <1>7, <1>12
  <2>3. new[n + 1] = x
    BY <1>1, <1>7
  <2>4. \A k, m \in 1 .. n : k # m => seq[k] # seq[m]
    BY DEF IsListing
  <2> QED  BY <1>12, <2>1, <2>2, <2>3, <2>4
<1>13. x \notin ToSet(seq) => IsListing(new)
  BY <1>6, <1>9, <1>12 DEF IsListing
<1> QED  BY <1>6, <1>9, <1>11, <1>13 DEF new

LEMMA ResultsSorted ==
  ASSUME NEW arrived, AreResults(arrived)
  PROVE  /\ AreResults(MergeSequential(arrived))
         /\ ToSet(MergeSequential(arrived)) = ToSet(arrived)
         /\ IsListing(arrived) => IsListing(MergeSequential(arrived))
         /\ \A r, s \in 1 .. Len(MergeSequential(arrived)) : r < s =>
              reasonerPriority[MergeSequential(arrived)[r]]
                >= reasonerPriority[MergeSequential(arrived)[s]]
<1> DEFINE n == Len(arrived)
           key == [i \in DOMAIN arrived |-> reasonerPriority[arrived[i]]]
           listed == Descending(key)
           m == Cardinality(1 .. n)
           new == MergeSequential(arrived)
<1>1. n \in Nat /\ DOMAIN arrived = 1 .. n
  BY DEF AreResults, IsSequence
<1>2. \A i \in 1 .. n : arrived[i] \in DOMAIN reasonerPriority
  BY <1>1 DEF AreResults, ToSet
<1>3. key \in [1 .. n -> Int] /\ \A i \in 1 .. n : key[i] = reasonerPriority[arrived[i]]
  <2>1. \A r \in DOMAIN reasonerPriority : reasonerPriority[r] \in Int
    BY DEF reasonerPriority
  <2> QED  BY <1>1, <1>2, <2>1
<1>4. 1 .. n \in SUBSET Int /\ IsFiniteSet(1 .. n)
  <2> HIDE DEF n
  <2> QED  BY <1>1, FS_Interval
<1>5. new = [rank \in DOMAIN listed |-> arrived[listed[rank]]]
  BY DEF MergeSequential, SortedBy
<1> HIDE DEF key, new, n
<1>6. /\ m \in Nat /\ listed \in [1 .. m -> 1 .. n]
      /\ \A i \in 1 .. n : \E r \in 1 .. m : listed[r] = i
      /\ \A r, s \in 1 .. m : r # s => listed[r] # listed[s]
      /\ \A r, s \in 1 .. m : r < s => key[listed[r]] >= key[listed[s]]
  BY <1>3, <1>4, DescendingOrders
<1> HIDE DEF listed, m
<1>7. new = [r \in 1 .. m |-> new[r]] /\ \A r \in 1 .. m : new[r] = arrived[listed[r]]
  BY <1>5, <1>6
<1>8. Len(new) = m /\ DOMAIN new = 1 .. m
  BY <1>6, <1>7, SequenceOf
<1>9. \A r \in 1 .. m : new[r] \in DOMAIN reasonerPriority
  BY <1>2, <1>6, <1>7
<1>10. AreResults(new)
  BY <1>6, <1>7, <1>8, <1>9 DEF AreResults, IsSequence, ToSet
<1>11. ToSet(new) = ToSet(arrived)
  <2>1. ToSet(new) = {new[r] : r \in 1 .. m} /\ ToSet(arrived) = {arrived[i] : i \in 1 .. n}
    BY <1>1, <1>8 DEF ToSet
  <2> QED  BY <1>6, <1>7, <2>1
<1>12. IsListing(arrived) => IsListing(new)
  <2> SUFFICES ASSUME IsListing(arrived), NEW r \in 1 .. m, NEW s \in 1 .. m, r # s
               PROVE  new[r] # new[s]
    BY <1>8, <1>10 DEF AreResults, IsListing
  <2>1. listed[r] \in 1 .. n /\ listed[s] \in 1 .. n /\ listed[r] # listed[s]
    BY <1>6
  <2>2. arrived[listed[r]] # arrived[listed[s]]
    BY <2>1 DEF IsListing, n
  <2> QED  BY <1>7, <2>2
<1>13. \A r, s \in 1 .. m : r < s => reasonerPriority[new[r]] >= reasonerPriority[new[s]]
  <2> SUFFICES ASSUME NEW r \in 1 .. m, NEW s \in 1 .. m, r < s
               PROVE  reasonerPriority[new[r]] >= reasonerPriority[new[s]]
    OBVIOUS
  <2>1. listed[r] \in 1 .. n /\ listed[s] \in 1 .. n /\ key[listed[r]] >= key[listed[s]]
    BY <1>6
  <2> QED  BY <1>3, <1>7, <2>1
<1> QED  BY <1>8, <1>10, <1>11, <1>12, <1>13 DEF new

(* Whatever order the results came in, they are applied in this one.       *)
InOrder(merged) ==
  \/ merged = <<"temporal", "causal", "hypothesis", "consistency", "semantic">>
  \/ merged = <<"temporal", "hypothesis", "consistency", "semantic">>

Unconditional == {"temporal", "hypothesis", "consistency", "semantic"}

LEMMA MergedInOrder ==
  ASSUME NEW arrived, AreResults(arrived), IsListing(arrived), Unconditional \subseteq ToSet(arrived)
  PROVE  InOrder(MergeSequential(arrived))
<1> DEFINE new == MergeSequential(arrived)
           m == Len(new)
<1>1. AreResults(new) /\ IsListing(new) /\ Unconditional \subseteq ToSet(new)
  BY ResultsSorted
<1>2. \A r, s \in 1 .. m : r < s => reasonerPriority[new[r]] >= reasonerPriority[new[s]]
  BY ResultsSorted
<1> HIDE DEF new
<1>3. m \in Nat /\ DOMAIN new = 1 .. m /\ new = [i \in 1 .. m |-> new[i]]
  BY <1>1 DEF IsListing, IsSequence
<1> HIDE DEF m
<1>4. \A r, s \in 1 .. m : r # s => new[r] # new[s]
  BY <1>1 DEF IsListing, m
<1>5. \A r \in 1 .. m : new[r] \in {"temporal", "causal", "hypothesis", "consistency", "semantic"}
  BY <1>1, <1>3 DEF AreResults, ToSet, reasonerPriority
<1>6. \A reasoner \in Unconditional : \E r \in 1 .. m : new[r] = reasoner
  BY <1>1, <1>3 DEF ToSet
<1>7. PICK t \in 1 .. m : new[t] = "temporal"
  BY <1>6 DEF Unconditional
<1>8. PICK h \in 1 .. m : new[h] = "hypothesis"
  BY <1>6 DEF Unconditional
<1>9. PICK c \in 1 .. m : new[c] = "consistency"
  BY <1>6 DEF Unconditional
<1>10. PICK s \in 1 .. m : new[s] = "semantic"
  BY <1>6 DEF Unconditional
<1>11. t \in Int /\ h \in Int /\ c \in Int /\ s \in Int
  BY <1>7, <1>8, <1>9, <1>10
<1>12. ASSUME NEW r \in 1 .. m, NEW u \in 1 .. m,
              reasonerPriority[new[r]] \in Int, reasonerPriority[new[u]] \in Int,
              reasonerPriority[new[r]] > reasonerPriority[new[u]]
       PROVE  r < u
  BY <1>2, <1>3, <1>12
<1>13. t < h /\ h < c /\ c < s
  <2>1. t < h
    BY <1>7, <1>8, <1>12 DEF reasonerPriority
  <2>2. h < c
    BY <1>8, <1>9, <1>12 DEF reasonerPriority
  <2>3. c < s
    BY <1>9, <1>10, <1>12 DEF reasonerPriority
  <2> QED  BY <2>1, <2>2, <2>3
<1>14. CASE \E r \in 1 .. m : new[r] = "causal"
  <2>1. PICK a \in 1 .. m : new[a] = "causal"
    BY <1>14
  <2>2. t < a /\ a < h /\ a \in Int
    <3>1. t < a
      BY <1>7, <2>1, <1>12 DEF reasonerPriority
    <3>2. a < h
      BY <1>8, <2>1, <1>12 DEF reasonerPriority
    <3> QED  BY <2>1, <3>1, <3>2
  <2>3. \A r \in 1 .. m : r \in {t, a, h, c, s}
    BY <1>4, <1>5, <1>7, <1>8, <1>9, <1>10, <2>1
  <2>4. 1 \in 1 .. m /\ 2 \in 1 .. m /\ 3 \in 1 .. m /\ 4 \in 1 .. m /\ 5 \in 1 .. m /\ m \in 1 .. m
    BY <1>3, <1>7, <1>10, <1>11, <1>13, <2>2
  <2>5. t = 1 /\ a = 2 /\ h = 3 /\ c = 4 /\ s = 5 /\ m = 5
    <3>1. 1 \in {t, a, h, c, s} /\ 2 \in {t, a, h, c, s} /\ 3 \in {t, a, h, c, s}
          /\ 4 \in {t, a, h, c, s} /\ 5 \in {t, a, h, c, s} /\ m \in {t, a, h, c, s}
      BY <2>3, <2>4
    <3>2. t >= 1 /\ s <= m /\ m \in Int
      BY <1>3, <1>7, <1>10
    <3> QED  BY <1>11, <1>13, <2>2, <3>1, <3>2
  <2>6. new = <<"temporal", "causal", "hypothesis", "consistency", "semantic">>
    BY <1>3, <1>7, <1>8, <1>9, <1>10, <2>1, <2>5
  <2> QED  BY <2>6 DEF InOrder, new
<1>15. CASE ~\E r \in 1 .. m : new[r] = "causal"
  <2>1. \A r \in 1 .. m : r \in {t, h, c, s}
    BY <1>4, <1>5, <1>7, <1>8, <1>9, <1>10, <1>15
  <2>2. 1 \in 1 .. m /\ 2 \in 1 .. m /\ 3 \in 1 .. m /\ 4 \in 1 .. m /\ m \in 1 .. m
    BY <1>3, <1>7, <1>10, <1>11, <1>13
  <2>3. t = 1 /\ h = 2 /\ c = 3 /\ s = 4 /\ m = 4
    <3>1. 1 \in {t, h, c, s} /\ 2 \in {t, h, c, s} /\ 3 \in {t, h, c, s}
          /\ 4 \in {t, h, c, s} /\ m \in {t, h, c, s}
      BY <2>1, <2>2
    <3>2. t >= 1 /\ s <= m /\ m \in Int
      BY <1>3, <1>7, <1>10
    <3> QED  BY <1>11, <1>13, <3>1, <3>2
  <2>4. new = <<"temporal", "hypothesis", "consistency", "semantic">>
    BY <1>3, <1>7, <1>8, <1>9, <1>10, <2>3
  <2> QED  BY <2>4 DEF InOrder, new
<1> QED  BY <1>14, <1>15

(* What the reasoners make of it, one after the other; the causal one has  *)
(* nothing to propose.                                                     *)
LEMMA AppliedInOrder ==
  ASSUME NEW work, NEW merged, InOrder(merged)
  PROVE  Applied(work, merged) =
           Taken(Taken(Taken(Taken(work, "temporal"), "hypothesis"), "consistency"), "semantic")
<1>1. Applied(work, merged) = Taking!FoldLeft(Taken, work, merged)
  BY TakingFold DEF Applied
<1>2. \A w : Taken(w, "causal") = w
  <2> SUFFICES ASSUME NEW w PROVE Taken(w, "causal") = w
    OBVIOUS
  <2>1. Analyze("causal") = << >>
    BY DEF Analyze, Causal
  <2>2. Taken(w, "causal") = FoldLeft(Tried, w, << >>)
    BY <2>1 DEF Taken
  <2>3. Trying!FoldLeft(Tried, w, << >>) = w
    BY Trying!FoldOfNone
  <2> QED  BY <2>2, <2>3, TryingFold
<1> DEFINE n == Len(merged)
<1>3. n \in Nat /\ DOMAIN merged = 1 .. n
  BY DEF InOrder
<1> HIDE DEF n
<1>4. n = 5 => Taking!FoldLeft(Taken, work, merged) =
        Taken(Taken(Taken(Taken(Taken(work, merged[1]), merged[2]), merged[3]), merged[4]), merged[5])
  BY <1>3, Taking!ShortFolds
<1>5. n = 4 => Taking!FoldLeft(Taken, work, merged) =
        Taken(Taken(Taken(Taken(work, merged[1]), merged[2]), merged[3]), merged[4])
  BY <1>3, Taking!ShortFolds
<1>6. CASE merged = <<"temporal", "causal", "hypothesis", "consistency", "semantic">>
  <2>1. /\ n = 5 /\ merged[1] = "temporal" /\ merged[2] = "causal" /\ merged[3] = "hypothesis"
        /\ merged[4] = "consistency" /\ merged[5] = "semantic"
    BY <1>6 DEF n
  <2> QED  BY <1>1, <1>2, <1>4, <2>1
<1>7. CASE merged = <<"temporal", "hypothesis", "consistency", "semantic">>
  <2>1. /\ n = 4 /\ merged[1] = "temporal" /\ merged[2] = "hypothesis"
        /\ merged[3] = "consistency" /\ merged[4] = "semantic"
    BY <1>7 DEF n
  <2> QED  BY <1>1, <1>5, <2>1
<1> QED  BY <1>6, <1>7 DEF InOrder

-----------------------------------------------------------------------------
(* What the reasoners propose, action by action.                           *)
ProgressSeen == [type |-> "SetProgress", progress |-> Progress(evidence, Required(evidence))]

LinksSeen ==
  [type  |-> "LinkGraphNodes",
   edges |-> {edge \in OccurredBefore(evidence) : {edge[1], edge[2]} \subseteq session.graph.nodes}]

FieldFound == [type |-> "ReplaceHypotheses", hyps |-> Field[evidence]]

CoverageFound ==
  [type     |-> "SetCoverage",
   coverage |-> Coverage(evidence, IF DOMAIN session.required = {} THEN Required(evidence)
                                   ELSE session.required)]

GraphBuilt == [type |-> "UpdateGraph", graph |-> Build(evidence, session.hyps, plan)]

LeaderFound == [type |-> "PromoteHypothesis", id |-> Field[evidence][1].id]

Leads == Field[evidence] # << >> /\ Field[evidence][1].share >= 400

ContradictionsFound == [type |-> "SetContradictions", contradictions |-> Detect(evidence)]

DeploymentDoubted == [type |-> "AdjustHypothesis", id |-> "deployment-caused", delta |-> -150]

Doubts == <<"deploy-after-incident">> \in Detect(evidence)

WithFound(work) == Tried(Tried(Tried(work, FieldFound), CoverageFound), GraphBuilt)

LEMMA Lengthened ==
  ASSUME NEW S, NEW s \in Seq(S), NEW x \in S, NEW t \in Seq(S),
         Len(t) = Len(s) + 1, \A i \in 1 .. Len(s) : t[i] = s[i], t[Len(s) + 1] = x
  PROVE  s \o <<x>> = t
<1> DEFINE n == Len(s)
           u == Append(s, x)
<1>1. /\ u \in Seq(S) /\ Len(u) = n + 1 /\ \A i \in 1 .. n : u[i] = s[i]
      /\ u[n + 1] = x /\ u = s \o <<x>> /\ n \in Nat
  BY AppendProperties, AppendIsConcat, LenProperties
<1> HIDE DEF u
<1>2. Len(t) = n + 1 /\ (\A i \in 1 .. n : t[i] = s[i]) /\ t[n + 1] = x
  OBVIOUS
<1> HIDE DEF n
<1>3. \A i \in 1 .. n + 1 : u[i] = t[i]
  <2>1. \A i \in 1 .. n + 1 : i \in 1 .. n \/ i = n + 1
    BY <1>1
  <2> QED  BY <1>1, <1>2, <2>1
<1>4. u = t
  BY <1>1, <1>2, <1>3, SeqEqual
<1> QED  BY <1>1, <1>4

LEMMA ThreeAndOne ==
  ASSUME NEW a, NEW b, NEW c, NEW d
  PROVE  <<a, b, c>> \o <<d>> = <<a, b, c, d>>
<1> DEFINE S == {a, b, c, d}
           s == <<a, b, c>>
           t == <<a, b, c, d>>
<1>1. s \in Seq(S) /\ d \in S /\ t \in Seq(S) /\ Len(s) = 3 /\ Len(t) = 4
  OBVIOUS
<1>2. t[1] = s[1] /\ t[2] = s[2] /\ t[3] = s[3] /\ t[4] = d
  OBVIOUS
<1> HIDE DEF S, s, t
<1>3. \A i \in 1 .. Len(s) : t[i] = s[i]
  BY <1>1, <1>2
<1>4. Len(t) = Len(s) + 1 /\ t[Len(s) + 1] = d
  BY <1>1, <1>2
<1>5. s \o <<d>> = t
  BY <1>1, <1>3, <1>4, Lengthened
<1> QED  BY <1>5 DEF s, t

LEMMA OneAndOne ==
  ASSUME NEW a, NEW b
  PROVE  <<a>> \o <<b>> = <<a, b>>
<1> DEFINE S == {a, b}
           s == <<a>>
           t == <<a, b>>
<1>1. s \in Seq(S) /\ b \in S /\ t \in Seq(S) /\ Len(s) = 1 /\ Len(t) = 2
  OBVIOUS
<1>2. t[1] = s[1] /\ t[2] = b
  OBVIOUS
<1> HIDE DEF S, s, t
<1>3. \A i \in 1 .. Len(s) : t[i] = s[i]
  BY <1>1, <1>2
<1>4. Len(t) = Len(s) + 1 /\ t[Len(s) + 1] = b
  BY <1>1, <1>2
<1>5. s \o <<b>> = t
  BY <1>1, <1>3, <1>4, Lengthened
<1> QED  BY <1>5 DEF s, t
LEMMA TemporalTaken ==
  ASSUME NEW work
  PROVE  Taken(work, "temporal") = Tried(Tried(work, ProgressSeen), LinksSeen)
<1> DEFINE acts == Temporal
           n == Len(acts)
<1>1. n \in Nat /\ DOMAIN acts = 1 .. n /\ n = 2 /\ acts[1] = ProgressSeen /\ acts[2] = LinksSeen
  BY DEF Temporal, ProgressSeen, LinksSeen
<1>2. Taken(work, "temporal") = FoldLeft(Tried, work, acts)
  BY DEF Taken, Analyze
<1> HIDE DEF acts, n
<1>3. n = 2 => Trying!FoldLeft(Tried, work, acts) = Tried(Tried(work, acts[1]), acts[2])
  BY <1>1, Trying!ShortFolds
<1> QED  BY <1>1, <1>2, <1>3, TryingFold

LEMMA HypothesisTaken ==
  ASSUME NEW work
  PROVE  Taken(work, "hypothesis") =
           IF Leads THEN Tried(WithFound(work), LeaderFound) ELSE WithFound(work)
<1> DEFINE acts == Hypothesis
           n == Len(acts)
<1>1. acts = IF Leads THEN <<FieldFound, CoverageFound, GraphBuilt, LeaderFound>>
             ELSE <<FieldFound, CoverageFound, GraphBuilt>>
  <2> DEFINE field == Field[evidence]
             given == IF DOMAIN session.required = {} THEN Required(evidence) ELSE session.required
             coverage == Coverage(evidence, given)
             graph == Build(evidence, session.hyps, plan)
  <2>1. acts = << [type |-> "ReplaceHypotheses", hyps |-> field],
                  [type |-> "SetCoverage", coverage |-> coverage],
                  [type |-> "UpdateGraph", graph |-> graph] >>
               \o (IF field # << >> /\ field[1].share >= 400
                     THEN << [type |-> "PromoteHypothesis", id |-> field[1].id] >> ELSE << >>)
    BY DEF Hypothesis
  <2>2. /\ FieldFound = [type |-> "ReplaceHypotheses", hyps |-> field]
        /\ CoverageFound = [type |-> "SetCoverage", coverage |-> coverage]
        /\ GraphBuilt = [type |-> "UpdateGraph", graph |-> graph]
        /\ LeaderFound = [type |-> "PromoteHypothesis", id |-> field[1].id]
        /\ Leads <=> (field # << >> /\ field[1].share >= 400)
    BY DEF FieldFound, CoverageFound, GraphBuilt, LeaderFound, Leads
  <2> HIDE DEF field, coverage, graph
  <2>3. acts = <<FieldFound, CoverageFound, GraphBuilt>> \o (IF Leads THEN <<LeaderFound>> ELSE << >>)
    BY <2>1, <2>2, Zenon
  <2> HIDE DEF acts
  <2> DEFINE always == <<FieldFound, CoverageFound, GraphBuilt>>
  <2>4. always \in Seq({FieldFound, CoverageFound, GraphBuilt})
    OBVIOUS
  <2>5. always \o << >> = always
    BY <2>4, ConcatEmptySeq
  <2>6. always \o <<LeaderFound>> = <<FieldFound, CoverageFound, GraphBuilt, LeaderFound>>
    BY ThreeAndOne
  <2> QED  BY <2>3, <2>5, <2>6, Zenon
<1>2. Taken(work, "hypothesis") = FoldLeft(Tried, work, acts)
  BY DEF Taken, Analyze
<1> HIDE DEF acts
<1>3. /\ n \in Nat /\ DOMAIN acts = 1 .. n
      /\ acts[1] = FieldFound /\ acts[2] = CoverageFound /\ acts[3] = GraphBuilt
      /\ IF Leads THEN n = 4 /\ acts[4] = LeaderFound ELSE n = 3
  <2>1. CASE Leads
    <3>1. acts = <<FieldFound, CoverageFound, GraphBuilt, LeaderFound>>
      BY <1>1, <2>1
    <3> QED  BY <2>1, <3>1
  <2>2. CASE ~Leads
    <3>1. acts = <<FieldFound, CoverageFound, GraphBuilt>>
      BY <1>1, <2>2
    <3> QED  BY <2>2, <3>1
  <2> QED  BY <2>1, <2>2
<1> HIDE DEF n
<1>4. n = 3 => Trying!FoldLeft(Tried, work, acts) =
        Tried(Tried(Tried(work, acts[1]), acts[2]), acts[3])
  BY <1>3, Trying!ShortFolds
<1>5. n = 4 => Trying!FoldLeft(Tried, work, acts) =
        Tried(Tried(Tried(Tried(work, acts[1]), acts[2]), acts[3]), acts[4])
  BY <1>3, Trying!ShortFolds
<1>6. CASE Leads
  BY <1>2, <1>3, <1>5, <1>6, TryingFold DEF WithFound
<1>7. CASE ~Leads
  BY <1>2, <1>3, <1>4, <1>7, TryingFold DEF WithFound
<1> QED  BY <1>6, <1>7

LEMMA ConsistencyTaken ==
  ASSUME NEW work
  PROVE  Taken(work, "consistency") =
           IF Doubts THEN Tried(Tried(work, ContradictionsFound), DeploymentDoubted)
           ELSE Tried(work, ContradictionsFound)
<1> DEFINE acts == Consistency
           n == Len(acts)
<1>1. acts = IF Doubts THEN <<ContradictionsFound, DeploymentDoubted>> ELSE <<ContradictionsFound>>
  <2> DEFINE found == Detect(evidence)
  <2>1. acts = << [type |-> "SetContradictions", contradictions |-> found] >>
               \o (IF <<"deploy-after-incident">> \in found
                     THEN << [type |-> "AdjustHypothesis", id |-> "deployment-caused", delta |-> -150] >>
                     ELSE << >>)
    BY DEF Consistency
  <2>2. /\ ContradictionsFound = [type |-> "SetContradictions", contradictions |-> found]
        /\ DeploymentDoubted = [type |-> "AdjustHypothesis", id |-> "deployment-caused", delta |-> -150]
        /\ Doubts <=> <<"deploy-after-incident">> \in found
    BY DEF ContradictionsFound, DeploymentDoubted, Doubts
  <2> HIDE DEF found
  <2>3. acts = <<ContradictionsFound>> \o (IF Doubts THEN <<DeploymentDoubted>> ELSE << >>)
    BY <2>1, <2>2, Zenon
  <2> HIDE DEF acts
  <2>4. <<ContradictionsFound>> \o << >> = <<ContradictionsFound>>
    <3>1. <<ContradictionsFound>> \in Seq({ContradictionsFound})
      OBVIOUS
    <3> QED  BY <3>1, ConcatEmptySeq
  <2>5. <<ContradictionsFound>> \o <<DeploymentDoubted>> = <<ContradictionsFound, DeploymentDoubted>>
    BY OneAndOne
  <2> QED  BY <2>3, <2>4, <2>5, Zenon
<1>2. Taken(work, "consistency") = FoldLeft(Tried, work, acts)
  BY DEF Taken, Analyze
<1> HIDE DEF acts
<1>3. /\ n \in Nat /\ DOMAIN acts = 1 .. n /\ acts[1] = ContradictionsFound
      /\ IF Doubts THEN n = 2 /\ acts[2] = DeploymentDoubted ELSE n = 1
  <2>1. CASE Doubts
    <3>1. acts = <<ContradictionsFound, DeploymentDoubted>>
      BY <1>1, <2>1
    <3> QED  BY <2>1, <3>1
  <2>2. CASE ~Doubts
    <3>1. acts = <<ContradictionsFound>>
      BY <1>1, <2>2
    <3> QED  BY <2>2, <3>1
  <2> QED  BY <2>1, <2>2
<1> HIDE DEF n
<1>4. n = 1 => Trying!FoldLeft(Tried, work, acts) = Tried(work, acts[1])
  BY <1>3, Trying!ShortFolds
<1>5. n = 2 => Trying!FoldLeft(Tried, work, acts) = Tried(Tried(work, acts[1]), acts[2])
  BY <1>3, Trying!ShortFolds
<1>6. CASE Doubts
  BY <1>2, <1>3, <1>5, <1>6, TryingFold
<1>7. CASE ~Doubts
  BY <1>2, <1>3, <1>4, <1>7, TryingFold
<1> QED  BY <1>6, <1>7

LEMMA ReasonersActions ==
  ASSUME IsEvidence(evidence), IsSession(session)
  PROVE  /\ IsProposal(ProgressSeen) /\ IsProposal(LinksSeen) /\ IsProposal(FieldFound)
         /\ IsProposal(CoverageFound) /\ IsProposal(GraphBuilt) /\ IsProposal(LeaderFound)
         /\ IsProposal(ContradictionsFound) /\ IsProposal(DeploymentDoubted)
<1>1. IsProposal(ProgressSeen) /\ IsProposal(LinksSeen)
  <2> DEFINE progress == Progress(evidence, Required(evidence))
  <2>1. progress \in Int
    BY ProgressIsInt
  <2> HIDE DEF progress
  <2> QED  BY <2>1 DEF IsProposal, IsAction, ProgressSeen, LinksSeen, progress
<1>2. IsProposal(FieldFound)
  <2> DEFINE field == Field[evidence]
  <2>1. field = Generate(evidence)
    BY DEF Field, IsEvidence
  <2>2. IsField(field)
    BY <2>1, GenerateIsField DEF IsEvidence
  <2>3. FieldFound = [type |-> "ReplaceHypotheses", hyps |-> field]
    BY DEF FieldFound
  <2> HIDE DEF field
  <2>4. Len(field) \in Nat /\ field = [i \in 1 .. Len(field) |-> field[i]]
    BY <2>2 DEF IsField
  <2>5. field \in Seq(ToSet(field)) /\ \A h \in ToSet(field) : IsHypothesis(h)
    BY <2>2, <2>4, SequenceOf DEF IsField, ToSet
  <2> QED  BY <2>3, <2>5 DEF IsProposal, IsAction
<1>3. IsProposal(CoverageFound)
  <2> DEFINE given == IF DOMAIN session.required = {} THEN Required(evidence) ELSE session.required
             coverage == Coverage(evidence, given)
  <2>1. IsWeights(given)
    BY RequiredWeighed DEF IsSession
  <2>2. CoverageFound = [type |-> "SetCoverage", coverage |-> coverage]
    BY DEF CoverageFound
  <2> HIDE DEF given
  <2>3. coverage \in 0 .. 1000
    BY <2>1, CoverageOnScale DEF IsEvidence
  <2> HIDE DEF coverage
  <2>4. coverage \in Int /\ OnScale(coverage)
    BY <2>3 DEF OnScale
  <2> QED  BY <2>2, <2>4 DEF IsProposal, IsAction
<1>4. IsProposal(GraphBuilt) /\ IsProposal(LeaderFound) /\ IsProposal(DeploymentDoubted)
  BY DEF IsProposal, IsAction, GraphBuilt, LeaderFound, DeploymentDoubted
<1>5. IsProposal(ContradictionsFound)
  <2>1. IsFiniteSet(Detect(evidence))
    BY DetectedFinite DEF IsEvidence
  <2> QED  BY <2>1 DEF IsProposal, IsAction, ContradictionsFound
<1> QED  BY <1>1, <1>2, <1>3, <1>4, <1>5

(* Which parts of the work an action leaves as they are.                   *)
LEMMA ActionFrame ==
  ASSUME NEW work, IsApplying(work), NEW a, NEW new, new = applyOne(work, a)
  PROVE  /\ new.turn = work.turn
         /\ a.type # "SettleQuestion" => new.plan = work.plan
         /\ a.type \notin {"UpdateGraph", "LinkGraphNodes"} =>
              new.graph = work.graph /\ new.session.graph = work.session.graph
         /\ a.type # "MarkInvestigationComplete" =>
              new.session.state = work.session.state /\ new.session.status = work.session.status
         /\ a.type # "SetProgress" => new.session.progress = work.session.progress
<1> DEFINE s == work.session
<1>1. IsSession(s)
  BY DEF IsApplying, IsWork
<1>2. /\ DOMAIN s = {"required", "progress", "hyps", "contradictions", "coverage", "graph",
                     "confidence", "canAnswer", "blocking", "percent", "state", "status"}
      /\ DOMAIN work = {"session", "plan", "graph", "turn"}
  BY <1>1 DEF IsSession, IsApplying, IsWork
<1> HIDE DEF s
<1>3. ASSUME NEW t, new = WithSession(work, t)
      PROVE  new.turn = work.turn /\ new.plan = work.plan /\ new.graph = work.graph /\ new.session = t
  BY <1>2, <1>3 DEF WithSession
<1>4. CASE a.type = "SetProgress"
  <2> DEFINE t == [s EXCEPT !.progress = Clamp(a.progress, 0, 1000)]
  <2>1. new = WithSession(work, t)
    BY <1>2, <1>4 DEF applyOne, WithSession, s
  <2>2. t.graph = s.graph /\ t.state = s.state /\ t.status = s.status
    BY <1>2
  <2> HIDE DEF t
  <2> QED  BY <1>3, <1>4, <2>1, <2>2 DEF s
<1>5. CASE a.type = "SetCoverage"
  <2> DEFINE t == [s EXCEPT !.coverage = a.coverage]
  <2>1. new = WithSession(work, t)
    BY <1>2, <1>5 DEF applyOne, WithSession, s
  <2>2. t.graph = s.graph /\ t.state = s.state /\ t.status = s.status /\ t.progress = s.progress
    BY <1>2
  <2> HIDE DEF t
  <2> QED  BY <1>3, <2>1, <2>2 DEF s
<1>6. CASE a.type = "SetContradictions"
  <2> DEFINE t == [s EXCEPT !.contradictions = a.contradictions]
  <2>1. new = WithSession(work, t)
    BY <1>2, <1>6 DEF applyOne, WithSession, s
  <2>2. t.graph = s.graph /\ t.state = s.state /\ t.status = s.status /\ t.progress = s.progress
    BY <1>2
  <2> HIDE DEF t
  <2> QED  BY <1>3, <2>1, <2>2 DEF s
<1>7. CASE a.type = "MarkContradiction"
  <2> DEFINE t == [s EXCEPT !.contradictions = @ \union {a.contradiction}]
  <2>1. new = WithSession(work, t)
    BY <1>2, <1>7 DEF applyOne, WithSession, s
  <2>2. t.graph = s.graph /\ t.state = s.state /\ t.status = s.status /\ t.progress = s.progress
    BY <1>2
  <2> HIDE DEF t
  <2> QED  BY <1>3, <2>1, <2>2 DEF s
<1>8. CASE a.type = "UpdateGraph"
  <2> DEFINE t == [s EXCEPT !.graph = a.graph]
  <2>1. new = WithSession(work, t)
    BY <1>2, <1>8 DEF applyOne, WithSession, s
  <2>2. t.state = s.state /\ t.status = s.status /\ t.progress = s.progress
    BY <1>2
  <2> HIDE DEF t
  <2> QED  BY <1>3, <1>8, <2>1, <2>2 DEF s
<1>9. CASE a.type = "LinkGraphNodes"
  <2> DEFINE linked == AddEdges(work.graph, Linkable(work.graph, a.edges))
             t == [s EXCEPT !.graph = linked]
  <2>1. new = ApplyLinks(work, a.edges)
    BY <1>9 DEF applyOne
  <2>2. new = work \/ new = [work EXCEPT !.graph = linked, !.session.graph = linked]
    BY <2>1 DEF ApplyLinks
  <2> HIDE DEF linked
  <2>3. t.state = s.state /\ t.status = s.status /\ t.progress = s.progress
    BY <1>2
  <2>4. new = work \/ new = [work EXCEPT !.session = t, !.graph = linked]
    BY <1>2, <2>2 DEF s
  <2> HIDE DEF t
  <2>5. new = work \/ (new.turn = work.turn /\ new.plan = work.plan /\ new.session = t)
    BY <1>2, <2>4
  <2> QED  BY <1>9, <2>3, <2>5 DEF s
<1>10. CASE a.type = "SettleQuestion"
  <2>1. new = [work EXCEPT !.plan.status[a.question] = a.status]
    BY <1>10 DEF applyOne
  <2>2. new.turn = work.turn /\ new.graph = work.graph /\ new.session = work.session
    BY <1>2, <2>1
  <2> QED  BY <1>10, <2>2
<1>11. CASE a.type = "MarkInvestigationComplete"
  <2> DEFINE c == [s EXCEPT !.state = "completed"]
             t == [c EXCEPT !.status = "completed"]
  <2>1. new = WithSession(work, t)
    BY <1>2, <1>11, ZenonT(40) DEF applyOne, WithSession, s
  <2>2. t.graph = s.graph /\ t.progress = s.progress
    BY <1>2
  <2> HIDE DEF t
  <2> QED  BY <1>3, <1>11, <2>1, <2>2 DEF s
<1>12. CASE a.type \notin {"SetProgress", "SetCoverage", "SetContradictions", "MarkContradiction",
                           "UpdateGraph", "LinkGraphNodes", "SettleQuestion",
                           "MarkInvestigationComplete"}
  <2> DEFINE t == [s EXCEPT !.hyps = ApplyToHypotheses(s.hyps, a)]
  <2>1. new = WithSession(work, t)
    BY <1>2, <1>12 DEF applyOne, WithSession, s
  <2>2. t.graph = s.graph /\ t.state = s.state /\ t.status = s.status /\ t.progress = s.progress
    BY <1>2
  <2> HIDE DEF t
  <2> QED  BY <1>3, <2>1, <2>2 DEF s
<1> QED  BY <1>4, <1>5, <1>6, <1>7, <1>8, <1>9, <1>10, <1>11, <1>12

-----------------------------------------------------------------------------
(* A seed lists what it requires; the questions unlocked by a confirmed    *)
(* one depend on nothing else.                                             *)
WellSeeded(seed) ==
  /\ DOMAIN seed.requires \subseteq Nat
  /\ \/ seed.generates = {}
     \/ seed.id = "config-changed" /\ seed.generates = {"pods-restarted"}
     \/ seed.id = "pods-restarted" /\ seed.generates = {"traffic-shifted"}
  /\ seed.id = "pods-restarted" => seed.dependsOn = {"config-changed"}
  /\ seed.id = "traffic-shifted" => seed.dependsOn = {"pods-restarted"}

LEMMA SeedsWellMade ==
  ASSUME NEW seed \in UNION {DefaultRegistry, TimelinePlaybook, BlastRadiusPlaybook}
  PROVE  WellSeeded(seed)
<1>0. /\ \A id, priority, requires, trigger, dependsOn, generates, effects :
           /\ Seed(id, priority, requires, trigger, dependsOn, generates, effects).id = id
           /\ Seed(id, priority, requires, trigger, dependsOn, generates, effects).requires = requires
           /\ Seed(id, priority, requires, trigger, dependsOn, generates, effects).dependsOn = dependsOn
           /\ Seed(id, priority, requires, trigger, dependsOn, generates, effects).generates = generates
      /\ \A id, priority, requires, trigger, effects :
           /\ Triggered(id, priority, requires, trigger, effects).id = id
           /\ Triggered(id, priority, requires, trigger, effects).requires = requires
           /\ Triggered(id, priority, requires, trigger, effects).dependsOn = {}
           /\ Triggered(id, priority, requires, trigger, effects).generates = {}
  BY DEF Seed, Triggered
<1>1. ASSUME NEW s \in DeploymentCaused PROVE WellSeeded(s)
  BY <1>0 DEF DeploymentCaused, WellSeeded
<1>2. ASSUME NEW s \in DatabaseSaturation PROVE WellSeeded(s)
  BY <1>0 DEF DatabaseSaturation, WellSeeded
<1>3. ASSUME NEW s \in LockContention PROVE WellSeeded(s)
  BY <1>0 DEF LockContention, WellSeeded
<1>4. ASSUME NEW s \in ConfigurationChange PROVE WellSeeded(s)
  BY <1>0 DEF ConfigurationChange, WellSeeded
<1>5. ASSUME NEW s \in NetworkFailure PROVE WellSeeded(s)
  BY <1>0 DEF NetworkFailure, WellSeeded
<1>6. ASSUME NEW s \in DNSFailure PROVE WellSeeded(s)
  BY <1>0 DEF DNSFailure, WellSeeded
<1>7. ASSUME NEW s \in CertificateExpiry PROVE WellSeeded(s)
  BY <1>0 DEF CertificateExpiry, WellSeeded
<1>8. ASSUME NEW s \in ResourceExhaustion PROVE WellSeeded(s)
  BY <1>0 DEF ResourceExhaustion, WellSeeded
<1>9. ASSUME NEW s \in RetryStorm PROVE WellSeeded(s)
  BY <1>0 DEF RetryStorm, WellSeeded
<1>10. ASSUME NEW s \in DependencyFailure PROVE WellSeeded(s)
  BY <1>0 DEF DependencyFailure, WellSeeded
<1>11. ASSUME NEW s \in PerformanceRegression PROVE WellSeeded(s)
  BY <1>0 DEF PerformanceRegression, WellSeeded
<1>12. ASSUME NEW s \in ExternalOutage PROVE WellSeeded(s)
  BY <1>0 DEF ExternalOutage, WellSeeded
<1>13. ASSUME NEW s \in AuthFailure PROVE WellSeeded(s)
  BY <1>0 DEF AuthFailure, WellSeeded
<1>14. ASSUME NEW s \in HumanError PROVE WellSeeded(s)
  BY <1>0 DEF HumanError, WellSeeded
<1>15. ASSUME NEW s \in CapacityPlanning PROVE WellSeeded(s)
  BY <1>0 DEF CapacityPlanning, WellSeeded
<1>16. ASSUME NEW s \in SecurityIncident PROVE WellSeeded(s)
  BY <1>0 DEF SecurityIncident, WellSeeded
<1>17. ASSUME NEW s \in InfrastructureFailure PROVE WellSeeded(s)
  BY <1>0 DEF InfrastructureFailure, WellSeeded
<1>18. ASSUME NEW s \in KubernetesFailure PROVE WellSeeded(s)
  BY <1>0 DEF KubernetesFailure, WellSeeded
<1>19. ASSUME NEW s \in ContainerFailure PROVE WellSeeded(s)
  BY <1>0 DEF ContainerFailure, WellSeeded
<1>20. ASSUME NEW s \in StorageFailure PROVE WellSeeded(s)
  BY <1>0 DEF StorageFailure, WellSeeded
<1>21. ASSUME NEW s \in CacheFailure PROVE WellSeeded(s)
  BY <1>0 DEF CacheFailure, WellSeeded
<1>22. ASSUME NEW s \in MessagingFailure PROVE WellSeeded(s)
  BY <1>0 DEF MessagingFailure, WellSeeded
<1>23. ASSUME NEW s \in LoadBalancerFailure PROVE WellSeeded(s)
  BY <1>0 DEF LoadBalancerFailure, WellSeeded
<1>24. ASSUME NEW s \in APIContractFailure PROVE WellSeeded(s)
  BY <1>0 DEF APIContractFailure, WellSeeded
<1>25. ASSUME NEW s \in DataCorruption PROVE WellSeeded(s)
  BY <1>0 DEF DataCorruption, WellSeeded
<1>26. ASSUME NEW s \in ClockFailure PROVE WellSeeded(s)
  BY <1>0 DEF ClockFailure, WellSeeded
<1>27. ASSUME NEW s \in FeatureFlagFailure PROVE WellSeeded(s)
  BY <1>0 DEF FeatureFlagFailure, WellSeeded
<1>28. ASSUME NEW s \in RegionalFailure PROVE WellSeeded(s)
  BY <1>0 DEF RegionalFailure, WellSeeded
<1>29. ASSUME NEW s \in DRFailoverFailure PROVE WellSeeded(s)
  BY <1>0 DEF DRFailoverFailure, WellSeeded
<1>30. ASSUME NEW s \in ObservabilityFailure PROVE WellSeeded(s)
  BY <1>0 DEF ObservabilityFailure, WellSeeded
<1>31. ASSUME NEW s \in TimelinePlaybook PROVE WellSeeded(s)
  BY <1>0 DEF TimelinePlaybook, WellSeeded
<1>32. ASSUME NEW s \in BlastRadiusPlaybook PROVE WellSeeded(s)
  BY <1>0 DEF BlastRadiusPlaybook, WellSeeded
<1>33. CASE seed \in DefaultRegistry
  BY <1>33, <1>1, <1>2, <1>3, <1>4, <1>5, <1>6, <1>7, <1>8, <1>9, <1>10, <1>11, <1>12, <1>13, <1>14, <1>15, <1>16, <1>17, <1>18, <1>19, <1>20, <1>21, <1>22, <1>23, <1>24, <1>25, <1>26, <1>27, <1>28, <1>29, <1>30 DEF DefaultRegistry
<1> QED  BY <1>31, <1>32, <1>33

(* The playbooks the code ships, and no others.                            *)
ShippedPlaybooks == DependsOn = PlaybookDependsOn /\ Generates = PlaybookGenerates

LEMMA SeedOfQuestion ==
  ASSUME NEW q \in Question
  PROVE  /\ Playbooks[q] \in UNION {DefaultRegistry, TimelinePlaybook, BlastRadiusPlaybook}
         /\ Playbooks[q].id = q
<1> DEFINE seeds == DefaultRegistry \union TimelinePlaybook \union BlastRadiusPlaybook
<1>1. Playbooks = ById(seeds)
  BY DEF Playbooks
<1>2. seeds = UNION {DefaultRegistry, TimelinePlaybook, BlastRadiusPlaybook}
  OBVIOUS
<1> HIDE DEF seeds
<1>3. q \in Ids(seeds)
  BY <1>1, ReasoningAssumption DEF ById
<1>4. Playbooks[q] = CHOOSE seed \in seeds : seed.id = q
  BY <1>1, <1>3 DEF ById
<1>5. \E seed \in seeds : seed.id = q
  BY <1>3 DEF Ids
<1> QED  BY <1>2, <1>4, <1>5

LEMMA Lineage ==
  ASSUME ShippedPlaybooks, NEW p \in Question, NEW q \in Generates[p]
  PROVE  DependsOn[q] \subseteq {p}
<1>1. q \in Playbooks[p].generates /\ q \in Question
  BY DEF ShippedPlaybooks, PlaybookGenerates
<1>2. DependsOn[q] \subseteq Playbooks[q].dependsOn
  BY <1>1 DEF ShippedPlaybooks, PlaybookDependsOn
<1>3. WellSeeded(Playbooks[p]) /\ WellSeeded(Playbooks[q])
  BY <1>1, SeedOfQuestion, SeedsWellMade
<1>4. Playbooks[p].id = p /\ Playbooks[q].id = q
  BY <1>1, SeedOfQuestion
<1>5. Playbooks[q].dependsOn = {p}
  BY <1>1, <1>3, <1>4 DEF WellSeeded
<1> QED  BY <1>2, <1>5

-----------------------------------------------------------------------------
(* Whatever is asked, what it depends on is asked.                         *)
DepsAsked(p) == \A q \in Asked(p) : DependsOn[q] \subseteq Asked(p)

LEMMA DepsStayAsked ==
  ASSUME ShippedPlaybooks, NEW p \in Plan, Agree(p), DepsAsked(p), NEW E \in SUBSET Evidence
  PROVE  DepsAsked(AskedAfter(p, E))
<1> DEFINE r == AskedAfter(p, E)
<1>1. r \in Plan /\ Agree(r)
  BY AskedAfterAdvances DEF Advances
<1>2. Asked(p) \subseteq Asked(r)
  BY AskedGrows
<1>3. \A q \in Question : r.status[q] # p.status[q] => Justified(r, q)
  BY AskedJustified
<1> HIDE DEF r
<1>4. ASSUME NEW q \in Asked(r), q \notin Asked(p)
      PROVE  DependsOn[q] \subseteq Asked(r)
  <2>1. q \in Question /\ Justified(r, q)
    BY <1>3, <1>4 DEF Asked
  <2>2. CASE DependenciesMet(r, q)
    BY <2>1, <2>2, PlaybookAssumption DEF DependenciesMet, Asked
  <2>3. ASSUME NEW parent \in Question, q \in GeneratedBy(r, parent)
        PROVE  DependsOn[q] \subseteq Asked(r)
    <3>1. r.resolution[parent] = "confirmed" /\ q \in Generates[parent]
      BY <2>3 DEF GeneratedBy
    <3>2. r.history[parent] # << >>
      BY <1>1, <3>1 DEF Agree
    <3>3. r.status[parent] \in Settled
      BY <1>1, <3>2, LoggedIsSettled
    <3>4. parent \in Asked(r)
      BY <3>3 DEF Asked, Settled
    <3> QED  BY <3>1, <3>4, Lineage
  <2> QED  BY <2>1, <2>2, <2>3 DEF Justified
<1>5. \A q \in Asked(p) : DependsOn[q] \subseteq Asked(r)
  BY <1>2 DEF DepsAsked
<1> QED  BY <1>4, <1>5 DEF DepsAsked, r

LEMMA RequestsAsked ==
  ASSUME NEW p \in Plan, NEW E \in SUBSET Evidence, NEW r \in SyncEvidenceRequests(p, E)
  PROVE  \A request \in r.requests : request.question \in Asked(r)
<1>1. PICK S \in Selections(p, E) :
        r = [p EXCEPT !.requests = {RequestFor(p, E, q) : q \in S}]
  BY DEF SyncEvidenceRequests
<1>2. S \subseteq OpenQuestions(p)
  BY DEF Selections, Lacking
<1>3. r.requests = {RequestFor(p, E, q) : q \in S} /\ r.status = p.status
  BY <1>1 DEF Plan
<1>4. \A q \in S : RequestFor(p, E, q).question = q
  BY DEF RequestFor
<1>5. OpenQuestions(p) \subseteq Asked(r)
  BY <1>3 DEF OpenQuestions, Asked, Open
<1> QED  BY <1>2, <1>3, <1>4, <1>5

-----------------------------------------------------------------------------
(* Evidence in the order of its time.                                      *)
LEMMA FirstIsAmong ==
  ASSUME NEW S \in SUBSET Evidence, IsFiniteSet(S), S # {}
  PROVE  FirstAmong(S) \in S
<1> DEFINE time == [e \in S |-> At[e]]
           T == {At[e] : e \in S}
<1>1. time \in [S -> Int]
  BY SignalsAssumption
<1>2. PICK x \in S : \A y \in S : time[x] <= time[y]
  <2> HIDE DEF time
  <2> QED  BY <1>1, LeastValue
<1>3. At[x] \in T /\ \A e \in S : At[x] <= At[e]
  BY <1>2
<1>4. Earliest(S) \in T
  BY <1>3 DEF Earliest
<1>5. \E e \in S : At[e] = Earliest(S)
  BY <1>4
<1> QED  BY <1>5 DEF FirstAmong

LEMMA FirstOfItsKind ==
  ASSUME NEW S \in SUBSET Evidence, IsFiniteSet(S)
  PROVE  FirstOfKind(S) \subseteq S
  BY FirstIsAmong DEF FirstOfKind

Ordering == INSTANCE Folding WITH Step <- WithNext, Good <- IsListing

LEMMA OrderingFold ==
  ASSUME NEW base, NEW seq
  PROVE  Ordering!FoldLeft(WithNext, base, seq) = FoldLeft(WithNext, base, seq)
  BY DEF FoldLeft, MapThenFoldSet, Max, Ordering!FoldLeft, Ordering!MapThenFoldSet, Ordering!Max

(* All the items, once each.                                               *)
LEMMA OrderListsAll ==
  ASSUME NEW E \in SUBSET Evidence, IsFiniteSet(E)
  PROVE  /\ IsListing(SortedByTime(E))
         /\ ToSet(SortedByTime(E)) = E
         /\ Len(SortedByTime(E)) = Cardinality(E)
<1> DEFINE n == Cardinality(E)
           seq == [i \in 1 .. n |-> E]
           made == Ordering!Made(seq, << >>)
           Listed2(k) == /\ IsListing(made[k]) /\ Len(made[k]) = k
                         /\ ToSet(made[k]) \subseteq E
           Fine == {k \in Nat : k <= n => Listed2(k)}
<1>1. n \in Nat
  BY FS_CardinalityType
<1>2. /\ SortedByTime(E) = FoldLeft(WithNext, << >>, seq)
      /\ DOMAIN seq = 1 .. n /\ \A i \in 1 .. n : seq[i] = E
  BY DEF SortedByTime
<1> HIDE DEF n, seq
<1>3. /\ Ordering!After(seq, << >>)[DOMAIN seq] = made[n]
      /\ made[0] = << >>
      /\ \A k \in 1 .. n : made[k] = WithNext(made[k - 1], seq[k])
  BY <1>1, <1>2, Ordering!FoldSteps
<1>4. SortedByTime(E) = made[n]
  <2>1. Ordering!FoldLeft(WithNext, << >>, seq) = Ordering!After(seq, << >>)[DOMAIN seq]
    BY Ordering!FoldIsAfter
  <2> QED  BY <1>2, <1>3, <2>1, OrderingFold
<1> HIDE DEF made
<1>5. 0 \in Fine
  <2>1. Len(<< >>) = 0 /\ ToSet(<< >>) = {} /\ IsListing(<< >>)
    BY DEF IsListing, IsSequence, ToSet
  <2> QED  BY <1>3, <2>1
<1>6. ASSUME NEW k \in Nat, k \in Fine PROVE k + 1 \in Fine
  <2> SUFFICES ASSUME k + 1 <= n PROVE Listed2(k + 1)
    OBVIOUS
  <2> DEFINE so == made[k]
             left == E \ ToSet(so)
             next == FirstAmong(left)
  <2>1. IsListing(so) /\ Len(so) = k /\ ToSet(so) \subseteq E
    BY <1>1, <1>6
  <2>2. made[k + 1] = Append(so, next)
    <3>1. k + 1 \in 1 .. n /\ (k + 1) - 1 = k
      BY <1>1
    <3> QED  BY <1>2, <1>3, <3>1 DEF WithNext
  <2>3. left \in SUBSET Evidence /\ IsFiniteSet(left)
    BY FS_Subset
  <2>4. left # {}
    <3>1. Cardinality(ToSet(so)) = k
      BY <2>1, ListingCounts
    <3>2. ToSet(so) # E
      BY <1>1, <3>1 DEF n
    <3> QED  BY <2>1, <3>2
  <2> HIDE DEF so
  <2>5. next \in left
    BY <2>3, <2>4, FirstIsAmong
  <2> HIDE DEF next
  <2>6. next \in E /\ next \notin ToSet(so)
    BY <2>5
  <2>7. IsListing(Append(so, next)) /\ Len(Append(so, next)) = k + 1
        /\ ToSet(Append(so, next)) = ToSet(so) \union {next}
    BY <2>1, <2>6, ListingAppended
  <2> QED  BY <2>1, <2>2, <2>6, <2>7
<1>7. Nat \subseteq Fine
  <2> HIDE DEF Fine
  <2> QED  BY <1>5, <1>6, NaturalInduction
<1>8. Listed2(n)
  BY <1>1, <1>7
<1>9. ToSet(made[n]) = E
  <2>1. Cardinality(ToSet(made[n])) = n /\ ToSet(made[n]) \subseteq E
    BY <1>8, ListingCounts
  <2> QED  BY <2>1, FS_Subset DEF n
<1> QED  BY <1>4, <1>8, <1>9 DEF n

LEMMA OrderLinksItems ==
  ASSUME NEW E \in SUBSET Evidence, IsFiniteSet(E), NEW edge \in OccurredBefore(E)
  PROVE  \E x, y \in E : edge = <<Ev(x), Ev(y), "occurred_before">>
<1> DEFINE ordered == SortedByTime(E)
           n == Len(ordered)
<1>1. IsListing(ordered) /\ ToSet(ordered) = E
  BY OrderListsAll
<1>2. OccurredBefore(E) =
        {<<Ev(ordered[i]), Ev(ordered[i + 1]), "occurred_before">> : i \in 1 .. n - 1}
  BY DEF OccurredBefore
<1> HIDE DEF ordered
<1>3. n \in Nat /\ ordered = [i \in 1 .. n |-> ordered[i]]
  BY <1>1 DEF IsListing, IsSequence
<1> HIDE DEF n
<1>4. \A i \in 1 .. n : ordered[i] \in E
  BY <1>1, <1>3 DEF ToSet
<1>5. PICK i \in 1 .. n - 1 : edge = <<Ev(ordered[i]), Ev(ordered[i + 1]), "occurred_before">>
  BY <1>2
<1>6. i \in 1 .. n /\ i + 1 \in 1 .. n
  BY <1>3
<1> QED  BY <1>4, <1>5, <1>6

-----------------------------------------------------------------------------
(* The graph the builder makes.                                            *)
IsGraph(g) == DOMAIN g = {"nodes", "edges"} /\ Dangling(g) = {}

Shows(g, E) == {e \in Evidence : Ev(e) \in g.nodes} = E

LEMMA NodesApart ==
  /\ \A e, f : Ev(e) = Ev(f) => e = f
  /\ \A e, x : Ev(e) # Inv /\ Ev(e) # Svc(x) /\ Ev(e) # Hyp(x) /\ Ev(e) # Qn(x) /\ Ev(e) # Req(x)
  BY DEF Ev, Inv, Svc, Hyp, Qn, Req

LEMMA BuildShows ==
  ASSUME NEW E \in SUBSET Evidence, NEW hyps, NEW p
  PROVE  Shows(Build(E, hyps, p), E)
<1> DEFINE nodes == NodesOf(E, hyps, p)
<1>1. Build(E, hyps, p).nodes = nodes
  BY DEF Build
<1>2. \A e \in Evidence : Ev(e) \in nodes <=> e \in E
  BY NodesApart, Zenon DEF NodesOf
<1> HIDE DEF nodes
<1> QED  BY <1>1, <1>2 DEF Shows

EndsIn(nodes, edge) == edge[1] \in nodes /\ edge[2] \in nodes

LEMMA LinkEndsIn ==
  ASSUME NEW nodes, NEW a \in nodes, NEW b \in nodes, NEW type
  PROVE  EndsIn(nodes, <<a, b, type>>)
<1> DEFINE edge == <<a, b, type>>
<1>1. edge[1] = a /\ edge[2] = b
  OBVIOUS
<1> HIDE DEF edge
<1>2. EndsIn(nodes, edge)
  BY <1>1 DEF EndsIn
<1> QED  BY <1>2 DEF edge

ServedEdges == {<<Inv, Svc(n), "belongs_to">> : n \in {Service} \ {""}}
SubmittedEdges(E) == {<<Inv, Ev(e), "generated">> : e \in E}
ObservedEdges(E) ==
  {<<Ev(e), Svc(EntityOf[e]), "observed_on">> : e \in {x \in E : EntityOf[x] # ""}}
CausedEdges(E) ==
  {<<Ev(d), Ev(s), "causes">> :
     d \in IF DeployBeforeIncident(E) THEN FirstOfKind(Deployments(E)) ELSE {},
     s \in FirstOfKind(Symptoms(E))}
RecoveredEdges(E) ==
  {<<Ev(r), Ev(s), "recovered_by">> :
     r \in FirstOfKind(Recoveries(E)), s \in FirstOfKind(Symptoms(E))}

LEMMA EdgesOfEvidence ==
  ASSUME NEW E
  PROVE  EvidenceEdges(E) =
           ServedEdges \union SubmittedEdges(E) \union ObservedEdges(E)
             \union OccurredBefore(E) \union CausedEdges(E) \union RecoveredEdges(E)
  BY DEF EvidenceEdges, ServedEdges, SubmittedEdges, ObservedEdges, CausedEdges, RecoveredEdges

LEMMA BuildIsGraph ==
  ASSUME NEW E \in SUBSET Evidence, IsFiniteSet(E), NEW hyps, NEW p,
         DepsAsked(p), \A r \in p.requests : r.question \in Asked(p)
  PROVE  IsGraph(Build(E, hyps, p))
<1> DEFINE g == Build(E, hyps, p)
           nodes == NodesOf(E, hyps, p)
<1>1. DOMAIN g = {"nodes", "edges"} /\ g.nodes = nodes
      /\ g.edges = EvidenceEdges(E) \union HypothesisEdges(E, hyps)
                     \union ProtocolEdges(p) \union InferredEdges(E, hyps)
  BY DEF Build
<1>2. /\ Inv \in nodes
      /\ \A e \in E : Ev(e) \in nodes
      /\ \A h \in ToSet(hyps) : Hyp(h.id) \in nodes
      /\ \A q \in Asked(p) : Qn(q) \in nodes
      /\ \A r \in p.requests : Req(r.question) \in nodes
      /\ \A n \in (Named(E) \union {Service}) \ {""} : Svc(n) \in nodes
  BY DEF NodesOf
<1>3. \A e \in E : EntityOf[e] \in Named(E)
  BY DEF Named
<1> HIDE DEF nodes, g
<1>4. \A edge \in OccurredBefore(E) : EndsIn(nodes, edge)
  <2> SUFFICES ASSUME NEW edge \in OccurredBefore(E) PROVE EndsIn(nodes, edge)
    OBVIOUS
  <2>1. PICK x \in E, y \in E : edge = <<Ev(x), Ev(y), "occurred_before">>
    BY OrderLinksItems
  <2>2. Ev(x) \in nodes /\ Ev(y) \in nodes
    BY <1>2
  <2> QED  BY <2>1, <2>2, LinkEndsIn
<1>5. ASSUME NEW edge \in EvidenceEdges(E) PROVE EndsIn(nodes, edge)
  <2>1. FirstOfKind(Deployments(E)) \subseteq E /\ FirstOfKind(Symptoms(E)) \subseteq E
        /\ FirstOfKind(Recoveries(E)) \subseteq E
    <3>1. Deployments(E) \subseteq E /\ Symptoms(E) \subseteq E /\ Recoveries(E) \subseteq E
      BY DEF Deployments, Symptoms, Recoveries
    <3>2. IsFiniteSet(Deployments(E)) /\ IsFiniteSet(Symptoms(E)) /\ IsFiniteSet(Recoveries(E))
      BY <3>1, FS_Subset
    <3>3. ASSUME NEW S, S \subseteq E, IsFiniteSet(S) PROVE FirstOfKind(S) \subseteq E
      BY <3>3, FirstOfItsKind
    <3> QED  BY <3>1, <3>2, <3>3
  <2>0. EvidenceEdges(E) = ServedEdges \union SubmittedEdges(E) \union ObservedEdges(E)
          \union OccurredBefore(E) \union CausedEdges(E) \union RecoveredEdges(E)
    BY EdgesOfEvidence
  <2>2. CASE edge \in ServedEdges
    <3>1. PICK n \in {Service} \ {""} : edge = <<Inv, Svc(n), "belongs_to">>
      BY <2>2 DEF ServedEdges
    <3>2. Inv \in nodes /\ Svc(n) \in nodes
      BY <1>2
    <3> QED  BY <3>1, <3>2, LinkEndsIn
  <2>3. CASE edge \in SubmittedEdges(E)
    BY <1>2, <2>3, LinkEndsIn DEF SubmittedEdges
  <2>4. CASE edge \in ObservedEdges(E)
    BY <1>2, <1>3, <2>4, LinkEndsIn DEF ObservedEdges
  <2>5. CASE edge \in CausedEdges(E)
    <3>1. PICK d \in FirstOfKind(Deployments(E)), s \in FirstOfKind(Symptoms(E)) :
            edge = <<Ev(d), Ev(s), "causes">>
      BY <2>5 DEF CausedEdges
    <3>2. Ev(d) \in nodes /\ Ev(s) \in nodes
      BY <1>2, <2>1
    <3> QED  BY <3>1, <3>2, LinkEndsIn
  <2>6. CASE edge \in RecoveredEdges(E)
    <3>1. PICK r \in FirstOfKind(Recoveries(E)), s \in FirstOfKind(Symptoms(E)) :
            edge = <<Ev(r), Ev(s), "recovered_by">>
      BY <2>6 DEF RecoveredEdges
    <3>2. Ev(r) \in nodes /\ Ev(s) \in nodes
      BY <1>2, <2>1
    <3> QED  BY <3>1, <3>2, LinkEndsIn
  <2> QED  BY <1>4, <2>0, <2>2, <2>3, <2>4, <2>5, <2>6
<1>6. ASSUME NEW edge \in HypothesisEdges(E, hyps) PROVE EndsIn(nodes, edge)
  <2>1. PICK h \in ToSet(hyps) : edge \in {<<Ev(e), Hyp(h.id), "supports">> : e \in h.support \intersect E}
    BY DEF HypothesisEdges
  <2>2. PICK e \in h.support \intersect E : edge = <<Ev(e), Hyp(h.id), "supports">>
    BY <2>1
  <2>3. Ev(e) \in nodes /\ Hyp(h.id) \in nodes
    BY <1>2
  <2> QED  BY <2>2, <2>3, LinkEndsIn
<1>7. ASSUME NEW edge \in ProtocolEdges(p) PROVE EndsIn(nodes, edge)
  <2> DEFINE listed == {<<Inv, Qn(q), "generated">> : q \in Asked(p)}
             dependent == UNION {{<<Qn(d), Qn(q), "depends_on">> : d \in DependsOn[q]} : q \in Asked(p)}
             requested == {<<Qn(r.question), Req(r.question), "requests">> : r \in p.requests}
  <2>0. ProtocolEdges(p) = listed \union dependent \union requested
    BY DEF ProtocolEdges
  <2>1. CASE edge \in listed
    <3>1. PICK q \in Asked(p) : edge = <<Inv, Qn(q), "generated">>
      BY <2>1
    <3>2. Inv \in nodes /\ Qn(q) \in nodes
      BY <1>2
    <3> QED  BY <3>1, <3>2, LinkEndsIn
  <2>2. CASE edge \in dependent
    <3>1. PICK q \in Asked(p) : edge \in {<<Qn(d), Qn(q), "depends_on">> : d \in DependsOn[q]}
      BY <2>2
    <3>2. PICK d \in DependsOn[q] : edge = <<Qn(d), Qn(q), "depends_on">>
      BY <3>1
    <3>3. Qn(d) \in nodes /\ Qn(q) \in nodes
      BY <1>2 DEF DepsAsked
    <3> QED  BY <3>2, <3>3, LinkEndsIn
  <2>3. CASE edge \in requested
    <3>1. PICK r \in p.requests : edge = <<Qn(r.question), Req(r.question), "requests">>
      BY <2>3
    <3>2. Qn(r.question) \in nodes /\ Req(r.question) \in nodes
      BY <1>2
    <3> QED  BY <3>1, <3>2, LinkEndsIn
  <2> HIDE DEF listed, dependent, requested
  <2> QED  BY <2>0, <2>1, <2>2, <2>3
<1>8. ASSUME NEW edge \in InferredEdges(E, hyps) PROVE EndsIn(nodes, edge)
  <2>1. CASE edge \in {<<e[1], e[2], "correlates_with">> : e \in OccurredBefore(E)}
    <3>1. PICK e \in OccurredBefore(E) : edge = <<e[1], e[2], "correlates_with">>
      BY <2>1
    <3>2. e[1] \in nodes /\ e[2] \in nodes
      BY <1>4 DEF EndsIn
    <3> QED  BY <3>1, <3>2, LinkEndsIn
  <2>2. CASE edge \in {<<Ev(e), Hyp(h.id), "correlates_with">> :
               e \in IF "database" \in Keywords(E) THEN OfCategory(E, "database_events") ELSE {},
               h \in ToSet(hyps)}
    <3>1. OfCategory(E, "database_events") \subseteq E
      BY DEF OfCategory
    <3>2. PICK e \in OfCategory(E, "database_events"), h \in ToSet(hyps) :
            edge = <<Ev(e), Hyp(h.id), "correlates_with">>
      BY <2>2
    <3>3. Ev(e) \in nodes /\ Hyp(h.id) \in nodes
      BY <1>2, <3>1
    <3> QED  BY <3>2, <3>3, LinkEndsIn
  <2> QED  BY <2>1, <2>2 DEF InferredEdges
<1>9. \A edge \in g.edges : EndsIn(nodes, edge)
  BY <1>1, <1>5, <1>6, <1>7, <1>8
<1>10. Dangling(g) = {}
  BY <1>1, <1>9 DEF Dangling, EndsIn
<1> QED  BY <1>1, <1>10 DEF IsGraph, g

-----------------------------------------------------------------------------
(* What a recompute does to the graph, reasoner by reasoner.               *)

(* The prompt has no field for a graph: an answer never holds one.         *)
HostDrawsNoGraph == \A said \in Answers : \A a \in ToSet(said) : a.type # "UpdateGraph"

HoldsGraphs(work) == IsGraph(work.graph) /\ IsGraph(work.session.graph)

FaithfulGraph(g) ==
  /\ IsGraph(g)
  /\ Shows(g, evidence) \/ "LinkGraphNodes" \in {a.type : a \in ToSet(answer)}

IsFaithful(work) ==
  IsApplying(work) /\ IsGraph(work.graph) /\ FaithfulGraph(work.session.graph)

LEMMA WorkDomains ==
  ASSUME NEW work, IsApplying(work)
  PROVE  /\ DOMAIN work = {"session", "plan", "graph", "turn"}
         /\ DOMAIN work.session =
              {"required", "progress", "hyps", "contradictions", "coverage", "graph",
               "confidence", "canAnswer", "blocking", "percent", "state", "status"}
<1>1. IsSession(work.session)
  BY DEF IsApplying, IsWork
<1> QED  BY <1>1 DEF IsApplying, IsWork, IsSession

LEMMA LinkedIsGraph ==
  ASSUME NEW g, IsGraph(g), NEW edges
  PROVE  IsGraph(AddEdges(g, Linkable(g, edges)))
<1> DEFINE more == Linkable(g, edges)
           linked == AddEdges(g, more)
<1>1. \A edge \in more : {edge[1], edge[2]} \subseteq g.nodes
  BY DEF Linkable
<1> HIDE DEF more
<1>2. DOMAIN linked = {"nodes", "edges"} /\ linked.nodes = g.nodes /\ linked.edges = g.edges \union more
  BY DEF AddEdges, IsGraph
<1> HIDE DEF linked
<1>3. \A edge \in g.edges : {edge[1], edge[2]} \subseteq g.nodes
  BY DEF IsGraph, Dangling
<1>4. Dangling(linked) = {}
  BY <1>1, <1>2, <1>3 DEF Dangling
<1>5. IsGraph(linked)
  BY <1>2, <1>4 DEF IsGraph
<1> QED  BY <1>5 DEF linked, more

LEMMA LinksFrame ==
  ASSUME NEW work, IsApplying(work), HoldsGraphs(work), NEW edges
  PROVE  HoldsGraphs(ApplyLinks(work, edges))
<1> DEFINE linked == AddEdges(work.graph, Linkable(work.graph, edges))
           s == [work.session EXCEPT !.graph = linked]
           new == ApplyLinks(work, edges)
<1>1. IsGraph(linked)
  BY LinkedIsGraph DEF HoldsGraphs
<1>2. new = work \/ new = [work EXCEPT !.graph = linked, !.session.graph = linked]
  BY DEF ApplyLinks
<1> HIDE DEF linked
<1>3. new = work \/ new = WithGraph(work, s, linked)
  BY <1>2 DEF IsApplying, IsWork, WithGraph
<1>4. s.graph = linked
  BY DEF IsApplying, IsWork, IsSession
<1> HIDE DEF s
<1>5. WithGraph(work, s, linked).graph = linked /\ WithGraph(work, s, linked).session = s
  BY DEF IsApplying, IsWork, WithGraph
<1> QED  BY <1>1, <1>3, <1>4, <1>5 DEF HoldsGraphs

LEMMA TriedKeepsGraphs ==
  ASSUME NEW work, IsApplying(work), HoldsGraphs(work), NEW a, IsProposal(a),
         a.type # "UpdateGraph"
  PROVE  LET new == Tried(work, a) IN
         /\ IsApplying(new) /\ HoldsGraphs(new)
         /\ a.type # "LinkGraphNodes" => new.session.graph = work.session.graph
<1> DEFINE new == Tried(work, a)
           made == applyOne(work, a)
<1>1. IsApplying(new)
  BY TriedApplies
<1>2. new = work \/ new = made
  BY DEF Tried
<1> HIDE DEF new
<1>3. a.type = "LinkGraphNodes" => HoldsGraphs(made)
  BY LinksFrame DEF applyOne
<1>4. a.type # "LinkGraphNodes" => made.graph = work.graph /\ made.session.graph = work.session.graph
  BY ActionFrame
<1> HIDE DEF made
<1>5. a.type # "LinkGraphNodes" => HoldsGraphs(made)
  BY <1>4 DEF HoldsGraphs
<1> QED  BY <1>1, <1>2, <1>3, <1>4, <1>5 DEF new

LEMMA TemporalKeepsGraphs ==
  ASSUME IsEvidence(evidence), IsSession(session), NEW work, IsApplying(work), HoldsGraphs(work)
  PROVE  IsApplying(Taken(work, "temporal")) /\ HoldsGraphs(Taken(work, "temporal"))
<1> DEFINE a == ProgressSeen
           b == LinksSeen
           one == Tried(work, a)
           two == Tried(one, b)
<1>1. a.type # "UpdateGraph" /\ b.type # "UpdateGraph" /\ IsProposal(a) /\ IsProposal(b)
  BY ReasonersActions DEF ProgressSeen, LinksSeen
<1>2. Taken(work, "temporal") = two
  BY TemporalTaken
<1> HIDE DEF a, b
<1>3. IsApplying(one) /\ HoldsGraphs(one)
  BY <1>1, TriedKeepsGraphs
<1> HIDE DEF one
<1>4. IsApplying(two) /\ HoldsGraphs(two)
  BY <1>1, <1>3, TriedKeepsGraphs
<1> QED  BY <1>2, <1>4

LEMMA HypothesisShows ==
  ASSUME IsEvidence(evidence), IsSession(session), DepsAsked(plan),
         \A r \in plan.requests : r.question \in Asked(plan),
         NEW work, IsApplying(work), HoldsGraphs(work)
  PROVE  LET new == Taken(work, "hypothesis") IN
         IsApplying(new) /\ HoldsGraphs(new) /\ Shows(new.session.graph, evidence)
<1> DEFINE a == FieldFound
           b == CoverageFound
           c == GraphBuilt
           d == LeaderFound
           one == Tried(work, a)
           two == Tried(one, b)
           three == Tried(two, c)
           four == Tried(three, d)
           graph == Build(evidence, session.hyps, plan)
<1>1. /\ {a.type, b.type, d.type} \intersect {"UpdateGraph", "LinkGraphNodes"} = {}
      /\ c.type = "UpdateGraph" /\ c.graph = graph
      /\ IsProposal(a) /\ IsProposal(b) /\ IsProposal(c) /\ IsProposal(d)
  BY ReasonersActions DEF FieldFound, CoverageFound, GraphBuilt, LeaderFound
<1>2. Taken(work, "hypothesis") = three \/ Taken(work, "hypothesis") = four
  BY HypothesisTaken DEF WithFound
<1>3. IsGraph(graph) /\ Shows(graph, evidence)
  BY BuildIsGraph, BuildShows DEF IsEvidence
<1> HIDE DEF a, b, c, d, graph
<1>4. IsApplying(one) /\ HoldsGraphs(one)
  BY <1>1, TriedKeepsGraphs
<1> HIDE DEF one
<1>5. IsApplying(two) /\ HoldsGraphs(two)
  BY <1>1, <1>4, TriedKeepsGraphs
<1> HIDE DEF two
<1>6. IsApplying(three) /\ three.graph = two.graph /\ three.session.graph = graph
  <2> DEFINE s == two.session
             t == [s EXCEPT !.graph = graph]
  <2>0. /\ DOMAIN s = {"required", "progress", "hyps", "contradictions", "coverage", "graph",
                       "confidence", "canAnswer", "blocking", "percent", "state", "status"}
        /\ DOMAIN two = {"session", "plan", "graph", "turn"}
    BY <1>5, WorkDomains
  <2>1. Validate(two, c)
    BY <1>1 DEF Validate
  <2>2. three = WithSession(two, t)
    <3>1. three = applyOne(two, c)
      BY <2>1 DEF Tried
    <3>2. c.type = "UpdateGraph" /\ t = [s EXCEPT !.graph = c.graph]
      BY <1>1
    <3>3. applyOne(two, c) = [two EXCEPT !.session.graph = c.graph]
      BY <3>2 DEF applyOne
    <3> HIDE DEF t, s
    <3>4. applyOne(two, c) = [two EXCEPT !.session = t]
      BY <2>0, <3>2, <3>3 DEF s
    <3> QED  BY <3>1, <3>4 DEF WithSession
  <2>3. t.graph = graph
    BY <2>0
  <2> HIDE DEF t
  <2>4. WithSession(two, t).session = t /\ WithSession(two, t).graph = two.graph
    BY <2>0 DEF WithSession
  <2>5. IsApplying(three)
    BY <1>1, <1>5, TriedApplies
  <2> QED  BY <2>2, <2>3, <2>4, <2>5
<1>7. HoldsGraphs(three) /\ Shows(three.session.graph, evidence)
  BY <1>3, <1>5, <1>6 DEF HoldsGraphs
<1> HIDE DEF three
<1>8. IsApplying(four) /\ HoldsGraphs(four) /\ four.session.graph = three.session.graph
  BY <1>1, <1>6, <1>7, TriedKeepsGraphs
<1> HIDE DEF four
<1> QED  BY <1>2, <1>6, <1>7, <1>8

LEMMA ConsistencyKeepsGraphs ==
  ASSUME IsEvidence(evidence), IsSession(session),
         NEW work, IsApplying(work), HoldsGraphs(work)
  PROVE  LET new == Taken(work, "consistency") IN
         IsApplying(new) /\ HoldsGraphs(new) /\ new.session.graph = work.session.graph
<1> DEFINE a == ContradictionsFound
           b == DeploymentDoubted
           one == Tried(work, a)
           two == Tried(one, b)
<1>1. /\ {a.type, b.type} \intersect {"UpdateGraph", "LinkGraphNodes"} = {}
      /\ IsProposal(a) /\ IsProposal(b)
  BY ReasonersActions DEF ContradictionsFound, DeploymentDoubted
<1>2. Taken(work, "consistency") = one \/ Taken(work, "consistency") = two
  BY ConsistencyTaken
<1> HIDE DEF a, b
<1>3. IsApplying(one) /\ HoldsGraphs(one) /\ one.session.graph = work.session.graph
  BY <1>1, TriedKeepsGraphs
<1> HIDE DEF one
<1>4. IsApplying(two) /\ HoldsGraphs(two) /\ two.session.graph = one.session.graph
  BY <1>1, <1>3, TriedKeepsGraphs
<1> QED  BY <1>2, <1>3, <1>4

Drawing == INSTANCE Folding WITH Step <- Tried, Good <- IsFaithful

LEMMA DrawingFold ==
  ASSUME NEW work, NEW acts
  PROVE  Drawing!FoldLeft(Tried, work, acts) = FoldLeft(Tried, work, acts)
  BY DEF FoldLeft, MapThenFoldSet, Max, Drawing!FoldLeft, Drawing!MapThenFoldSet, Drawing!Max

LEMMA SemanticKeepsFaithful ==
  ASSUME HostDrawsNoGraph, IsEvidence(evidence), IsSession(session), answer \in Answers,
         NEW work, IsFaithful(work)
  PROVE  IsFaithful(Taken(work, "semantic"))
<1> DEFINE acts == answer
           n == Len(acts)
<1>1. AreProposals(acts)
  <2>1. "semantic" \in DOMAIN reasonerPriority /\ Analyze("semantic") = answer
    BY DEF reasonerPriority, Analyze
  <2>2. AreProposals(Analyze("semantic"))
    BY <2>1, ReasonersPropose
  <2> QED  BY <2>1, <2>2
<1>2. Taken(work, "semantic") = FoldLeft(Tried, work, acts)
  BY DEF Taken, Analyze
<1>3. n \in Nat /\ DOMAIN acts = 1 .. n
  BY <1>1 DEF AreProposals, IsSequence
<1>4. \A i \in 1 .. n : IsProposal(acts[i]) /\ acts[i] \in ToSet(answer)
  BY <1>1, <1>3 DEF AreProposals, ToSet
<1> HIDE DEF acts, n
<1>5. ASSUME NEW w, NEW i \in 1 .. n, IsFaithful(w) PROVE IsFaithful(Tried(w, acts[i]))
  <2> DEFINE a == acts[i]
             new == Tried(w, a)
  <2>1. IsProposal(a) /\ a.type # "UpdateGraph" /\ a.type \in {x.type : x \in ToSet(answer)}
    BY <1>4 DEF HostDrawsNoGraph
  <2> HIDE DEF a
  <2>2. IsApplying(w) /\ HoldsGraphs(w)
    BY <1>5 DEF IsFaithful, FaithfulGraph, HoldsGraphs
  <2>3. IsApplying(new) /\ HoldsGraphs(new)
        /\ (a.type # "LinkGraphNodes" => new.session.graph = w.session.graph)
    BY <2>1, <2>2, TriedKeepsGraphs
  <2> HIDE DEF new
  <2>4. Shows(new.session.graph, evidence) \/ "LinkGraphNodes" \in {x.type : x \in ToSet(answer)}
    BY <1>5, <2>1, <2>3 DEF IsFaithful, FaithfulGraph
  <2>5. IsFaithful(new)
    BY <2>3, <2>4 DEF IsFaithful, FaithfulGraph, HoldsGraphs
  <2> QED  BY <2>5 DEF new, a
<1>6. IsFaithful(Drawing!FoldLeft(Tried, work, acts))
  BY <1>3, <1>5, Drawing!FoldKeeps
<1> QED  BY <1>2, <1>6, DrawingFold

LEMMA AppliedFaithful ==
  ASSUME HostDrawsNoGraph, IsEvidence(evidence), IsSession(session), answer \in Answers,
         DepsAsked(plan), \A r \in plan.requests : r.question \in Asked(plan),
         NEW work, IsApplying(work), HoldsGraphs(work), NEW merged, InOrder(merged)
  PROVE  IsFaithful(Applied(work, merged))
<1> DEFINE one == Taken(work, "temporal")
           two == Taken(one, "hypothesis")
           three == Taken(two, "consistency")
           four == Taken(three, "semantic")
<1>1. Applied(work, merged) = four
  BY AppliedInOrder
<1>2. IsApplying(one) /\ HoldsGraphs(one)
  BY TemporalKeepsGraphs
<1> HIDE DEF one
<1>3. IsApplying(two) /\ HoldsGraphs(two) /\ Shows(two.session.graph, evidence)
  BY <1>2, HypothesisShows
<1> HIDE DEF two
<1>4. IsApplying(three) /\ HoldsGraphs(three) /\ Shows(three.session.graph, evidence)
  BY <1>3, ConsistencyKeepsGraphs
<1> HIDE DEF three
<1>5. IsFaithful(three)
  BY <1>4 DEF IsFaithful, FaithfulGraph, HoldsGraphs
<1> QED  BY <1>1, <1>5, SemanticKeepsFaithful

LEMMA ReasonListed ==
  ASSUME IsListing(results), NEW reasoner, Reason(reasoner)
  PROVE  IsListing(results')
<1>1. reasoner \notin ToSet(results) /\ results' = Append(results, reasoner)
  BY DEF Reason, Due
<1> QED  BY <1>1, ListingAppended

LEMMA MergeListed ==
  ASSUME AreResults(results), IsListing(results), Merge
  PROVE  IsListing(results') /\ InOrder(results')
<1>1. Unconditional \subseteq ToSet(results)
  BY DEF Merge, Due, Supporting, Unconditional, reasonerPriority
<1> QED  BY <1>1, ResultsSorted, MergedInOrder DEF Merge

-----------------------------------------------------------------------------
(* The invariant of the graph.                                             *)
PlanLinks(p) == DepsAsked(p) /\ \A r \in p.requests : r.question \in Asked(p)

GraphInv ==
  /\ PlanLinks(plan)
  /\ IsGraph(session.graph)
  /\ IsListing(results)
  /\ phase = "applying" => InOrder(results)
  /\ phase \in {"asking", "resolving", "following", "concluding"} =>
       DepsAsked(draft.plan) /\ FaithfulGraph(draft.session.graph)
  /\ phase = "idle" => FaithfulGraph(session.graph)

LEMMA InitGraph == Init => GraphInv
<1> SUFFICES ASSUME Init PROVE GraphInv
  OBVIOUS
<1>1. Asked(plan) = {} /\ plan.requests = {}
  BY DEF Init, EmptyPlan, Asked
<1>2. IsGraph(NewInvestigationGraph)
  BY DEF NewInvestigationGraph, IsGraph, Dangling
<1>3. session.graph = NewInvestigationGraph
  BY DEF Init, NewSession
<1>4. IsListing(<< >>)
  BY DEF IsListing, IsSequence
<1>5. results = << >> /\ phase = "reasoning"
  BY DEF Init
<1> QED  BY <1>1, <1>2, <1>3, <1>4, <1>5 DEF GraphInv, PlanLinks, DepsAsked

LEMMA ReasonKeepsGraph ==
  ASSUME GraphInv, NEW reasoner \in DOMAIN reasonerPriority, Reason(reasoner)
  PROVE  GraphInv'
<1>1. IsListing(results')
  BY ReasonListed DEF GraphInv
<1>2. phase = "reasoning" /\ UNCHANGED <<evidence, session, plan, phase, draft>>
  BY DEF Reason
<1> QED  BY <1>1, <1>2 DEF GraphInv, PlanLinks, DepsAsked

LEMMA MergeKeepsGraph ==
  ASSUME CycleInv, GraphInv, Merge
  PROVE  GraphInv'
<1>1. IsListing(results') /\ InOrder(results')
  BY MergeListed DEF CycleInv, GraphInv
<1>2. phase' = "applying" /\ UNCHANGED <<evidence, session, plan, draft, answer>>
  BY DEF Merge
<1> QED  BY <1>1, <1>2 DEF GraphInv, PlanLinks, DepsAsked

LEMMA DraftHoldsGraphs ==
  ASSUME CycleInv, GraphInv
  PROVE  HoldsGraphs(Draft)
<1> DEFINE x == IF session.state = "completed" THEN session.state ELSE "reasoning"
           s == Begun(session)
<1>1. s = [session EXCEPT !.state = x]
  BY DEF Begun
<1>2. IsSession(session) /\ IsGraph(session.graph)
  BY DEF CycleInv, GraphInv
<1> HIDE DEF x
<1>3. s.graph = session.graph
  BY <1>1, <1>2 DEF IsSession
<1>4. Draft.session = s /\ Draft.graph = session.graph
  BY DEF Draft
<1> QED  BY <1>2, <1>3, <1>4 DEF HoldsGraphs

LEMMA ApplyKeepsGraph ==
  ASSUME HostDrawsNoGraph, CycleInv, GraphInv, Apply
  PROVE  GraphInv'
<1>1. /\ phase = "applying" /\ phase' = "asking" /\ results' = << >>
      /\ draft' = Applied(Draft, results)
      /\ UNCHANGED <<evidence, session, plan, answer>>
  BY DEF Apply
<1>2. /\ IsEvidence(evidence) /\ IsSession(session) /\ answer \in Answers
      /\ PlanLinks(plan) /\ InOrder(results)
  BY <1>1 DEF CycleInv, GraphInv
<1>3. IsFaithful(draft')
  BY <1>1, <1>2, BegunApplies, DraftHoldsGraphs, AppliedFaithful DEF PlanLinks
<1>4. Asked(draft'.plan) = Asked(plan) /\ FaithfulGraph(draft'.session.graph)
  BY <1>3 DEF IsFaithful, IsApplying
<1>5. IsListing(<< >>)
  BY DEF IsListing, IsSequence
<1>6. FaithfulGraph(draft'.session.graph) = FaithfulGraph(draft.session.graph)'
  BY <1>1 DEF FaithfulGraph
<1> QED  BY <1>1, <1>4, <1>5, <1>6 DEF GraphInv, PlanLinks, DepsAsked

LEMMA AskKeepsGraph ==
  ASSUME ShippedPlaybooks, CycleInv, GraphInv, Ask
  PROVE  GraphInv'
<1> DEFINE p == draft.plan
           after == AskedAfter(p, evidence)
<1>1. /\ phase \in {"asking", "following"} /\ phase' \in {"resolving", "concluding"}
      /\ UNCHANGED <<evidence, session, plan, results, answer>>
      /\ draft' = [draft EXCEPT !.plan = after]
  BY DEF Ask
<1>2. IsWork(draft) /\ evidence \in SUBSET Evidence
  BY <1>1 DEF CycleInv, IsEvidence
<1>3. DepsAsked(p) /\ FaithfulGraph(draft.session.graph)
  BY <1>1 DEF GraphInv
<1>4. p \in Plan /\ Agree(p)
  BY <1>2 DEF IsWork
<1> HIDE DEF p
<1>5. DepsAsked(after)
  BY <1>2, <1>3, <1>4, DepsStayAsked
<1> HIDE DEF after
<1>6. draft'.plan = after /\ draft'.session = draft.session
  BY <1>1, <1>2 DEF IsWork
<1>7. FaithfulGraph(draft.session.graph)'
  BY <1>1, <1>3, <1>6 DEF FaithfulGraph
<1>8. DepsAsked(draft'.plan)
  BY <1>5, <1>6
<1> QED  BY <1>1, <1>7, <1>8 DEF GraphInv, PlanLinks, DepsAsked

LEMMA ResolveKeepsGraph ==
  ASSUME CycleInv, GraphInv, ResolveTurn
  PROVE  GraphInv'
<1> DEFINE p == draft.plan
           s == draft.session
           after == ResolveQuestions(p, evidence)
           hyps == applyPlaybookEffects(s.hyps, p, Resolved(p, order))
           Q == ToSet(Resolved(p, order))
           t == [s EXCEPT !.hyps = hyps]
<1>1. /\ phase = "resolving" /\ phase' = "following"
      /\ UNCHANGED <<evidence, session, plan, results, answer>>
  BY DEF ResolveTurn
<1>2. IsWork(draft) /\ evidence \in SUBSET Evidence
  BY <1>1 DEF CycleInv, IsEvidence
<1>3. DepsAsked(p) /\ FaithfulGraph(s.graph)
  BY <1>1 DEF GraphInv
<1>4. draft' = [draft EXCEPT !.plan = after, !.session = t, !.turn = Q]
  BY <1>2 DEF ResolveTurn, IsWork
<1>5. p \in Plan /\ Agree(p) /\ IsSession(s)
  BY <1>2 DEF IsWork
<1> HIDE DEF p, hyps, Q
<1>6. Asked(after) = Asked(p)
  BY <1>2, <1>5, ResolvingAsked
<1> HIDE DEF after
<1>7. t.graph = s.graph
  BY <1>5 DEF IsSession
<1> HIDE DEF t
<1>8. draft'.plan = after /\ draft'.session = t
  BY <1>2, <1>4 DEF IsWork
<1> HIDE DEF s
<1>9. draft'.session.graph = s.graph
  BY <1>7, <1>8
<1>10. FaithfulGraph(draft.session.graph)'
  BY <1>1, <1>3, <1>9 DEF FaithfulGraph
<1>11. DepsAsked(draft'.plan)
  BY <1>3, <1>6, <1>8 DEF DepsAsked
<1> QED  BY <1>1, <1>10, <1>11 DEF GraphInv, PlanLinks, DepsAsked

(* Scoring a session leaves what it scores as it is.                       *)
LEMMA AssessedFrame ==
  ASSUME NEW s, IsSession(s), NEW required
  PROVE  LET r == Assessed(s, required) IN
         /\ r.graph = s.graph /\ r.hyps = s.hyps /\ r.progress = s.progress
         /\ r.coverage = s.coverage /\ r.contradictions = s.contradictions
         /\ r.required = required
<1> DEFINE confidence == Score(evidence, s.hyps, s.contradictions, s.progress)
           blocking == BlockingQuestions(evidence, s.hyps)
           canAnswer == Evaluate(evidence, s.hyps, s.contradictions, confidence, s.coverage)
           percent == InvestigationProgress(evidence, required, s.coverage, confidence, blocking)
           one == JudgedAs(s, required, confidence, blocking, canAnswer, percent)
           x == Transition(one)
           two == [one EXCEPT !.state = x]
           y == deriveStatus(two)
           three == [two EXCEPT !.status = y]
           Same(r) == /\ DOMAIN r = DOMAIN s
                      /\ r.graph = s.graph /\ r.hyps = s.hyps /\ r.progress = s.progress
                      /\ r.coverage = s.coverage /\ r.contradictions = s.contradictions
                      /\ r.required = required
<1>1. Assessed(s, required) = three
  BY DEF Assessed, Judged, InState, WithStatus, JudgedAs
<1>2. DOMAIN s = {"required", "progress", "hyps", "contradictions", "coverage", "graph",
                  "confidence", "canAnswer", "blocking", "percent", "state", "status"}
  BY DEF IsSession
<1> HIDE DEF confidence, blocking, canAnswer, percent
<1>3. Same(one)
  BY <1>2 DEF JudgedAs
<1> HIDE DEF one, x
<1>4. Same(two)
  BY <1>2, <1>3
<1> HIDE DEF two, y
<1>5. Same(three)
  BY <1>2, <1>4
<1> QED  BY <1>1, <1>5

LEMMA ConcludeKeepsGraph ==
  ASSUME CycleInv, GraphInv, Conclude
  PROVE  GraphInv'
<1> DEFINE p == draft.plan
           s == draft.session
           required == Heaviest(protocolToLegacyRequests(plan'))
<1>1. /\ phase = "concluding" /\ phase' = "idle"
      /\ plan' \in SyncEvidenceRequests(p, evidence)
      /\ UNCHANGED <<evidence, results, answer>>
  BY DEF Conclude
<1>2. session' = Assessed(s, required)
  BY DEF Conclude
<1>3. IsWork(draft) /\ evidence \in SUBSET Evidence
  BY <1>1 DEF CycleInv, IsEvidence
<1>4. DepsAsked(p) /\ FaithfulGraph(s.graph)
  BY <1>1 DEF GraphInv
<1>5. p \in Plan /\ IsSession(s)
  BY <1>3 DEF IsWork
<1> HIDE DEF p, s, required
<1>6. plan'.status = p.status
  BY <1>1, <1>3, <1>5, SyncKeeps
<1>7. Asked(plan') = Asked(p)
  BY <1>6 DEF Asked
<1>8. \A r \in plan'.requests : r.question \in Asked(plan')
  BY <1>1, <1>3, <1>5, RequestsAsked
<1>9. PlanLinks(plan')
  BY <1>4, <1>7, <1>8 DEF PlanLinks, DepsAsked
<1>10. session'.graph = s.graph
  BY <1>2, <1>5, AssessedFrame
<1>11. FaithfulGraph(session.graph)' /\ IsGraph(session'.graph)
  BY <1>1, <1>4, <1>10 DEF FaithfulGraph
<1> QED  BY <1>1, <1>9, <1>11 DEF GraphInv, PlanLinks, DepsAsked

LEMMA NextGraph ==
  ASSUME HostDrawsNoGraph, ShippedPlaybooks, CycleInv, GraphInv, [Next]_vars
  PROVE  GraphInv'
<1>1. ASSUME NEW E, Recompute(E) PROVE GraphInv'
  BY <1>1 DEF GraphInv, Recompute, PlanLinks, DepsAsked
<1>2. CASE \E batch \in Batches : Submit(batch)
  BY <1>1, <1>2 DEF Submit
<1>3. CASE Get
  BY <1>1, <1>3 DEF Get
<1>4. ASSUME NEW reasoner \in DOMAIN reasonerPriority, Reason(reasoner) PROVE GraphInv'
  BY <1>4, ReasonKeepsGraph
<1>5. CASE Merge
  BY <1>5, MergeKeepsGraph
<1>6. CASE Apply
  BY <1>6, ApplyKeepsGraph
<1>7. CASE Ask
  BY <1>7, AskKeepsGraph
<1>8. CASE ResolveTurn
  BY <1>8, ResolveKeepsGraph
<1>9. CASE Conclude
  BY <1>9, ConcludeKeepsGraph
<1>10. CASE UNCHANGED vars
  BY <1>10 DEF GraphInv, PlanLinks, DepsAsked, FaithfulGraph, vars
<1> QED  BY <1>2, <1>3, <1>4, <1>5, <1>6, <1>7, <1>8, <1>9, <1>10 DEF Next

-----------------------------------------------------------------------------
(* The runtime's own protocol engine is this one.                          *)
LEMMA SameAsking ==
  ASSUME NEW p, NEW E
  PROVE  Runtime!AskedAfter(p, E) = AskedAfter(p, E)
  BY DEF Runtime!AskedAfter, AskedAfter, Runtime!GenerateDynamicQuestions, GenerateDynamicQuestions,
         Runtime!EnsureQuestions, EnsureQuestions, Runtime!Admit, Admit,
         Runtime!DependenciesMet, DependenciesMet, Runtime!GeneratedBy, GeneratedBy

LEMMA SameResolving ==
  ASSUME NEW p, NEW E
  PROVE  Runtime!ResolveQuestions(p, E) = ResolveQuestions(p, E)
  BY DEF Runtime!ResolveQuestions, ResolveQuestions, Runtime!Conclusive, Conclusive,
         Runtime!Resolve, Resolve, Runtime!StatusFor, StatusFor, Runtime!PartialStatus, PartialStatus,
         Runtime!Needs, Needs, Runtime!MissingCategories, MissingCategories,
         Runtime!HeldCategories, HeldCategories, Runtime!Open, Open, Runtime!Outcome, Outcome

LEMMA SameRequests ==
  ASSUME NEW p, NEW E
  PROVE  Runtime!SyncEvidenceRequests(p, E) = SyncEvidenceRequests(p, E)
<1> DEFINE Asking(S) == {Runtime!RequestFor(p, E, q) : q \in S}
           Wanting(S) == {RequestFor(p, E, q) : q \in S}
           A(S) == [p EXCEPT !.requests = Asking(S)]
           B(S) == [p EXCEPT !.requests = Wanting(S)]
<1>0. \A S : Runtime!Cardinality(S) = Cardinality(S)
  BY DEF Runtime!Cardinality, Cardinality
<1>1. \A q : Runtime!MissingCategories(p, q, E) = MissingCategories(p, q, E)
  BY DEF Runtime!Needs, Needs, Runtime!MissingCategories, MissingCategories,
         Runtime!HeldCategories, HeldCategories
<1>2. Runtime!Lacking(p, E) = Lacking(p, E)
  BY <1>1 DEF Runtime!Lacking, Lacking, Runtime!OpenQuestions, OpenQuestions, Runtime!Open, Open
<1>3. \A q : Runtime!ExpectedGain(p, q, E) = ExpectedGain(p, q, E)
  BY <1>0, <1>1 DEF Runtime!ExpectedGain, ExpectedGain
<1>4. \A a, b : Runtime!AheadOf(p, a, b, E) <=> AheadOf(p, a, b, E)
  BY <1>3 DEF Runtime!AheadOf, AheadOf
<1>5. \A q : Runtime!RequestFor(p, E, q) = RequestFor(p, E, q)
  BY <1>1 DEF Runtime!RequestFor, RequestFor
<1>6. Runtime!Selections(p, E) = Selections(p, E)
  BY <1>0, <1>2, <1>4 DEF Runtime!Selections, Selections
<1>7. /\ Runtime!SyncEvidenceRequests(p, E) = {A(S) : S \in Runtime!Selections(p, E)}
      /\ SyncEvidenceRequests(p, E) = {B(S) : S \in Selections(p, E)}
  BY Zenon DEF Runtime!SyncEvidenceRequests, SyncEvidenceRequests
<1>8. \A S : Asking(S) = Wanting(S)
  BY <1>5
<1> HIDE DEF Asking, Wanting
<1>9. \A S : A(S) = B(S)
  BY <1>8
<1> HIDE DEF A, B
<1> QED  BY <1>6, <1>7, <1>9

LEMMA SameRuns ==
  ASSUME NEW p, NEW E, NEW run \in SyncEvidenceRequests(AskedAfter(
                                     ResolveQuestions(AskedAfter(p, E), E), E), E)
  PROVE  run \in Runtime!ProtocolRuns(p, E)
<1>1. run \in Runtime!SyncEvidenceRequests(Runtime!AskedAfter(
                  Runtime!ResolveQuestions(Runtime!AskedAfter(p, E), E), E), E)
  BY SameAsking, SameResolving, SameRequests
<1> QED  BY <1>1 DEF Runtime!ProtocolRuns

-----------------------------------------------------------------------------
(* What the actions of one recompute do to plan and completion.            *)
Proposing == {"SettleQuestion", "MarkInvestigationComplete"}

(* InvestigationRuntime's bound: an answer settles one question, or ends   *)
(* the investigation, or does neither.                                     *)
OneProposal ==
  \A said \in Answers : \A a, b \in ToSet(said) : {a.type, b.type} \subseteq Proposing => a = b

Done(s) == s.state = "completed"

InStep(s) == Done(s) <=> s.status = "completed"

WithVerdict(q, verdict) == [plan EXCEPT !.status[q] = verdict]

(* What one proposal makes of the plan and of completion.                  *)
Untouched(p, done) == p = plan /\ (done <=> Done(session))
Ended(p, done) ==
  p = plan /\ done /\ \E a \in ToSet(answer) : a.type = "MarkInvestigationComplete"
OneSettled(p, done) ==
  /\ done <=> Done(session)
  /\ \E a \in ToSet(answer) :
       /\ a.type = "SettleQuestion" /\ a.question \in OpenQuestions(plan) /\ a.status \in Settled
       /\ p = WithVerdict(a.question, a.status)

Reached(p, done) == Untouched(p, done) \/ Ended(p, done) \/ OneSettled(p, done)

IsReached(work) ==
  IsApplying(work) /\ InStep(work.session) /\ Reached(work.plan, Done(work.session))

(* Actions that are no proposal leave plan and completion alone.           *)
LEMMA NoProposalTried ==
  ASSUME NEW work, IsReached(work), NEW a, IsProposal(a), a.type \notin Proposing
  PROVE  LET new == Tried(work, a) IN
         /\ IsReached(new)
         /\ new.plan = work.plan /\ new.session.state = work.session.state
         /\ a.type # "SetProgress" => new.session.progress = work.session.progress
<1> DEFINE new == Tried(work, a)
           made == applyOne(work, a)
<1>1. IsApplying(work) /\ InStep(work.session) /\ Reached(work.plan, Done(work.session))
  BY DEF IsReached
<1>2. IsApplying(new) /\ (new = work \/ new = made)
  BY <1>1, TriedApplies DEF Tried
<1>3. /\ made.plan = work.plan
      /\ made.session.state = work.session.state /\ made.session.status = work.session.status
      /\ a.type # "SetProgress" => made.session.progress = work.session.progress
  BY <1>1, ActionFrame DEF Proposing
<1> HIDE DEF new, made
<1>4. /\ new.plan = work.plan
      /\ new.session.state = work.session.state /\ new.session.status = work.session.status
      /\ a.type # "SetProgress" => new.session.progress = work.session.progress
  BY <1>2, <1>3
<1>5. IsReached(new)
  BY <1>1, <1>2, <1>4 DEF IsReached, InStep, Done
<1> QED  BY <1>4, <1>5 DEF new

LEMMA EndTried ==
  ASSUME NEW work, IsReached(work), NEW a \in ToSet(answer), IsProposal(a),
         a.type = "MarkInvestigationComplete",
         \A b \in ToSet(answer) : b.type \in Proposing => a = b
  PROVE  IsReached(Tried(work, a))
<1> DEFINE s == work.session
           c == [s EXCEPT !.state = "completed"]
           t == [c EXCEPT !.status = "completed"]
           new == Tried(work, a)
<1>1. IsApplying(work) /\ Reached(work.plan, Done(s))
  BY DEF IsReached
<1>2. IsApplying(new)
  BY <1>1, TriedApplies
<1>3. new = applyOne(work, a)
  BY DEF Tried, Validate
<1> HIDE DEF s
<1>4. /\ DOMAIN s = {"required", "progress", "hyps", "contradictions", "coverage", "graph",
                     "confidence", "canAnswer", "blocking", "percent", "state", "status"}
      /\ DOMAIN work = {"session", "plan", "graph", "turn"}
  BY <1>1, WorkDomains DEF s
<1>5. new = WithSession(work, t)
  BY <1>3, <1>4, ZenonT(40) DEF applyOne, WithSession, s
<1>6. new.session = t /\ new.plan = work.plan
  BY <1>4, <1>5 DEF WithSession
<1>7. t.state = "completed" /\ t.status = "completed"
  BY <1>4
<1> HIDE DEF t, new
<1>8. work.plan = plan
  BY <1>1 DEF Reached, Untouched, Ended, OneSettled, Proposing
<1>9. Ended(new.plan, Done(new.session)) /\ InStep(new.session)
  BY <1>6, <1>7, <1>8 DEF Ended, Done, InStep
<1> QED  BY <1>2, <1>9 DEF IsReached, Reached, new

LEMMA VerdictTried ==
  ASSUME NEW work, IsReached(work), NEW a \in ToSet(answer), IsProposal(a),
         a.type = "SettleQuestion", plan \in Plan,
         \A b \in ToSet(answer) : b.type \in Proposing => a = b
  PROVE  IsReached(Tried(work, a))
<1> DEFINE new == Tried(work, a)
           p == work.plan
           r == [p EXCEPT !.status[a.question] = a.status]
<1>1. IsApplying(work) /\ Reached(p, Done(work.session)) /\ InStep(work.session)
  BY DEF IsReached
<1>2. IsApplying(new)
  BY <1>1, TriedApplies
<1>3. a.status \in Settled
  BY DEF IsProposal, IsAction
<1>4. DOMAIN work = {"session", "plan", "graph", "turn"}
  BY <1>1, WorkDomains
<1>5. a.question \notin OpenQuestions(p) => new = work
  BY DEF Tried, Validate
<1>6. a.question \in OpenQuestions(p) => new.plan = r /\ new.session = work.session
  <2>1. applyOne(work, a) = [work EXCEPT !.plan.status[a.question] = a.status]
    BY DEF applyOne
  <2>2. a.question \in OpenQuestions(p) => new = [work EXCEPT !.plan = r]
    BY <2>1, <1>4 DEF Tried, Validate
  <2> HIDE DEF new, r, p
  <2> QED  BY <1>4, <2>2
<1>7. CASE a.question \notin OpenQuestions(p)
  BY <1>5, <1>7
<1>8. CASE a.question \in OpenQuestions(p)
  <2>1. Untouched(p, Done(work.session)) \/ OneSettled(p, Done(work.session))
    BY <1>1 DEF Reached, Ended, Proposing
  <2>2. ~OneSettled(p, Done(work.session))
    <3> SUFFICES ASSUME OneSettled(p, Done(work.session)) PROVE FALSE
      OBVIOUS
    <3>1. a.question \in OpenQuestions(plan) /\ p = WithVerdict(a.question, a.status)
      BY DEF OneSettled, Proposing
    <3>2. p.status[a.question] = a.status
      BY <3>1 DEF WithVerdict, Plan, OpenQuestions
    <3>3. p.status[a.question] \in Open
      BY <1>8 DEF OpenQuestions
    <3> QED  BY <1>3, <3>2, <3>3 DEF Open, Settled
  <2>3. p = plan /\ (Done(work.session) <=> Done(session))
    BY <2>1, <2>2 DEF Untouched
  <2>4. new.plan = WithVerdict(a.question, a.status) /\ new.session = work.session
    BY <1>6, <1>8, <2>3 DEF WithVerdict
  <2> HIDE DEF new, r
  <2>5. OneSettled(new.plan, Done(new.session))
    BY <1>3, <1>8, <2>3, <2>4 DEF OneSettled
  <2>6. IsReached(new)
    BY <1>1, <1>2, <2>4, <2>5 DEF IsReached, Reached
  <2> QED  BY <2>6 DEF new
<1> QED  BY <1>7, <1>8

Reaching == INSTANCE Folding WITH Step <- Tried, Good <- IsReached

LEMMA ReachingFold ==
  ASSUME NEW work, NEW acts
  PROVE  Reaching!FoldLeft(Tried, work, acts) = FoldLeft(Tried, work, acts)
  BY DEF FoldLeft, MapThenFoldSet, Max, Reaching!FoldLeft, Reaching!MapThenFoldSet, Reaching!Max

LEMMA SemanticReaches ==
  ASSUME OneProposal, answer \in Answers, plan \in Plan, NEW work, IsReached(work)
  PROVE  IsReached(Taken(work, "semantic"))
<1> DEFINE acts == answer
           n == Len(acts)
<1>1. AreProposals(acts)
  BY AnswerProposes
<1>2. Taken(work, "semantic") = FoldLeft(Tried, work, acts)
  BY DEF Taken, Analyze
<1>3. n \in Nat /\ DOMAIN acts = 1 .. n
  BY <1>1 DEF AreProposals, IsSequence
<1>4. \A i \in 1 .. n : IsProposal(acts[i]) /\ acts[i] \in ToSet(answer)
  BY <1>1, <1>3 DEF AreProposals, ToSet
<1> HIDE DEF acts, n
<1>5. ASSUME NEW w, NEW i \in 1 .. n, IsReached(w) PROVE IsReached(Tried(w, acts[i]))
  <2> DEFINE a == acts[i]
  <2>1. IsProposal(a) /\ a \in ToSet(answer)
    BY <1>4
  <2>2. a.type \in Proposing => \A b \in ToSet(answer) : b.type \in Proposing => a = b
    BY <2>1 DEF OneProposal
  <2> SUFFICES IsReached(Tried(w, a))
    OBVIOUS
  <2> HIDE DEF a
  <2>3. CASE a.type \notin Proposing
    BY <1>5, <2>1, <2>3, NoProposalTried
  <2>4. CASE a.type = "MarkInvestigationComplete"
    BY <1>5, <2>1, <2>2, <2>4, EndTried DEF Proposing
  <2>5. CASE a.type = "SettleQuestion"
    BY <1>5, <2>1, <2>2, <2>5, VerdictTried DEF Proposing
  <2> QED  BY <2>3, <2>4, <2>5 DEF Proposing
<1>6. IsReached(Reaching!FoldLeft(Tried, work, acts))
  BY <1>3, <1>5, Reaching!FoldKeeps
<1> QED  BY <1>2, <1>6, ReachingFold

-----------------------------------------------------------------------------
(* Without evidence there is no progress.                                  *)
LEMMA NothingWeighed ==
  ASSUME NEW required, IsWeights(required)
  PROVE  Progress({}, required) = 0
<1> DEFINE D == DOMAIN required
           f == [c \in D |-> IF c \in HeldCategories({}) THEN required[c] ELSE 0]
           n == TotalWeight(required, HeldCategories({}))
           d == TotalWeight(required, D)
<1>1. n = SumFunctionOnSet(f, D)
  BY DEF TotalWeight, SumFunction
<1>2. HeldCategories({}) = {}
  BY DEF HeldCategories
<1>3. /\ IsFiniteSet(D) /\ f \in [D -> Int] /\ Cardinality(D) \in Nat
      /\ TermsWithin(D, 1, f, 0, f, 0)
  BY <1>2, FS_CardinalityType DEF IsWeights, TermsWithin
<1>4. n \in Nat /\ (D # {} => d \in Nat \ {0})
  BY TotalWeightBounds
<1>5. n = 0
  <2> HIDE DEF f, D, n
  <2>1. SumFunctionOnSet(f, D) \in Int /\ SumsWithin(D, 1, f, 0, f, 0)
    BY <1>3, SumIsInt, SumsCompared
  <2> QED  BY <1>1, <1>3, <1>4, <2>1 DEF SumsWithin
<1>6. D # {} => Rounded(1000 * n, d) = 0
  <2> HIDE DEF D, n, d
  <2>1. 1000 * n = 0
    BY <1>5
  <2>2. ASSUME NEW r \in Int, NEW m \in Nat \ {0}, (2 * m) * r <= m, -m < (2 * m) * r
        PROVE  r = 0
    <3>1. r >= 1 => (2 * m) * r >= 2 * m
      BY <2>2
    <3>2. r <= -1 => (2 * m) * r <= -(2 * m)
      BY <2>2
    <3> QED  BY <2>2, <3>1, <3>2
  <2>3. ASSUME D # {} PROVE Rounded(0, d) = 0
    <3> DEFINE r == Rounded(0, d)
    <3>1. d \in Nat \ {0}
      BY <1>4, <2>3
    <3>2. r \in Int /\ (2 * d) * r <= d /\ -d < (2 * d) * r
      BY <3>1, RoundedBetween
    <3> HIDE DEF r
    <3>3. r = 0
      BY <2>2, <3>1, <3>2
    <3> QED  BY <3>3 DEF r
  <2> QED  BY <2>1, <2>3
<1> QED  BY <1>6 DEF Progress

(* Reasoner by reasoner.                                                   *)
Unprogressed(work) == evidence = {} => work.session.progress = 0

LEMMA TemporalReaches ==
  ASSUME IsEvidence(evidence), IsSession(session), NEW work, IsReached(work)
  PROVE  LET new == Taken(work, "temporal") IN IsReached(new) /\ Unprogressed(new)
<1> DEFINE one == Tried(work, ProgressSeen)
           two == Tried(one, LinksSeen)
           seen == Progress(evidence, Required(evidence))
           value == Clamp(seen, 0, 1000)
           s == work.session
           t == [s EXCEPT !.progress = value]
<1>1. /\ IsProposal(ProgressSeen) /\ IsProposal(LinksSeen)
      /\ ProgressSeen.type = "SetProgress" /\ LinksSeen.type = "LinkGraphNodes"
      /\ ProgressSeen.progress = seen
  BY ReasonersActions DEF ProgressSeen, LinksSeen
<1>2. Taken(work, "temporal") = two
  BY TemporalTaken
<1>3. evidence = {} => value = 0
  <2>1. evidence = {} => seen = 0
    BY RequiredWeighed, NothingWeighed
  <2> HIDE DEF seen
  <2> QED  BY <2>1 DEF Clamp
<1> HIDE DEF value
<1>4. one.session.progress = value
  <2>1. /\ DOMAIN s = {"required", "progress", "hyps", "contradictions", "coverage", "graph",
                       "confidence", "canAnswer", "blocking", "percent", "state", "status"}
        /\ DOMAIN work = {"session", "plan", "graph", "turn"}
    BY WorkDomains DEF IsReached
  <2>2. one = applyOne(work, ProgressSeen)
    BY <1>1 DEF Tried, Validate
  <2>3. one = WithSession(work, t)
    BY <1>1, <2>1, <2>2 DEF applyOne, WithSession, value
  <2>4. t.progress = value
    BY <2>1
  <2> HIDE DEF t
  <2> QED  BY <2>1, <2>3, <2>4 DEF WithSession
<1>5. IsReached(one)
  <2>1. IsApplying(one)
    BY <1>1, TriedApplies DEF IsReached
  <2> QED  BY <1>1, NoProposalTried DEF Proposing
<1> HIDE DEF one
<1>6. IsReached(two) /\ two.session.progress = one.session.progress
  BY <1>1, <1>5, NoProposalTried DEF Proposing
<1> QED  BY <1>2, <1>3, <1>4, <1>6 DEF Unprogressed

LEMMA OtherTried ==
  ASSUME NEW work, IsReached(work), Unprogressed(work), NEW a, IsProposal(a),
         a.type \notin Proposing, a.type # "SetProgress"
  PROVE  IsReached(Tried(work, a)) /\ Unprogressed(Tried(work, a))
  BY NoProposalTried DEF Unprogressed

LEMMA HypothesisReaches ==
  ASSUME IsEvidence(evidence), IsSession(session), NEW work, IsReached(work), Unprogressed(work)
  PROVE  LET new == Taken(work, "hypothesis") IN IsReached(new) /\ Unprogressed(new)
<1> DEFINE one == Tried(work, FieldFound)
           two == Tried(one, CoverageFound)
           three == Tried(two, GraphBuilt)
           four == Tried(three, LeaderFound)
<1>1. /\ IsProposal(FieldFound) /\ IsProposal(CoverageFound)
      /\ IsProposal(GraphBuilt) /\ IsProposal(LeaderFound)
  BY ReasonersActions
<1>2. /\ {FieldFound.type, CoverageFound.type, GraphBuilt.type, LeaderFound.type}
           \intersect (Proposing \union {"SetProgress"}) = {}
  BY DEF FieldFound, CoverageFound, GraphBuilt, LeaderFound, Proposing
<1>3. Taken(work, "hypothesis") = three \/ Taken(work, "hypothesis") = four
  BY HypothesisTaken DEF WithFound
<1>4. IsReached(one) /\ Unprogressed(one)
  BY <1>1, <1>2, OtherTried
<1> HIDE DEF one
<1>5. IsReached(two) /\ Unprogressed(two)
  BY <1>1, <1>2, <1>4, OtherTried
<1> HIDE DEF two
<1>6. IsReached(three) /\ Unprogressed(three)
  BY <1>1, <1>2, <1>5, OtherTried
<1> HIDE DEF three
<1>7. IsReached(four) /\ Unprogressed(four)
  BY <1>1, <1>2, <1>6, OtherTried
<1> QED  BY <1>3, <1>6, <1>7

LEMMA ConsistencyReaches ==
  ASSUME IsEvidence(evidence), IsSession(session), NEW work, IsReached(work), Unprogressed(work)
  PROVE  LET new == Taken(work, "consistency") IN IsReached(new) /\ Unprogressed(new)
<1> DEFINE one == Tried(work, ContradictionsFound)
           two == Tried(one, DeploymentDoubted)
<1>1. /\ {ContradictionsFound.type, DeploymentDoubted.type}
           \intersect (Proposing \union {"SetProgress"}) = {}
      /\ IsProposal(ContradictionsFound) /\ IsProposal(DeploymentDoubted)
  BY ReasonersActions DEF ContradictionsFound, DeploymentDoubted, Proposing
<1>2. Taken(work, "consistency") = one \/ Taken(work, "consistency") = two
  BY ConsistencyTaken
<1>3. IsReached(one) /\ Unprogressed(one)
  BY <1>1, OtherTried
<1> HIDE DEF one
<1>4. IsReached(two) /\ Unprogressed(two)
  BY <1>1, <1>3, OtherTried
<1> QED  BY <1>2, <1>3, <1>4

LEMMA SilentTaken ==
  ASSUME answer = Silent, NEW work
  PROVE  Taken(work, "semantic") = work
<1>1. Taken(work, "semantic") = FoldLeft(Tried, work, << >>)
  BY DEF Taken, Analyze, Silent
<1>2. Trying!FoldLeft(Tried, work, << >>) = work
  BY Trying!FoldOfNone
<1> QED  BY <1>1, <1>2, TryingFold

LEMMA AppliedReaches ==
  ASSUME OneProposal, IsEvidence(evidence), IsSession(session), answer \in Answers, plan \in Plan,
         evidence = {} => answer = Silent,
         NEW work, IsReached(work), NEW merged, InOrder(merged)
  PROVE  LET new == Applied(work, merged) IN IsReached(new) /\ Unprogressed(new)
<1> DEFINE one == Taken(work, "temporal")
           two == Taken(one, "hypothesis")
           three == Taken(two, "consistency")
           four == Taken(three, "semantic")
<1>1. Applied(work, merged) = four
  BY AppliedInOrder
<1>2. IsReached(one) /\ Unprogressed(one)
  BY TemporalReaches
<1> HIDE DEF one
<1>3. IsReached(two) /\ Unprogressed(two)
  BY <1>2, HypothesisReaches
<1> HIDE DEF two
<1>4. IsReached(three) /\ Unprogressed(three)
  BY <1>3, ConsistencyReaches
<1> HIDE DEF three
<1>5. IsReached(four)
  BY <1>4, SemanticReaches
<1>6. Unprogressed(four)
  BY <1>4, SilentTaken DEF Unprogressed
<1> QED  BY <1>1, <1>5, <1>6

-----------------------------------------------------------------------------
(* Without evidence no hypothesis collects enough points for confidence.   *)
LEMMA PenaltyNotNegative ==
  ASSUME NEW contradictions, IsFiniteSet(contradictions)
  PROVE  SumFunction([c \in contradictions |-> Penalty(c)]) \in Nat
<1> DEFINE f == [c \in contradictions |-> Penalty(c)]
<1>1. f \in [contradictions -> Int] /\ \A c \in contradictions : f[c] >= 0
  BY DEF Penalty
<1>2. SumFunction(f) = SumFunctionOnSet(f, contradictions)
  BY DEF SumFunction
<1>3. Cardinality(contradictions) \in Nat
  BY FS_CardinalityType
<1> HIDE DEF f
<1>4. TermsWithin(contradictions, 0, f, 1, f, 0)
  BY <1>1 DEF TermsWithin
<1>5. SumFunctionOnSet(f, contradictions) \in Int /\ SumsWithin(contradictions, 0, f, 1, f, 0)
  BY <1>1, <1>4, SumsCompared
<1>6. SumFunctionOnSet(f, contradictions) \in Nat
  BY <1>3, <1>5 DEF SumsWithin
<1> QED  BY <1>2, <1>6 DEF f

LEMMA NothingOrdered == ~WellOrdered({})
  BY DEF WellOrdered, DeployBeforeIncident, Ordered, Deployments, Symptoms

LEMMA FewPoints ==
  ASSUME NEW hyps, IsField(hyps), InRange(hyps), hyps # << >>
  PROVE  Base({}, hyps) \in Int /\ Base({}, hyps) <= 70000
<1> DEFINE a == Share(hyps, 1)
           b == Share(hyps, 2)
<1>1. a \in 0 .. 1000 /\ b \in 0 .. 1000
  BY DEF Share, InRange
<1>2. Corroboration({}, hyps) = 0
  <2> DEFINE S == hyps[1].support \intersect {}
             k == Cardinality(HeldCategories(S))
  <2>1. HeldCategories(S) = {}
    BY DEF HeldCategories
  <2>2. k = 0
    BY <2>1, FS_EmptySet
  <2> HIDE DEF k
  <2>3. Min({3, 0}) \in {3, 0} /\ Min({3, 0}) <= 0
    BY LesserOfTwo
  <2>4. Min({3, k}) \in {3, 0} /\ Min({3, k}) <= 0
    BY <2>2, <2>3
  <2> QED  BY <2>4 DEF Corroboration, k
<1>3. Base({}, hyps) = 45 * a + 25 * (a - b)
  <2>1. PointsIf(WellOrdered({}), 15000) = 0
    BY NothingOrdered DEF PointsIf
  <2> HIDE DEF a, b
  <2>2. a \in Int /\ b \in Int
    BY <1>1
  <2>3. 45 * a + 25 * (a - b) + 5000 * 0 + 0 = 45 * a + 25 * (a - b)
    BY <2>2
  <2> QED  BY <1>2, <2>1, <2>3 DEF Base, a, b
<1> HIDE DEF a, b
<1>4. 45 * a + 25 * (a - b) \in Int /\ 45 * a + 25 * (a - b) <= 70000
  BY <1>1
<1> QED  BY <1>3, <1>4

LEMMA NoConfidence ==
  ASSUME NEW hyps, IsField(hyps), InRange(hyps), NEW contradictions, IsFiniteSet(contradictions)
  PROVE  Score({}, hyps, contradictions, 0) < MinConfidence
<1> DEFINE penalty == SumFunction([c \in contradictions |-> Penalty(c)])
           base == Base({}, hyps)
           weighted == base * 4000
           points == Rounded(weighted, 1000000)
<1>1. CASE hyps = << >>
  BY <1>1 DEF Score, MinConfidence
<1>2. CASE hyps # << >>
  <2>1. penalty \in Nat
    BY PenaltyNotNegative
  <2>2. base \in Int /\ base <= 70000
    BY <1>2, FewPoints
  <2>3. Score({}, hyps, contradictions, 0) = Clamp(points - 10 * penalty, 0, 990)
    <3>1. 4000 + 6 * 0 = 4000
      OBVIOUS
    <3>2. Score({}, hyps, contradictions, 0)
            = Clamp(Rounded(base * (4000 + 6 * 0), 1000000) - 10 * penalty, 0, 990)
      BY <1>2 DEF Score
    <3> QED  BY <3>1, <3>2
  <2> HIDE DEF penalty, base
  <2>4. weighted \in Int /\ weighted <= 280000000
    BY <2>2
  <2> HIDE DEF weighted
  <2>5. points \in Int /\ 2000000 * points <= 2 * weighted + 1000000
    <3> DEFINE d == 1000000
    <3>1. d \in Nat \ {0} /\ 2 * d = 2000000
      OBVIOUS
    <3>2. points \in Int /\ (2 * d) * points <= 2 * weighted + d
      BY <2>4, <3>1, RoundedBetween
    <3> QED  BY <3>2
  <2> HIDE DEF points
  <2>6. points <= 281
    BY <2>4, <2>5
  <2>7. points - 10 * penalty <= 281
    BY <2>1, <2>5, <2>6
  <2>8. Clamp(points - 10 * penalty, 0, 990) <= 281
    BY <2>1, <2>5, <2>7 DEF Clamp
  <2>9. Score({}, hyps, contradictions, 0) <= 281 /\ 281 < 700
    BY <2>3, <2>8
  <2>10. Score({}, hyps, contradictions, 0) \in Int
    BY <2>1, <2>3, <2>5 DEF Clamp
  <2> QED  BY <2>9, <2>10 DEF MinConfidence
<1> QED  BY <1>1, <1>2

-----------------------------------------------------------------------------
(* The evidence the session lacks is what its requests ask for.            *)
ShippedNeeds == Requires = PlaybookRequires

LEMMA FirstIsMissing ==
  ASSUME ShippedNeeds, NEW p, NEW q \in Lacking(p, evidence)
  PROVE  FirstMissing(q) \notin HeldCategories(evidence)
<1> DEFINE requires == Playbooks[q].requires
           lacks == {i \in DOMAIN requires : requires[i] \notin HeldCategories(evidence)}
<1>1. q \in Question /\ MissingCategories(p, q, evidence) # {}
  BY DEF Lacking, OpenQuestions
<1>2. Requires[q] = ToSet(requires)
  BY <1>1 DEF ShippedNeeds, PlaybookRequires
<1>3. DOMAIN requires \subseteq Nat
  BY <1>1, SeedOfQuestion, SeedsWellMade DEF WellSeeded
<1> HIDE DEF requires
<1>4. lacks # {} /\ lacks \in SUBSET Nat
  BY <1>1, <1>2, <1>3 DEF MissingCategories, Needs, ToSet
<1>5. Min(lacks) \in lacks
  <2> HIDE DEF lacks
  <2>1. \E n \in lacks : \A m \in lacks : n <= m
    BY <1>4, LeastNatural
  <2> QED  BY <2>1 DEF Min
<1> QED  BY <1>5 DEF FirstMissing, requires

LEMMA RequestsMissing ==
  ASSUME ShippedNeeds, NEW p \in Plan, evidence \in SUBSET Evidence,
         NEW r \in SyncEvidenceRequests(p, evidence)
  PROVE  Missing(evidence, Heaviest(protocolToLegacyRequests(r))) # {} <=> r.requests # {}
<1> DEFINE wanted == protocolToLegacyRequests(r)
<1>1. DOMAIN Heaviest(wanted) = {w[1] : w \in wanted}
  BY DEF Heaviest
<1>2. PICK S \in Selections(p, evidence) :
        r = [p EXCEPT !.requests = {RequestFor(p, evidence, q) : q \in S}]
  BY DEF SyncEvidenceRequests
<1>3. /\ r.requests = {RequestFor(p, evidence, q) : q \in S}
      /\ r.status = p.status /\ r.bare = p.bare
  BY <1>2 DEF Plan
<1>4. S \subseteq Lacking(p, evidence)
  BY DEF Selections
<1>5. CASE r.requests # {}
  <2>1. PICK q \in S : RequestFor(p, evidence, q) \in r.requests
    BY <1>3, <1>5
  <2>2. RequestFor(p, evidence, q).question = q
    BY DEF RequestFor
  <2>3. <<FirstMissing(q), q>> \in wanted
    BY <1>5, <2>1, <2>2 DEF protocolToLegacyRequests
  <2>4. FirstMissing(q) \notin HeldCategories(evidence)
    BY <1>4, <2>1, FirstIsMissing
  <2> HIDE DEF wanted
  <2>5. FirstMissing(q) \in {w[1] : w \in wanted}
    BY <2>3
  <2> QED  BY <1>1, <1>5, <2>4, <2>5 DEF Missing, wanted
<1>6. CASE r.requests = {}
  <2>1. Guides(r, evidence)
    BY SyncGuides
  <2>2. Lacking(r, evidence) = {}
    BY <1>6, <2>1 DEF Guides
  <2>3. \A w \in wanted : w[1] \in HeldCategories(evidence)
    BY <1>6, <2>2 DEF protocolToLegacyRequests, Lacking, MissingCategories
  <2> HIDE DEF wanted
  <2>4. Missing(evidence, Heaviest(wanted)) = {}
    BY <1>1, <2>3 DEF Missing
  <2> QED  BY <1>6, <2>4 DEF wanted
<1> QED  BY <1>5, <1>6

-----------------------------------------------------------------------------
(* What one recompute's answer may have proposed.                          *)
LEMMA ReachedOutcome ==
  ASSUME NEW p, NEW done, Reached(p, done), InStep(session), evidence = {} => answer = Silent
  PROVE  \E o \in Runtime!ReasoningOutcomes(plan, evidence) :
           o.plan = p /\ (done <=> o.completes \/ session.status = "completed")
<1> DEFINE Outcomes == Runtime!ReasoningOutcomes(plan, evidence)
           none == [plan |-> p, completes |-> FALSE]
           ends == [plan |-> p, completes |-> TRUE]
<1>1. CASE Untouched(p, done)
  <2>1. none \in Outcomes
    BY <1>1 DEF Untouched, Runtime!ReasoningOutcomes, Runtime!Proposed
  <2>2. none.plan = p /\ (done <=> none.completes \/ session.status = "completed")
    BY <1>1 DEF Untouched, InStep
  <2> HIDE DEF Outcomes, none
  <2> QED  BY <2>1, <2>2 DEF Outcomes
<1>2. ASSUME NEW a \in ToSet(answer) PROVE evidence # {}
  BY <1>2 DEF Silent, ToSet
<1>3. CASE Ended(p, done)
  <2>1. ends \in Outcomes
    BY <1>2, <1>3 DEF Ended, Runtime!ReasoningOutcomes, Runtime!Proposed
  <2>2. ends.plan = p /\ (done <=> ends.completes \/ session.status = "completed")
    BY <1>3 DEF Ended
  <2> HIDE DEF Outcomes, ends
  <2> QED  BY <2>1, <2>2 DEF Outcomes
<1>4. CASE OneSettled(p, done)
  <2>1. PICK a \in ToSet(answer) :
          /\ a.type = "SettleQuestion" /\ a.question \in OpenQuestions(plan) /\ a.status \in Settled
          /\ p = WithVerdict(a.question, a.status)
    BY <1>4 DEF OneSettled
  <2>2. a.question \in Runtime!OpenQuestions(plan)
    BY <2>1 DEF Runtime!OpenQuestions, OpenQuestions, Runtime!Open, Open
  <2>3. none \in Runtime!ReasonerSettles(plan, a.status)
    BY <2>1, <2>2 DEF Runtime!ReasonerSettles, Runtime!Proposed, WithVerdict
  <2>4. none \in Runtime!ReasonerSettles(plan, "answered") \/ none \in Runtime!ReasonerSettles(plan, "rejected")
    BY <2>1, <2>3 DEF Settled
  <2> HIDE DEF none
  <2>5. none \in Outcomes
    BY <1>2, <2>1, <2>4 DEF Runtime!ReasoningOutcomes
  <2>6. none.plan = p /\ (done <=> none.completes \/ session.status = "completed")
    BY <1>4 DEF OneSettled, InStep, none
  <2> HIDE DEF Outcomes
  <2> QED  BY <2>5, <2>6 DEF Outcomes
<1> QED  BY <1>1, <1>3, <1>4 DEF Reached

-----------------------------------------------------------------------------
(* The runtime's own assessment, state and status.                         *)
(* What a session derives from its other figures when it is scored.        *)
Scored(r, done, closed) ==
  /\ r = [part \in DOMAIN NewSession |-> r[part]]
  /\ r.confidence = Score(evidence, r.hyps, r.contradictions, r.progress)
  /\ r.blocking = BlockingQuestions(evidence, r.hyps)
  /\ r.canAnswer = Evaluate(evidence, r.hyps, r.contradictions, r.confidence, r.coverage)
  /\ r.percent = InvestigationProgress(evidence, r.required, r.coverage, r.confidence, r.blocking)
  /\ r.state = IF done THEN "completed"
               ELSE IF evidence = {} THEN "collecting_evidence"
               ELSE IF r.canAnswer /\ r.confidence >= MinConfidence THEN "high_confidence"
               ELSE IF r.blocking # {} \/ Missing(evidence, r.required) # {}
                 THEN "waiting_for_evidence"
               ELSE IF r.confidence >= MinConfidence THEN "high_confidence"
               ELSE "collecting_evidence"
  /\ r.status = IF closed \/ r.state = "completed" THEN "completed"
                ELSE IF r.canAnswer \/ (r.confidence >= 700 /\ r.percent >= 700)
                  THEN "ready_to_conclude"
                ELSE IF r.state = "high_confidence" THEN "ready_to_conclude"
                ELSE "collecting_evidence"

LEMMA AssessedScored ==
  ASSUME NEW s, IsSession(s), NEW required
  PROVE  Scored(Assessed(s, required), Done(s), s.status = "completed")
<1> DEFINE confidence == Score(evidence, s.hyps, s.contradictions, s.progress)
           blocking == BlockingQuestions(evidence, s.hyps)
           canAnswer == Evaluate(evidence, s.hyps, s.contradictions, confidence, s.coverage)
           percent == InvestigationProgress(evidence, required, s.coverage, confidence, blocking)
           one == JudgedAs(s, required, confidence, blocking, canAnswer, percent)
           x == Transition(one)
           two == [one EXCEPT !.state = x]
           y == deriveStatus(two)
           three == [two EXCEPT !.status = y]
           Same(r) == /\ DOMAIN r = DOMAIN s
                      /\ r.confidence = confidence /\ r.blocking = blocking
                      /\ r.canAnswer = canAnswer /\ r.percent = percent /\ r.required = required
<1>1. Assessed(s, required) = three
  BY DEF Assessed, Judged, InState, WithStatus, JudgedAs
<1>2. DOMAIN s = {"required", "progress", "hyps", "contradictions", "coverage", "graph",
                  "confidence", "canAnswer", "blocking", "percent", "state", "status"}
  BY DEF IsSession
<1> HIDE DEF confidence, blocking, canAnswer, percent
<1>3. Same(one) /\ one.state = s.state /\ one.status = s.status
  BY <1>2 DEF JudgedAs
<1> HIDE DEF one
<1>4. x = IF Done(s) THEN "completed"
          ELSE IF evidence = {} THEN "collecting_evidence"
          ELSE IF canAnswer /\ confidence >= MinConfidence THEN "high_confidence"
          ELSE IF blocking # {} \/ Missing(evidence, required) # {} THEN "waiting_for_evidence"
          ELSE IF confidence >= MinConfidence THEN "high_confidence"
          ELSE "collecting_evidence"
  BY <1>3 DEF Transition, Done
<1> HIDE DEF x
<1>5. Same(two) /\ two.state = x /\ two.status = s.status
  BY <1>2, <1>3
<1> HIDE DEF two
<1>6. y = IF s.status = "completed" \/ x = "completed" THEN "completed"
          ELSE IF canAnswer \/ (confidence >= 700 /\ percent >= 700) THEN "ready_to_conclude"
          ELSE IF x = "high_confidence" THEN "ready_to_conclude"
          ELSE "collecting_evidence"
  BY <1>5 DEF deriveStatus
<1> HIDE DEF y
<1>7. Same(three) /\ three.state = x /\ three.status = y
  BY <1>2, <1>5
<1>8. three = [part \in DOMAIN NewSession |-> three[part]]
  <2>1. DOMAIN NewSession = DOMAIN two
    BY <1>2, <1>5 DEF NewSession
  <2> HIDE DEF Same
  <2> QED  BY <2>1
<1> HIDE DEF three
<1>9. /\ three.hyps = s.hyps /\ three.progress = s.progress
      /\ three.coverage = s.coverage /\ three.contradictions = s.contradictions
  BY <1>1, AssessedFrame
<1>10. /\ three.confidence = Score(evidence, three.hyps, three.contradictions, three.progress)
       /\ three.blocking = BlockingQuestions(evidence, three.hyps)
  BY <1>7, <1>9 DEF confidence, blocking
<1>11. /\ three.canAnswer = Evaluate(evidence, three.hyps, three.contradictions, three.confidence,
                                     three.coverage)
       /\ three.percent = InvestigationProgress(evidence, three.required, three.coverage,
                                                three.confidence, three.blocking)
  BY <1>7, <1>9 DEF canAnswer, percent
<1> QED  BY <1>1, <1>4, <1>6, <1>7, <1>8, <1>10, <1>11 DEF Scored

Judgement(r) ==
  [confident |-> r.confidence >= MinConfidence, blocked |-> r.blocking # {},
   sufficient |-> r.canAnswer, progressed |-> IF r.percent >= 700 THEN TRUE ELSE FALSE]

LEMMA AssessedDerives ==
  ASSUME IsEvidence(evidence),
         NEW s, IsSession(s), InRange(s.hyps), InStep(s), evidence = {} => s.progress = 0,
         NEW required, NEW requests, Missing(evidence, required) # {} <=> requests # {}
  PROVE  LET r == Assessed(s, required) IN
         /\ Judgement(r) \in Runtime!Assessments(evidence)
         /\ InStep(r)
         /\ r.state = Runtime!Transition(IF Done(s) THEN "completed" ELSE "reasoning",
                                         evidence, requests, Judgement(r))
         /\ r.status = Runtime!DeriveStatus(Done(s), r.state, Judgement(r))
<1> DEFINE r == Assessed(s, required)
           a == Judgement(r)
           lacking == Missing(evidence, required) # {}
<1>0. /\ Scored(r, Done(s), s.status = "completed")
      /\ r.hyps = s.hyps /\ r.progress = s.progress /\ r.coverage = s.coverage
      /\ r.contradictions = s.contradictions /\ r.required = required
  BY AssessedScored, AssessedFrame
<1> HIDE DEF r
<1>1. r.canAnswer = Evaluate(evidence, s.hyps, s.contradictions, r.confidence, s.coverage)
  BY <1>0 DEF Scored
<1>2. /\ r.canAnswer \in BOOLEAN
      /\ r.canAnswer => evidence # {} /\ r.confidence >= MinConfidence /\ r.blocking = {}
  <2>1. r.blocking = BlockingQuestions(evidence, s.hyps)
    BY <1>0 DEF Scored
  <2> QED  BY <1>1, <2>1 DEF Evaluate
<1>3. r.confidence >= MinConfidence => evidence # {}
  <2>1. evidence = {} => r.confidence = Score({}, s.hyps, s.contradictions, 0)
    BY <1>0 DEF Scored
  <2>2. evidence = {} => r.confidence < MinConfidence
    BY <2>1, NoConfidence DEF IsSession
  <2>3. r.confidence \in Int
    <3>1. r.confidence = Score(evidence, s.hyps, s.contradictions, s.progress)
      BY <1>0 DEF Scored
    <3>2. IsFigure(Score(evidence, s.hyps, s.contradictions, s.progress))
      BY ScoreOnScale DEF IsSession, IsEvidence
    <3> QED  BY <3>1, <3>2 DEF IsFigure
  <2> QED  BY <2>2, <2>3 DEF MinConfidence
<1>4. a \in Runtime!Assessments(evidence)
  <2>1. (r.confidence >= MinConfidence) \in BOOLEAN
    <3> QED OBVIOUS
  <2>2. a \in [confident : BOOLEAN, blocked : BOOLEAN, sufficient : BOOLEAN, progressed : BOOLEAN]
    BY <1>2, <2>1 DEF Judgement
  <2>3. /\ a.confident => evidence # {}
        /\ a.sufficient => evidence # {} /\ ~a.blocked
    BY <1>2, <1>3 DEF Judgement
  <2> HIDE DEF a
  <2> QED  BY <2>2, <2>3 DEF Runtime!Assessments
<1>5. /\ r.state = IF Done(s) THEN "completed"
                   ELSE IF evidence = {} THEN "collecting_evidence"
                   ELSE IF r.canAnswer /\ r.confidence >= MinConfidence THEN "high_confidence"
                   ELSE IF r.blocking # {} \/ lacking THEN "waiting_for_evidence"
                   ELSE IF r.confidence >= MinConfidence THEN "high_confidence"
                   ELSE "collecting_evidence"
      /\ r.status = IF s.status = "completed" \/ r.state = "completed" THEN "completed"
                    ELSE IF r.canAnswer \/ (r.confidence >= 700 /\ r.percent >= 700)
                      THEN "ready_to_conclude"
                    ELSE IF r.state = "high_confidence" THEN "ready_to_conclude"
                    ELSE "collecting_evidence"
  BY <1>0 DEF Scored
<1> DEFINE confident == r.confidence >= MinConfidence
           blocked == r.blocking # {}
           progressed == r.percent >= 700
<1>6. /\ a.confident <=> confident
      /\ a.blocked <=> blocked
      /\ a.sufficient <=> r.canAnswer
      /\ a.progressed <=> progressed
  <2> QED  BY <1>2 DEF Judgement
<1>7. lacking <=> requests # {}
  OBVIOUS
<1>8. r.confidence >= 700 <=> confident
  BY DEF MinConfidence
<1>9. InStep(r)
  <2> HIDE DEF lacking, confident, blocked, progressed
  <2> QED  BY <1>5 DEF InStep, Done
<1>10. r.state = Runtime!Transition(IF Done(s) THEN "completed" ELSE "reasoning", evidence, requests, a)
  <2> HIDE DEF a, lacking
  <2> QED  BY <1>5, <1>6, <1>7 DEF Runtime!Transition
<1>11. r.status = Runtime!DeriveStatus(Done(s), r.state, a)
  <2> HIDE DEF a, lacking
  <2> QED  BY <1>5, <1>6, <1>8 DEF Runtime!DeriveStatus, Runtime!LegacyStatus, InStep, Done
<1> QED  BY <1>4, <1>9, <1>10, <1>11 DEF r

-----------------------------------------------------------------------------
(* The invariant of the recompute under way.                               *)

(* What the recompute under way owes to which call: a Get nothing new, a   *)
(* Submit one batch, which a completed session refuses.                    *)
Submitted ==
  /\ session.status # "completed"
  /\ \E batch \in Batches :
       batch # {} /\ batch \intersect considered = {} /\ evidence = considered \union batch

(* What the protocol run has made of plan p so far.                        *)
RunFrom(p) ==
  LET asked    == AskedAfter(p, evidence)
      resolved == ResolveQuestions(asked, evidence)
  IN  /\ phase = "asking"    => draft.plan = p
      /\ phase = "resolving" => draft.plan = asked
      /\ phase = "following" => draft.plan = resolved
      /\ phase = "concluding" => draft.plan = AskedAfter(resolved, evidence)
      /\ phase \in {"following", "concluding"} =>
           draft.turn = {q \in Question : Conclusive(asked, q, evidence)}

Running ==
  /\ InStep(draft.session) /\ Unprogressed(draft)
  /\ \E p \in Plan : Agree(p) /\ Reached(p, Done(draft.session)) /\ RunFrom(p)

RunInv ==
  /\ InStep(session) /\ session.state # "absent"
  /\ session.state = "started" => evidence = {}
  /\ phase = "idle" => evidence = considered
  /\ evidence = considered \/ Submitted
  /\ evidence = {} => answer = Silent
  /\ IsListing(results)
  /\ phase = "applying" => InOrder(results)
  /\ phase \in {"asking", "resolving", "following", "concluding"} => Running

LEMMA InitRun == Init => RunInv
<1> SUFFICES ASSUME Init PROVE RunInv
  OBVIOUS
<1>1. InStep(session) /\ session.state # "absent"
  BY DEF Init, NewSession, InStep, Done
<1>2. IsListing(<< >>)
  BY DEF IsListing, IsSequence
<1> QED  BY <1>1, <1>2 DEF Init, RunInv

LEMMA RecomputeRuns ==
  ASSUME CycleInv, RunInv, NEW E, Recompute(E), E = evidence \/ Submitted'
  PROVE  RunInv'
<1>1. /\ phase = "idle" /\ phase' = "reasoning" /\ evidence' = E /\ answer' = Silent
      /\ UNCHANGED <<considered, session, plan, results>>
  BY DEF Recompute
<1>2. session.state # "started" /\ evidence = considered
  BY <1>1 DEF CycleInv, InAState, RunInv
<1>3. evidence' = considered' \/ Submitted'
  BY <1>1, <1>2
<1> QED  BY <1>1, <1>2, <1>3 DEF RunInv

LEMMA SubmitRuns ==
  ASSUME CycleInv, RunInv, NEW batch \in Batches, Submit(batch)
  PROVE  RunInv'
<1>1. /\ session.status # "completed" /\ batch \intersect evidence = {}
      /\ Recompute(evidence \union batch)
  BY DEF Submit
<1>2. phase = "idle" /\ evidence' = evidence \union batch /\ UNCHANGED <<considered, session>>
  BY <1>1 DEF Recompute
<1>3. evidence = considered
  BY <1>2 DEF RunInv
<1>4. batch # {} => Submitted'
  BY <1>1, <1>2, <1>3 DEF Submitted
<1>5. evidence \union batch = evidence \/ Submitted'
  BY <1>4
<1> QED  BY <1>1, <1>5, RecomputeRuns

LEMMA ReasonRuns ==
  ASSUME RunInv, NEW reasoner \in DOMAIN reasonerPriority, Reason(reasoner)
  PROVE  RunInv'
<1>1. IsListing(results')
  BY ReasonListed DEF RunInv
<1>2. /\ phase = "reasoning" /\ UNCHANGED <<evidence, considered, session, plan, phase, draft>>
      /\ evidence = {} => answer' = answer
  BY DEF Reason
<1> QED  BY <1>1, <1>2 DEF RunInv, Submitted

LEMMA MergeRuns ==
  ASSUME CycleInv, RunInv, Merge
  PROVE  RunInv'
<1>1. IsListing(results') /\ InOrder(results')
  BY MergeListed DEF CycleInv, RunInv
<1>2. phase' = "applying" /\ UNCHANGED <<evidence, considered, session, plan, draft, answer>>
  BY DEF Merge
<1> QED  BY <1>1, <1>2 DEF RunInv, Submitted

LEMMA ApplyRuns ==
  ASSUME OneProposal, CycleInv, RunInv, Apply
  PROVE  RunInv'
<1>1. /\ phase = "applying" /\ phase' = "asking" /\ results' = << >>
      /\ draft' = Applied(Draft, results)
      /\ UNCHANGED <<evidence, considered, session, plan, answer>>
  BY DEF Apply
<1>2. IsReached(Draft)
  <2>1. IsApplying(Draft) /\ IsSession(session)
    BY BegunApplies DEF CycleInv
  <2>2. Draft.session = Begun(session) /\ Draft.plan = plan
    BY DEF Draft
  <2>3. InStep(session)
    BY DEF RunInv
  <2>4. /\ Begun(session).state = IF Done(session) THEN "completed" ELSE "reasoning"
        /\ Begun(session).status = session.status
    BY <2>1 DEF Begun, IsSession, Done
  <2>5. (Done(Begun(session)) <=> Done(session)) /\ InStep(Begun(session))
    BY <2>3, <2>4 DEF InStep, Done
  <2> QED  BY <2>1, <2>2, <2>5 DEF IsReached, Reached, Untouched
<1>3. IsReached(draft') /\ (evidence = {} => draft'.session.progress = 0)
  <2>1. /\ IsEvidence(evidence) /\ IsSession(session) /\ answer \in Answers /\ plan \in Plan
        /\ evidence = {} => answer = Silent
        /\ InOrder(results)
    BY <1>1 DEF CycleInv, RunInv
  <2> QED  BY <1>1, <1>2, <2>1, AppliedReaches DEF Unprogressed
<1>4. /\ InStep(draft'.session) /\ draft'.plan \in Plan /\ Agree(draft'.plan)
      /\ Reached(draft'.plan, Done(draft'.session))
  BY <1>3 DEF IsReached, IsApplying, IsWork
<1>5. Running'
  <2>0. PICK p : p = draft'.plan
    OBVIOUS
  <2>1. Reached(p, Done(draft.session))'
    BY <1>1, <1>4, <2>0 DEF Reached, Untouched, Ended, OneSettled, WithVerdict, Done
  <2>2. RunFrom(p)'
    BY <1>1, <2>0 DEF RunFrom
  <2>3. InStep(draft.session)' /\ Unprogressed(draft)'
    BY <1>1, <1>3, <1>4 DEF InStep, Unprogressed, Done
  <2> QED  BY <1>4, <2>0, <2>1, <2>2, <2>3 DEF Running
<1>6. IsListing(<< >>)
  BY DEF IsListing, IsSequence
<1> QED  BY <1>1, <1>5, <1>6 DEF RunInv, Submitted

(* The protocol run, step by step.                                         *)
LEMMA RunningOn ==
  ASSUME CycleInv, RunInv, Running, Running',
         UNCHANGED <<evidence, considered, session, answer, results>>,
         phase' \in {"resolving", "following", "concluding"}
  PROVE  RunInv'
  BY DEF RunInv, Submitted

LEMMA AskRuns ==
  ASSUME CycleInv, RunInv, Ask
  PROVE  RunInv'
<1>1. /\ phase \in {"asking", "following"}
      /\ phase' = IF phase = "asking" THEN "resolving" ELSE "concluding"
      /\ draft' = [draft EXCEPT !.plan = AskedAfter(draft.plan, evidence)]
      /\ UNCHANGED <<evidence, considered, session, plan, answer, results>>
  BY DEF Ask
<1>2. Running /\ IsWork(draft)
  BY <1>1 DEF RunInv, CycleInv
<1>3. /\ draft'.plan = AskedAfter(draft.plan, evidence)
      /\ draft'.session = draft.session /\ draft'.turn = draft.turn
  BY <1>1, <1>2 DEF IsWork
<1>4. PICK p \in Plan : Agree(p) /\ Reached(p, Done(draft.session)) /\ RunFrom(p)
  BY <1>2 DEF Running
<1>5. RunFrom(p)'
  BY <1>1, <1>3, <1>4 DEF RunFrom
<1>6. Reached(p, Done(draft.session))'
  BY <1>1, <1>3, <1>4 DEF Reached, Untouched, Ended, OneSettled, WithVerdict, Done
<1>7. InStep(draft.session)' /\ Unprogressed(draft)'
  BY <1>1, <1>2, <1>3 DEF Running, InStep, Unprogressed, Done
<1>8. Running'
  BY <1>4, <1>5, <1>6, <1>7 DEF Running
<1> QED  BY <1>1, <1>2, <1>8, RunningOn

LEMMA ResolvedTurn ==
  ASSUME NEW p \in Plan, NEW listing, IsListing(listing), ToSet(listing) = Asked(p)
  PROVE  ToSet(Resolved(p, listing)) = {q \in Question : Conclusive(p, q, evidence)}
<1> DEFINE n == Len(listing)
           S == {i \in DOMAIN listing : Conclusive(p, listing[i], evidence)}
<1>1. n \in Nat /\ DOMAIN listing = 1 .. n
  BY DEF IsListing, IsSequence
<1>2. Resolved(p, listing) = Selected(listing, S) /\ S \in SUBSET (1 .. n)
  BY <1>1 DEF Resolved
<1>3. ToSet(Resolved(p, listing)) = {listing[i] : i \in S}
  <2> HIDE DEF n, S
  <2> QED  BY <1>1, <1>2, SelectedFrom
<1>4. ASSUME NEW q \in Question, Conclusive(p, q, evidence) PROVE \E i \in S : q = listing[i]
  <2>1. q \in ToSet(listing)
    BY <1>4 DEF Conclusive, Asked, Open
  <2> QED  BY <1>4, <2>1 DEF ToSet
<1>5. ASSUME NEW i \in S PROVE listing[i] \in Question /\ Conclusive(p, listing[i], evidence)
  BY DEF ToSet, Asked
<1> HIDE DEF S
<1> QED  BY <1>3, <1>4, <1>5

LEMMA ResolveRuns ==
  ASSUME CycleInv, RunInv, ResolveTurn
  PROVE  RunInv'
<1> DEFINE s == draft.session
           after == ResolveQuestions(draft.plan, evidence)
           hyps == applyPlaybookEffects(s.hyps, draft.plan, Resolved(draft.plan, order))
           Q == ToSet(Resolved(draft.plan, order))
           t == [s EXCEPT !.hyps = hyps]
<1>1. /\ phase = "resolving" /\ phase' = "following"
      /\ UNCHANGED <<evidence, considered, session, plan, answer, results>>
  BY DEF ResolveTurn
<1>2. Running /\ IsWork(draft) /\ IsListing(order) /\ ToSet(order) = Asked(draft.plan)
  BY <1>1 DEF RunInv, CycleInv
<1>3. draft' = [draft EXCEPT !.plan = after, !.session = t, !.turn = Q]
  BY <1>2 DEF ResolveTurn, IsWork
<1>4. Q = {q \in Question : Conclusive(draft.plan, q, evidence)}
  BY <1>2, ResolvedTurn DEF IsWork
<1> HIDE DEF hyps, Q
<1>5. t.state = s.state /\ t.status = s.status /\ t.progress = s.progress
  BY <1>2 DEF IsWork, IsSession
<1> HIDE DEF t
<1>6. draft'.plan = after /\ draft'.session = t /\ draft'.turn = Q
  BY <1>2, <1>3 DEF IsWork
<1> HIDE DEF s
<1>7. PICK p \in Plan : Agree(p) /\ Reached(p, Done(draft.session)) /\ RunFrom(p)
  BY <1>2 DEF Running
<1>8. RunFrom(p)'
  BY <1>1, <1>4, <1>6, <1>7 DEF RunFrom
<1>9. Reached(p, Done(draft.session))'
  BY <1>1, <1>5, <1>6, <1>7 DEF Reached, Untouched, Ended, OneSettled, WithVerdict, Done, s
<1>10. InStep(draft.session)' /\ Unprogressed(draft)'
  BY <1>1, <1>2, <1>5, <1>6 DEF Running, InStep, Unprogressed, Done, s
<1>11. Running'
  BY <1>7, <1>8, <1>9, <1>10 DEF Running
<1> QED  BY <1>1, <1>2, <1>11, RunningOn

-----------------------------------------------------------------------------
(* The end of a recompute is the call of the runtime it was made for.      *)

(* A plan's history grows by this turn's verdicts, and by nothing else.    *)
LEMMA WeighedTurn ==
  ASSUME plan \in Plan, NEW p \in Plan, Agree(p), NEW done, Reached(p, done),
         evidence \in SUBSET Evidence,
         NEW run \in SyncEvidenceRequests(AskedAfter(
                       ResolveQuestions(AskedAfter(p, evidence), evidence), evidence), evidence)
  PROVE  {q \in Question : run.history[q] # plan.history[q]}
           = {q \in Question : Conclusive(AskedAfter(p, evidence), q, evidence)}
<1> DEFINE asked == AskedAfter(p, evidence)
           resolved == ResolveQuestions(asked, evidence)
           again == AskedAfter(resolved, evidence)
<1>1. p.history = plan.history
  BY DEF Reached, Untouched, Ended, OneSettled, WithVerdict, Plan
<1>2. asked \in Plan /\ Agree(asked) /\ asked.history = p.history
  BY AskedAfterAdvances, AskedKeeps DEF Advances
<1> HIDE DEF asked
<1>3. resolved \in Plan /\ Agree(resolved)
  BY <1>2, ResolveAdvances DEF Advances
<1>4. \A q \in Question : resolved.history[q]
        = IF Conclusive(asked, q, evidence) THEN Append(asked.history[q], Resolve(asked, q, evidence))
          ELSE asked.history[q]
  BY <1>2 DEF ResolveQuestions, Plan
<1> HIDE DEF resolved
<1>5. again \in Plan /\ again.history = resolved.history
  BY <1>3, AskedAfterAdvances, AskedKeeps DEF Advances
<1> HIDE DEF again
<1>6. run \in SyncEvidenceRequests(again, evidence)
  BY DEF again, resolved, asked
<1>7. run.history = resolved.history
  BY <1>5, <1>6, SyncKeeps
<1>8. \A q \in Question : run.history[q] # plan.history[q] <=> Conclusive(asked, q, evidence)
  <2> SUFFICES ASSUME NEW q \in Question
               PROVE  run.history[q] # plan.history[q] <=> Conclusive(asked, q, evidence)
    OBVIOUS
  <2> DEFINE log == asked.history[q]
             verdict == Resolve(asked, q, evidence)
  <2>1. log = plan.history[q] /\ log \in Seq(Outcome)
    BY <1>1, <1>2 DEF Plan
  <2>2. Conclusive(asked, q, evidence) => verdict \in Outcome
    BY DEF Conclusive
  <2>3. run.history[q] = IF Conclusive(asked, q, evidence) THEN Append(log, verdict) ELSE log
    BY <1>4, <1>7
  <2> HIDE DEF log, verdict
  <2>4. verdict \in Outcome => Append(log, verdict) # log
    <3>1. ASSUME verdict \in Outcome PROVE Len(Append(log, verdict)) = Len(log) + 1 /\ Len(log) \in Nat
      BY <2>1, <3>1
    <3> QED  BY <3>1
  <2> QED  BY <2>1, <2>2, <2>3, <2>4
<1> QED  BY <1>8 DEF asked

LEMMA ConcludeDerives ==
  ASSUME ShippedNeeds, CycleInv, RunInv, Conclude
  PROVE  /\ \E r \in Runtime!Reasoned(evidence) : Runtime!Derive(evidence, r)
         /\ InStep(session') /\ session'.state \notin {"started", "absent"}
<1> DEFINE s == draft.session
           required == Heaviest(protocolToLegacyRequests(plan'))
           done == Done(s)
           a == Judgement(session')
<1>1. /\ phase = "concluding" /\ considered' = evidence /\ turn' = draft.turn
      /\ plan' \in SyncEvidenceRequests(draft.plan, evidence)
      /\ session' = Assessed(s, required)
  BY DEF Conclude
<1>2. /\ IsWork(draft) /\ InRange(s.hyps) /\ IsEvidence(evidence) /\ evidence \in SUBSET Evidence
      /\ plan \in Plan /\ InStep(session) /\ Running
      /\ evidence = {} => answer = Silent
  BY <1>1 DEF CycleInv, RunInv, IsEvidence, Shared
<1>3. PICK p \in Plan : Agree(p) /\ Reached(p, done) /\ RunFrom(p)
  BY <1>2 DEF Running
<1>4. PICK o \in Runtime!ReasoningOutcomes(plan, evidence) :
        o.plan = p /\ (done <=> o.completes \/ session.status = "completed")
  BY <1>2, <1>3, ReachedOutcome
<1>5. /\ draft.plan = AskedAfter(ResolveQuestions(AskedAfter(p, evidence), evidence), evidence)
      /\ draft.turn = {q \in Question : Conclusive(AskedAfter(p, evidence), q, evidence)}
  BY <1>1, <1>3 DEF RunFrom
<1>6. turn' = {q \in Question : plan'.history[q] # plan.history[q]}
  <2> PICK run : run = plan'
    OBVIOUS
  <2> QED  BY <1>1, <1>2, <1>3, <1>5, WeighedTurn
<1>7. plan' \in Runtime!ProtocolRuns(o.plan, evidence)
  BY <1>1, <1>4, <1>5, SameRuns
<1> DEFINE r == [plan |-> plan', done |-> o.completes \/ session.status = "completed"]
<1>8. r \in Runtime!Reasoned(evidence)
  BY <1>7 DEF Runtime!Reasoned
<1>9. r.plan = plan' /\ (r.done <=> done)
  BY <1>4
<1>10. Missing(evidence, required) # {} <=> plan'.requests # {}
  BY <1>1, <1>2, RequestsMissing DEF IsWork
<1>11. /\ a \in Runtime!Assessments(evidence)
       /\ InStep(session')
       /\ session'.state = Runtime!Transition(IF done THEN "completed" ELSE "reasoning",
                                              evidence, plan'.requests, a)
       /\ session'.status = Runtime!DeriveStatus(done, session'.state, a)
  BY <1>1, <1>2, <1>10, AssessedDerives DEF IsWork, Running, Unprogressed
<1>12. session'.state \notin {"started", "absent"}
  <2> HIDE DEF required, a, done
  <2> QED  BY <1>11 DEF Runtime!Transition
<1> DEFINE was == IF session.state = "started" THEN "absent" ELSE session.state
           now == IF session'.state = "started" THEN "absent" ELSE session'.state
<1>13. (IF r.done THEN "completed" ELSE Runtime!BeginReasoning(was))
         = IF done THEN "completed" ELSE "reasoning"
  <2>1. ~done => session.state # "completed"
    BY <1>2, <1>4 DEF InStep, Done
  <2> HIDE DEF r, done
  <2> QED  BY <1>9, <2>1 DEF Runtime!BeginReasoning
<1>14. now = Runtime!Transition(IF r.done THEN "completed" ELSE Runtime!BeginReasoning(was),
                                evidence, r.plan.requests, a)
  BY <1>9, <1>11, <1>12, <1>13
<1>15. session'.status = Runtime!DeriveStatus(r.done, now, a)
  BY <1>9, <1>11, <1>12 DEF Runtime!DeriveStatus
<1>16. a.confident = (session'.confidence >= MinConfidence)
  BY DEF Judgement
<1>17. Runtime!AdoptPlan(evidence, r)
  BY <1>1, <1>6, <1>9 DEF Runtime!AdoptPlan
<1> HIDE DEF r, a
<1>18. Runtime!Derive(evidence, r)
  BY <1>11, <1>14, <1>15, <1>16, <1>17 DEF Runtime!Derive
<1> QED  BY <1>8, <1>11, <1>12, <1>18

LEMMA ConcludeCalls ==
  ASSUME ShippedNeeds, CycleInv, RunInv, Conclude
  PROVE  RuntimeCall
<1>1. phase = "concluding" /\ considered' = evidence
  BY DEF Conclude
<1>2. PICK r \in Runtime!Reasoned(evidence) : Runtime!Derive(evidence, r)
  BY ConcludeDerives
<1>3. /\ session.state # "absent" /\ (session.state = "started" => evidence = {})
      /\ evidence = considered \/ Submitted
      /\ considered \subseteq evidence
  BY DEF RunInv, CycleInv
<1>4. CASE session.state = "started"
  <2>1. evidence = {} /\ considered' = considered
    BY <1>1, <1>3, <1>4
  <2>2. Runtime!Start
    BY <1>2, <1>4, <2>1 DEF Runtime!Start, Runtime!Live
  <2> QED  BY <2>2 DEF RuntimeCall
<1>5. CASE session.state # "started" /\ evidence = considered
  <2>1. Runtime!Get
    BY <1>1, <1>2, <1>3, <1>5 DEF Runtime!Get, Runtime!Live
  <2> QED  BY <2>1 DEF RuntimeCall
<1>6. CASE session.state # "started" /\ Submitted
  <2>1. PICK batch \in Batches :
          batch # {} /\ batch \intersect considered = {} /\ evidence = considered \union batch
    BY <1>6 DEF Submitted
  <2>2. session.status # "completed"
    BY <1>6 DEF Submitted
  <2>3. Runtime!SubmitBatch(batch)
    BY <1>1, <1>2, <1>3, <1>6, <2>1, <2>2 DEF Runtime!SubmitBatch, Runtime!Live
  <2> QED  BY <2>3 DEF RuntimeCall
<1> QED  BY <1>3, <1>4, <1>5, <1>6

LEMMA ConcludeRuns ==
  ASSUME ShippedNeeds, CycleInv, RunInv, Conclude
  PROVE  RunInv'
<1>1. /\ phase' = "idle" /\ considered' = evidence /\ UNCHANGED <<evidence, results, answer>>
  BY DEF Conclude
<1>2. InStep(session') /\ session'.state \notin {"started", "absent"}
  BY ConcludeDerives
<1>3. InStep(session)'
  BY <1>2 DEF InStep, Done
<1> QED  BY <1>1, <1>2, <1>3 DEF RunInv

LEMMA NextRuns ==
  ASSUME OneProposal, ShippedNeeds, CycleInv, RunInv, [Next]_vars
  PROVE  RunInv' /\ (UNCHANGED <<considered, session, plan, turn>> \/ RuntimeCall)
<1>1. CASE Conclude
  BY <1>1, ConcludeRuns, ConcludeCalls
<1>2. CASE \E batch \in Batches : Submit(batch)
  BY <1>2, SubmitRuns DEF Submit, Recompute
<1>3. CASE Get
  <2>1. Recompute(evidence)
    BY <1>3 DEF Get
  <2> QED  BY <2>1, RecomputeRuns DEF Recompute
<1>4. CASE \E reasoner \in DOMAIN reasonerPriority : Reason(reasoner)
  BY <1>4, ReasonRuns DEF Reason
<1>5. CASE Merge
  BY <1>5, MergeRuns DEF Merge
<1>6. CASE Apply
  BY <1>6, ApplyRuns DEF Apply
<1>7. CASE Ask
  BY <1>7, AskRuns DEF Ask
<1>8. CASE ResolveTurn
  BY <1>8, ResolveRuns DEF ResolveTurn
<1>9. CASE UNCHANGED vars
  BY <1>9 DEF vars, RunInv, Submitted, Running, RunFrom, Reached, Untouched, Ended, OneSettled,
              WithVerdict, Unprogressed, InStep, Done
<1> QED  BY <1>1, <1>2, <1>3, <1>4, <1>5, <1>6, <1>7, <1>8, <1>9 DEF Next

-----------------------------------------------------------------------------
(* A recompute nothing comes into.                                         *)

(* The field as the reasoners leave it, and as a protocol run without a    *)
(* verdict leaves it; what the open questions of the plan still need.      *)
FieldLed  == IF Leads THEN ApplyToHypotheses(Field[evidence], LeaderFound) ELSE Field[evidence]
FieldLeft == IF Doubts THEN ApplyToHypotheses(FieldLed, DeploymentDoubted) ELSE FieldLed
FieldKept == Rescaled(NoneNegative(FieldLeft), Everyone)

Needed == Heaviest(protocolToLegacyRequests(plan))

(* What session s lends the recompute that reads it.                       *)
Reasoned(r, s) ==
  /\ r.progress = Clamp(ProgressSeen.progress, 0, 1000)
  /\ r.contradictions = Detect(evidence)
  /\ r.coverage = Coverage(evidence, IF DOMAIN s.required = {} THEN Required(evidence)
                                     ELSE s.required)
  /\ r.graph = Build(evidence, s.hyps, plan)

(* Hypotheses and required evidence have caught up with evidence and plan. *)
CaughtUp(s) == s.hyps = FieldKept /\ s.required = Needed

(* Session r is what a recompute makes of session s when nothing comes in. *)
Reread(r, s) ==
  CaughtUp(r) /\ Reasoned(r, s) /\ Scored(r, Done(s), s.status = "completed")

(* The recompute under way, as long as the host kept silent.               *)
Undisturbed ==
  /\ RunFrom(plan)
  /\ Reasoned(draft.session, session)
  /\ (Done(draft.session) <=> Done(session)) /\ draft.session.status = session.status
  /\ phase \in {"asking", "resolving"} => draft.session.hyps = FieldLeft
  /\ phase \in {"following", "concluding"} /\ draft.turn = {} => draft.session.hyps = FieldKept

(* What recomputes in a row nothing came into have made of the session.    *)
Calmed ==
  /\ calm # 0 => CaughtUp(session) /\ turn = {}
  /\ calm = 2 => \E s : CaughtUp(s) /\ Reread(session, s)

StillInv ==
  /\ IsListing(results)
  /\ phase = "applying" => InOrder(results)
  /\ phase = "idle" => evidence = considered
  /\ evidence = considered => Calmed
  /\ answer = Silent /\ phase \in {"asking", "resolving", "following", "concluding"} => Undisturbed


SessionParts == DOMAIN NewSession

(* An action of the reasoners sets one part of the session.                *)
SetsOnly(part, value, work, new) ==
  /\ IsApplying(new) /\ new.plan = work.plan
  /\ \A x \in SessionParts : new.session[x] = IF x = part THEN value ELSE work.session[x]

LEMMA PartsOfSession ==
  /\ SessionParts = {"required", "progress", "hyps", "contradictions", "coverage", "graph",
                     "confidence", "canAnswer", "blocking", "percent", "state", "status"}
  /\ \A s : IsSession(s) => DOMAIN s = SessionParts
  BY DEF SessionParts, NewSession, IsSession

LEMMA SessionSet ==
  ASSUME NEW work, IsApplying(work), NEW part \in SessionParts, NEW value,
         NEW new, IsApplying(new), new = WithSession(work, [work.session EXCEPT ![part] = value])
  PROVE  SetsOnly(part, value, work, new)
<1> DEFINE s == work.session
           t == [s EXCEPT ![part] = value]
<1>1. DOMAIN s = SessionParts
  BY PartsOfSession DEF IsApplying, IsWork
<1>2. \A x \in SessionParts : t[x] = IF x = part THEN value ELSE s[x]
  BY <1>1
<1> HIDE DEF t, s
<1>3. new.session = t /\ new.plan = work.plan
  <2>1. DOMAIN work = {"session", "plan", "graph", "turn"}
    BY WorkDomains
  <2> QED  BY <2>1 DEF WithSession, t, s
<1> QED  BY <1>2, <1>3 DEF SetsOnly, s

LEMMA ActionSets ==
  ASSUME NEW work, IsApplying(work), NEW a, IsProposal(a)
  PROVE  LET new == Tried(work, a) IN
         /\ a.type = "SetProgress" => SetsOnly("progress", Clamp(a.progress, 0, 1000), work, new)
         /\ a.type = "SetCoverage" => SetsOnly("coverage", a.coverage, work, new)
         /\ a.type = "SetContradictions" => SetsOnly("contradictions", a.contradictions, work, new)
         /\ a.type = "UpdateGraph" => SetsOnly("graph", a.graph, work, new)
         /\ a.type = "LinkGraphNodes" => SetsOnly("graph", new.session.graph, work, new)
         /\ a.type \in {"ReplaceHypotheses", "PromoteHypothesis"}
                \/ (a.type = "AdjustHypothesis" /\ a.delta # 0 /\ a.delta \in -500 .. 500) =>
              SetsOnly("hyps", ApplyToHypotheses(work.session.hyps, a), work, new)
<1> DEFINE new == Tried(work, a)
           s == work.session
<1>1. IsApplying(new)
  BY TriedApplies
<1>2. /\ DOMAIN work = {"session", "plan", "graph", "turn"}
      /\ SessionParts = {"required", "progress", "hyps", "contradictions", "coverage", "graph",
                         "confidence", "canAnswer", "blocking", "percent", "state", "status"}
  BY WorkDomains, PartsOfSession
<1>3. a.type # "AdjustHypothesis" /\ a.type # "SettleQuestion" => new = applyOne(work, a)
  BY DEF Tried, Validate
<1> HIDE DEF new
<1>4. CASE a.type = "SetProgress"
  <2>1. new = WithSession(work, [s EXCEPT !["progress"] = Clamp(a.progress, 0, 1000)])
    BY <1>2, <1>3, <1>4 DEF applyOne, WithSession
  <2>2. SetsOnly("progress", Clamp(a.progress, 0, 1000), work, new)
    BY <1>1, <1>2, <2>1, SessionSet
  <2> QED  BY <1>4, <2>2 DEF new
<1>5. CASE a.type = "SetCoverage"
  <2>1. new = WithSession(work, [s EXCEPT !["coverage"] = a.coverage])
    BY <1>2, <1>3, <1>5 DEF applyOne, WithSession
  <2>2. SetsOnly("coverage", a.coverage, work, new)
    BY <1>1, <1>2, <2>1, SessionSet
  <2> QED  BY <1>5, <2>2 DEF new
<1>6. CASE a.type = "SetContradictions"
  <2>1. new = WithSession(work, [s EXCEPT !["contradictions"] = a.contradictions])
    BY <1>2, <1>3, <1>6 DEF applyOne, WithSession
  <2>2. SetsOnly("contradictions", a.contradictions, work, new)
    BY <1>1, <1>2, <2>1, SessionSet
  <2> QED  BY <1>6, <2>2 DEF new
<1>7. CASE a.type = "UpdateGraph"
  <2>1. new = WithSession(work, [s EXCEPT !["graph"] = a.graph])
    BY <1>2, <1>3, <1>7 DEF applyOne, WithSession
  <2>2. SetsOnly("graph", a.graph, work, new)
    BY <1>1, <1>2, <2>1, SessionSet
  <2> QED  BY <1>7, <2>2 DEF new
<1>8. CASE a.type = "LinkGraphNodes"
  <2> DEFINE linked == AddEdges(work.graph, Linkable(work.graph, a.edges))
             t == [s EXCEPT !["graph"] = linked]
  <2>1. new = ApplyLinks(work, a.edges)
    BY <1>3, <1>8 DEF applyOne
  <2>2. new = work \/ new = [work EXCEPT !.graph = linked, !.session.graph = linked]
    BY <2>1 DEF ApplyLinks
  <2> HIDE DEF linked
  <2>3. new = work \/ new = [work EXCEPT !.session = t, !.graph = linked]
    BY <1>2, <2>2
  <2>4. \A x \in SessionParts : t[x] = IF x = "graph" THEN t.graph ELSE s[x]
    BY WorkDomains, PartsOfSession
  <2> HIDE DEF t
  <2>5. new = work \/ (new.plan = work.plan /\ new.session = t)
    BY <1>2, <2>3
  <2> HIDE DEF s
  <2>6. SetsOnly("graph", new.session.graph, work, new)
    BY <1>1, <1>2, <2>4, <2>5 DEF SetsOnly, s
  <2> QED  BY <1>8, <2>6 DEF new
<1>9. CASE \/ a.type \in {"ReplaceHypotheses", "PromoteHypothesis"}
          \/ (a.type = "AdjustHypothesis" /\ a.delta # 0 /\ a.delta \in -500 .. 500)
  <2> DEFINE h == ApplyToHypotheses(s.hyps, a)
  <2>1. new = applyOne(work, a)
    BY <1>9 DEF Tried, Validate, new
  <2>2. new = WithSession(work, [s EXCEPT !["hyps"] = h])
    BY <1>2, <1>9, <2>1 DEF applyOne, WithSession
  <2> HIDE DEF h
  <2>3. SetsOnly("hyps", h, work, new)
    BY <1>1, <1>2, <2>2, SessionSet
  <2> QED  BY <1>9, <2>3 DEF new, h
<1> QED  BY <1>4, <1>5, <1>6, <1>7, <1>8, <1>9 DEF new


(* What a reasoner leaves as it is.                                        *)
LeavesBut(parts, work, new) ==
  /\ IsApplying(new) /\ new.plan = work.plan
  /\ \A x \in SessionParts \ parts : new.session[x] = work.session[x]

LEMMA TemporalSets ==
  ASSUME IsEvidence(evidence), IsSession(session), NEW work, IsApplying(work)
  PROVE  LET new == Taken(work, "temporal") IN
         /\ LeavesBut({"progress", "graph"}, work, new)
         /\ new.session.progress = Clamp(ProgressSeen.progress, 0, 1000)
<1> DEFINE one == Tried(work, ProgressSeen)
           two == Tried(one, LinksSeen)
           value == Clamp(ProgressSeen.progress, 0, 1000)
<1>1. /\ IsProposal(ProgressSeen) /\ IsProposal(LinksSeen)
      /\ ProgressSeen.type = "SetProgress" /\ LinksSeen.type = "LinkGraphNodes"
  BY ReasonersActions DEF ProgressSeen, LinksSeen
<1>2. Taken(work, "temporal") = two
  BY TemporalTaken
<1>3. SetsOnly("progress", value, work, one)
  BY <1>1, ActionSets
<1> HIDE DEF one, value
<1>4. SetsOnly("graph", two.session.graph, one, two)
  BY <1>1, <1>3, ActionSets DEF SetsOnly
<1> HIDE DEF two
<1>5. "progress" \in SessionParts
  BY PartsOfSession
<1>6. LeavesBut({"progress", "graph"}, work, two) /\ two.session.progress = value
  BY <1>3, <1>4, <1>5 DEF LeavesBut, SetsOnly
<1> QED  BY <1>2, <1>6 DEF value

LEMMA HypothesisSets ==
  ASSUME IsEvidence(evidence), IsSession(session), NEW work, IsApplying(work)
  PROVE  LET new == Taken(work, "hypothesis") IN
         /\ LeavesBut({"hyps", "coverage", "graph"}, work, new)
         /\ new.session.hyps = FieldLed
         /\ new.session.coverage = CoverageFound.coverage
         /\ new.session.graph = GraphBuilt.graph
<1> DEFINE one == Tried(work, FieldFound)
           two == Tried(one, CoverageFound)
           three == Tried(two, GraphBuilt)
           four == Tried(three, LeaderFound)
           field == Field[evidence]
           last == Taken(work, "hypothesis")
<1>1. /\ IsProposal(FieldFound) /\ IsProposal(CoverageFound)
      /\ IsProposal(GraphBuilt) /\ IsProposal(LeaderFound)
      /\ FieldFound.type = "ReplaceHypotheses" /\ CoverageFound.type = "SetCoverage"
      /\ GraphBuilt.type = "UpdateGraph" /\ LeaderFound.type = "PromoteHypothesis"
  BY ReasonersActions DEF FieldFound, CoverageFound, GraphBuilt, LeaderFound
<1>2. last = IF Leads THEN four ELSE three
  BY HypothesisTaken DEF WithFound
<1>3. \A hyps : ApplyToHypotheses(hyps, FieldFound) = field
  BY DEF ApplyToHypotheses, FieldFound
<1>4. FieldLed = IF Leads THEN ApplyToHypotheses(field, LeaderFound) ELSE field
  BY DEF FieldLed
<1> HIDE DEF last, field
<1>5. SetsOnly("hyps", field, work, one)
  BY <1>1, <1>3, ActionSets
<1> HIDE DEF one
<1>6. SetsOnly("coverage", CoverageFound.coverage, one, two)
  <2>1. IsApplying(one)
    BY <1>5 DEF SetsOnly
  <2> QED  BY <1>1, <2>1, ActionSets
<1> HIDE DEF two
<1>7. SetsOnly("graph", GraphBuilt.graph, two, three)
  <2>1. IsApplying(two)
    BY <1>6 DEF SetsOnly
  <2> QED  BY <1>1, <2>1, ActionSets
<1> HIDE DEF three
<1>8. SetsOnly("hyps", ApplyToHypotheses(three.session.hyps, LeaderFound), three, four)
  <2>1. IsApplying(three)
    BY <1>7 DEF SetsOnly
  <2> QED  BY <1>1, <2>1, ActionSets
<1> HIDE DEF four
<1>9. {"hyps", "coverage", "graph"} \subseteq SessionParts
  BY PartsOfSession
<1>10. /\ LeavesBut({"hyps", "coverage", "graph"}, work, three)
       /\ three.session.hyps = field /\ three.session.coverage = CoverageFound.coverage
       /\ three.session.graph = GraphBuilt.graph
  BY <1>5, <1>6, <1>7, <1>9 DEF LeavesBut, SetsOnly
<1>11. /\ LeavesBut({"hyps", "coverage", "graph"}, work, four)
       /\ four.session.hyps = ApplyToHypotheses(field, LeaderFound)
       /\ four.session.coverage = CoverageFound.coverage
       /\ four.session.graph = GraphBuilt.graph
  BY <1>8, <1>9, <1>10 DEF LeavesBut, SetsOnly
<1>12. CASE Leads
  BY <1>2, <1>4, <1>11, <1>12 DEF last
<1>13. CASE ~Leads
  BY <1>2, <1>4, <1>10, <1>13 DEF last
<1> QED  BY <1>12, <1>13

LEMMA ConsistencySets ==
  ASSUME IsEvidence(evidence), IsSession(session), NEW work, IsApplying(work)
  PROVE  LET new == Taken(work, "consistency") IN
         /\ LeavesBut({"hyps", "contradictions"}, work, new)
         /\ new.session.contradictions = Detect(evidence)
         /\ new.session.hyps = IF Doubts THEN ApplyToHypotheses(work.session.hyps, DeploymentDoubted)
                               ELSE work.session.hyps
<1> DEFINE one == Tried(work, ContradictionsFound)
           two == Tried(one, DeploymentDoubted)
           found == Detect(evidence)
           last == Taken(work, "consistency")
<1>1. /\ IsProposal(ContradictionsFound) /\ IsProposal(DeploymentDoubted)
      /\ ContradictionsFound.type = "SetContradictions"
      /\ ContradictionsFound.contradictions = found
      /\ DeploymentDoubted.type = "AdjustHypothesis"
      /\ DeploymentDoubted.delta # 0 /\ DeploymentDoubted.delta \in -500 .. 500
  BY ReasonersActions DEF ContradictionsFound, DeploymentDoubted
<1>2. last = IF Doubts THEN two ELSE one
  BY ConsistencyTaken
<1> HIDE DEF last, found
<1>3. SetsOnly("contradictions", found, work, one)
  BY <1>1, ActionSets
<1> HIDE DEF one
<1>4. SetsOnly("hyps", ApplyToHypotheses(one.session.hyps, DeploymentDoubted), one, two)
  BY <1>1, <1>3, ActionSets DEF SetsOnly
<1> HIDE DEF two
<1>5. {"hyps", "contradictions"} \subseteq SessionParts
  BY PartsOfSession
<1>6. /\ LeavesBut({"hyps", "contradictions"}, work, one)
      /\ one.session.hyps = work.session.hyps /\ one.session.contradictions = found
  BY <1>3, <1>5 DEF LeavesBut, SetsOnly
<1>7. /\ LeavesBut({"hyps", "contradictions"}, work, two)
      /\ two.session.hyps = ApplyToHypotheses(work.session.hyps, DeploymentDoubted)
      /\ two.session.contradictions = found
  BY <1>4, <1>5, <1>6 DEF LeavesBut, SetsOnly
<1>8. CASE Doubts
  BY <1>2, <1>7, <1>8 DEF last, found
<1>9. CASE ~Doubts
  BY <1>2, <1>6, <1>9 DEF last, found
<1> QED  BY <1>8, <1>9

LEMMA AppliedSilently ==
  ASSUME IsEvidence(evidence), IsSession(session), answer = Silent,
         NEW work, IsApplying(work), NEW merged, InOrder(merged)
  PROVE  LET new == Applied(work, merged) IN
         /\ new.plan = work.plan
         /\ new.session.state = work.session.state /\ new.session.status = work.session.status
         /\ Reasoned(new.session, session)
         /\ new.session.hyps = FieldLeft
<1> DEFINE one == Taken(work, "temporal")
           two == Taken(one, "hypothesis")
           three == Taken(two, "consistency")
<1>1. Applied(work, merged) = three
  BY AppliedInOrder, SilentTaken
<1>2. /\ LeavesBut({"progress", "graph"}, work, one)
      /\ one.session.progress = Clamp(ProgressSeen.progress, 0, 1000)
  BY TemporalSets
<1> HIDE DEF one
<1>3. IsApplying(one)
  BY <1>2 DEF LeavesBut
<1>4. /\ LeavesBut({"hyps", "coverage", "graph"}, one, two)
      /\ two.session.hyps = FieldLed /\ two.session.coverage = CoverageFound.coverage
      /\ two.session.graph = GraphBuilt.graph
  BY <1>3, HypothesisSets
<1> HIDE DEF two
<1>5. IsApplying(two)
  BY <1>4 DEF LeavesBut
<1>6. /\ LeavesBut({"hyps", "contradictions"}, two, three)
      /\ three.session.contradictions = Detect(evidence)
      /\ three.session.hyps = FieldLeft
  BY <1>4, <1>5, ConsistencySets DEF FieldLeft
<1> HIDE DEF three
<1>7. /\ three.plan = work.plan
      /\ three.session.state = work.session.state /\ three.session.status = work.session.status
      /\ three.session.progress = one.session.progress
      /\ three.session.coverage = two.session.coverage /\ three.session.graph = two.session.graph
  BY <1>2, <1>4, <1>6, PartsOfSession DEF LeavesBut
<1>8. Reasoned(three.session, session)
  BY <1>2, <1>4, <1>6, <1>7 DEF Reasoned, CoverageFound, GraphBuilt
<1> QED  BY <1>1, <1>6, <1>7, <1>8

(* Two sessions scored from the same figures are the same.                 *)
LEMMA RereadTwice ==
  ASSUME NEW s, CaughtUp(s), NEW r, Reread(r, s), NEW t, Reread(t, r)
  PROVE  t = r
<1>1. /\ t.hyps = r.hyps /\ t.required = r.required /\ t.progress = r.progress
      /\ t.contradictions = r.contradictions /\ t.coverage = r.coverage /\ t.graph = r.graph
  BY DEF Reread, Reasoned, CaughtUp
<1>2. Scored(r, Done(s), s.status = "completed") /\ Scored(t, Done(r), r.status = "completed")
  BY DEF Reread
<1>3. t.confidence = r.confidence /\ t.blocking = r.blocking
  BY <1>1, <1>2 DEF Scored
<1>4. t.canAnswer = r.canAnswer /\ t.percent = r.percent
  <2>1. /\ r.canAnswer = Evaluate(evidence, r.hyps, r.contradictions, r.confidence, r.coverage)
        /\ t.canAnswer = Evaluate(evidence, t.hyps, t.contradictions, t.confidence, t.coverage)
    BY <1>2 DEF Scored
  <2>2. /\ r.percent = InvestigationProgress(evidence, r.required, r.coverage, r.confidence, r.blocking)
        /\ t.percent = InvestigationProgress(evidence, t.required, t.coverage, t.confidence, t.blocking)
    BY <1>2 DEF Scored
  <2> QED  BY <1>1, <1>3, <2>1, <2>2
<1>5. Done(r) <=> Done(s)
  BY <1>2 DEF Scored, Done
<1>6. t.state = r.state
  BY <1>1, <1>2, <1>3, <1>4, <1>5 DEF Scored
<1>7. r.status = "completed" <=> s.status = "completed" \/ r.state = "completed"
  BY <1>2 DEF Scored
<1>8. t.status = r.status
  BY <1>2, <1>3, <1>4, <1>6, <1>7 DEF Scored
<1>9. \A part \in DOMAIN NewSession : t[part] = r[part]
  BY <1>1, <1>3, <1>4, <1>6, <1>8 DEF NewSession
<1>10. /\ t = [part \in DOMAIN NewSession |-> t[part]]
       /\ r = [part \in DOMAIN NewSession |-> r[part]]
  BY <1>2 DEF Scored
<1> QED  BY <1>9, <1>10

LEMMA InitStill == Init => StillInv
<1> SUFFICES ASSUME Init PROVE StillInv
  OBVIOUS
<1>1. IsListing(<< >>)
  BY DEF IsListing, IsSequence
<1> QED  BY <1>1 DEF Init, StillInv, Calmed

LEMMA SameReading ==
  ASSUME UNCHANGED <<evidence, plan>>
  PROVE  /\ FieldLeft' = FieldLeft /\ FieldKept' = FieldKept /\ Needed' = Needed
         /\ \A r, s : Reasoned(r, s)' <=> Reasoned(r, s)
         /\ \A r, done, closed : Scored(r, done, closed)' <=> Scored(r, done, closed)
<1>1. FieldLeft' = FieldLeft
  BY DEF FieldLeft, FieldLed, Leads, Doubts, LeaderFound, DeploymentDoubted
<1>2. FieldKept' = FieldKept
  BY <1>1 DEF FieldKept
<1>3. Needed' = Needed
  BY DEF Needed, protocolToLegacyRequests, FirstMissing
<1>4. \A r, s : Reasoned(r, s)' <=> Reasoned(r, s)
  BY DEF Reasoned, ProgressSeen
<1>5. \A r, done, closed : Scored(r, done, closed)' <=> Scored(r, done, closed)
  BY DEF Scored
<1> QED  BY <1>1, <1>2, <1>3, <1>4, <1>5

LEMMA StaysCalmed ==
  ASSUME Calmed, UNCHANGED <<evidence, session, plan, turn, calm>>
  PROVE  Calmed'
<1>1. FieldKept' = FieldKept /\ Needed' = Needed
  BY SameReading
<1>2. \A s : CaughtUp(s)' <=> CaughtUp(s)
  BY <1>1 DEF CaughtUp
<1>3. CaughtUp(session)' <=> CaughtUp(session)
  BY <1>1 DEF CaughtUp
<1>4. ASSUME NEW s, Reread(session, s) PROVE Reread(session, s)'
  <2> PICK r : r = session
    OBVIOUS
  <2>1. Reasoned(r, s)' /\ Scored(r, Done(s), s.status = "completed")'
    BY <1>4, SameReading DEF Reread
  <2>2. r = session'
    OBVIOUS
  <2> QED  BY <1>3, <1>4, <2>1, <2>2 DEF Reread
<1> QED  BY <1>2, <1>3, <1>4 DEF Calmed

(* Until the recompute under way is over.                                  *)
LEMMA StaysStill ==
  ASSUME StillInv, UNCHANGED <<evidence, considered, session, plan, turn, calm>>,
         IsListing(results'), phase' = "applying" => InOrder(results'),
         phase' # "idle",
         answer' = Silent /\ phase' \in {"asking", "resolving", "following", "concluding"} =>
           Undisturbed'
  PROVE  StillInv'
  BY StaysCalmed DEF StillInv

LEMMA RecomputeStays ==
  ASSUME StillInv, NEW E, evidence \subseteq E, Recompute(E)
  PROVE  StillInv'
<1>1. /\ phase = "idle" /\ phase' = "reasoning" /\ evidence' = E
      /\ UNCHANGED <<considered, session, plan, turn, results, calm>>
  BY DEF Recompute
<1>2. evidence = considered
  BY <1>1 DEF StillInv
<1>3. evidence' = considered' => Calmed'
  <2> SUFFICES ASSUME evidence' = considered' PROVE Calmed'
    OBVIOUS
  <2>1. evidence' = evidence
    BY <1>1, <1>2
  <2> QED  BY <1>1, <1>2, <2>1, StaysCalmed DEF StillInv
<1> QED  BY <1>1, <1>3 DEF StillInv

LEMMA ReasonStays ==
  ASSUME StillInv, NEW reasoner, Reason(reasoner)
  PROVE  StillInv'
<1>1. IsListing(results')
  BY ReasonListed DEF StillInv
<1>2. phase = "reasoning" /\ UNCHANGED <<evidence, considered, session, plan, turn, phase, calm>>
  BY DEF Reason
<1> QED  BY <1>1, <1>2, StaysStill

LEMMA MergeStays ==
  ASSUME CycleInv, StillInv, Merge
  PROVE  StillInv'
<1>1. IsListing(results') /\ InOrder(results')
  BY MergeListed DEF CycleInv, StillInv
<1>2. phase' = "applying" /\ UNCHANGED <<evidence, considered, session, plan, turn, calm>>
  BY DEF Merge
<1> QED  BY <1>1, <1>2, StaysStill

LEMMA ApplyStays ==
  ASSUME CycleInv, StillInv, Apply
  PROVE  StillInv'
<1>1. /\ phase = "applying" /\ phase' = "asking" /\ results' = << >>
      /\ draft' = Applied(Draft, results)
      /\ UNCHANGED <<evidence, considered, session, plan, turn, answer, calm>>
  BY DEF Apply
<1>2. IsEvidence(evidence) /\ IsSession(session) /\ InOrder(results)
  BY <1>1 DEF CycleInv, StillInv
<1>3. /\ Draft.plan = plan /\ Draft.session.status = session.status
      /\ Done(Draft.session) <=> Done(session)
  <2>1. Draft.session = Begun(session) /\ Draft.plan = plan
    BY DEF Draft
  <2>2. /\ Begun(session).state = IF Done(session) THEN "completed" ELSE "reasoning"
        /\ Begun(session).status = session.status
    BY <1>2 DEF Begun, IsSession, Done
  <2> QED  BY <2>1, <2>2 DEF Done
<1>4. ASSUME answer' = Silent PROVE Undisturbed'
  <2>1. /\ draft'.plan = plan
        /\ Done(draft'.session) <=> Done(session)
        /\ draft'.session.status = session.status
        /\ Reasoned(draft'.session, session) /\ draft'.session.hyps = FieldLeft
    BY <1>1, <1>2, <1>3, <1>4, BegunApplies, AppliedSilently DEF Done
  <2>2. RunFrom(plan)'
    BY <1>1, <2>1 DEF RunFrom
  <2>3. Reasoned(draft.session, session)'
    BY <1>1, <2>1 DEF Reasoned, ProgressSeen
  <2>4. FieldLeft' = FieldLeft
    BY <1>1, SameReading
  <2> QED  BY <1>1, <2>1, <2>2, <2>3, <2>4 DEF Undisturbed, Done
<1>5. IsListing(<< >>)
  BY DEF IsListing, IsSequence
<1> QED  BY <1>1, <1>4, <1>5, StaysStill

(* The protocol run moves the plan on and leaves the rest to its verdicts. *)
LEMMA StaysUndisturbed ==
  ASSUME Undisturbed, UNCHANGED <<evidence, session, plan>>, RunFrom(plan)',
         NEW s, s = draft'.session,
         s.progress = draft.session.progress, s.contradictions = draft.session.contradictions,
         s.coverage = draft.session.coverage, s.graph = draft.session.graph,
         s.state = draft.session.state, s.status = draft.session.status,
         phase' \in {"asking", "resolving"} => s.hyps = FieldLeft,
         phase' \in {"following", "concluding"} /\ draft'.turn = {} => s.hyps = FieldKept
  PROVE  Undisturbed'
<1>1. FieldLeft' = FieldLeft /\ FieldKept' = FieldKept
  BY SameReading
<1>2. Reasoned(s, session)
  BY DEF Undisturbed, Reasoned
<1>3. Reasoned(draft.session, session)'
  BY <1>2 DEF Reasoned, ProgressSeen
<1> QED  BY <1>1, <1>3 DEF Undisturbed, Done

LEMMA AskStays ==
  ASSUME CycleInv, StillInv, Ask
  PROVE  StillInv'
<1>1. /\ phase \in {"asking", "following"}
      /\ phase' = IF phase = "asking" THEN "resolving" ELSE "concluding"
      /\ draft' = [draft EXCEPT !.plan = AskedAfter(@, evidence)]
      /\ UNCHANGED <<evidence, considered, session, plan, turn, results, answer, calm>>
  BY DEF Ask
<1>2. IsWork(draft)
  BY <1>1 DEF CycleInv
<1>3. /\ draft'.plan = AskedAfter(draft.plan, evidence) /\ draft'.session = draft.session
      /\ draft'.turn = draft.turn
  BY <1>1, <1>2 DEF IsWork
<1>4. ASSUME answer' = Silent PROVE Undisturbed'
  <2>1. Undisturbed
    BY <1>1, <1>4 DEF StillInv
  <2>2. RunFrom(plan)'
    BY <1>1, <1>3, <2>1 DEF Undisturbed, RunFrom
  <2>3. /\ phase' = "resolving" => draft'.session.hyps = FieldLeft
        /\ phase' = "concluding" /\ draft'.turn = {} => draft'.session.hyps = FieldKept
    BY <1>1, <1>3, <2>1 DEF Undisturbed
  <2> QED  BY <1>1, <1>3, <2>1, <2>2, <2>3, StaysUndisturbed
<1> QED  BY <1>1, <1>4, StaysStill DEF StillInv

(* Without a verdict no hypothesis is moved.                               *)
LEMMA NobodyMoved ==
  ASSUME NEW hyps, NEW p, NEW questions, IsSequence(questions), ToSet(questions) = {}
  PROVE  applyPlaybookEffects(hyps, p, questions) = Rescaled(NoneNegative(hyps), Everyone)
<1>1. questions = << >>
  <2>1. Len(questions) = 0
    BY DEF IsSequence, ToSet
  <2> QED  BY <2>1 DEF IsSequence
<1>2. [i \in DOMAIN questions |-> MovesOf(p, questions[i])] = << >>
  BY <1>1
<1>3. Affected(hyps, p, questions) = FoldLeft(Moved, hyps, << >>)
  BY <1>2 DEF Affected
<1>4. Moving!FoldLeft(Moved, hyps, << >>) = hyps
  BY Moving!FoldOfNone
<1> QED  BY <1>3, <1>4, MovingFold DEF applyPlaybookEffects

LEMMA ResolveStays ==
  ASSUME CycleInv, StillInv, ResolveTurn
  PROVE  StillInv'
<1> DEFINE s == draft.session
           p == draft.plan
           after == ResolveQuestions(p, evidence)
           resolved == Resolved(p, order)
           hyps == applyPlaybookEffects(s.hyps, p, resolved)
           t == [s EXCEPT !.hyps = hyps]
<1>1. /\ phase = "resolving" /\ phase' = "following"
      /\ UNCHANGED <<evidence, considered, session, plan, turn, answer, results, calm>>
  BY DEF ResolveTurn
<1>2. IsWork(draft) /\ IsListing(order) /\ ToSet(order) = Asked(p)
  BY <1>1 DEF CycleInv
<1>3. draft' = [draft EXCEPT !.plan = after, !.session = t, !.turn = ToSet(resolved)]
  BY <1>2 DEF ResolveTurn, IsWork
<1>4. /\ ToSet(resolved) = {q \in Question : Conclusive(p, q, evidence)}
      /\ IsSequence(resolved)
  <2>1. IsSequence(order) /\ ToSet(order) \subseteq Question /\ p \in Plan
    BY <1>2 DEF IsListing, Asked, IsWork
  <2> QED  BY <1>2, <2>1, ResolvedTurn, ResolvedConclusive
<1> HIDE DEF resolved
<1>5. ToSet(resolved) = {} => hyps = Rescaled(NoneNegative(s.hyps), Everyone)
  BY <1>4, NobodyMoved
<1>6. IsSession(s)
  BY <1>2 DEF IsWork
<1> HIDE DEF hyps, after
<1>7. /\ t.state = s.state /\ t.status = s.status /\ t.progress = s.progress
      /\ t.coverage = s.coverage /\ t.contradictions = s.contradictions /\ t.graph = s.graph
      /\ t.hyps = hyps
  BY <1>6 DEF IsSession
<1> HIDE DEF t
<1>8. draft'.plan = after /\ draft'.session = t /\ draft'.turn = ToSet(resolved)
  BY <1>2, <1>3 DEF IsWork
<1>9. ASSUME answer' = Silent PROVE Undisturbed'
  <2>1. Undisturbed
    BY <1>1, <1>9 DEF StillInv
  <2>2. RunFrom(plan)'
    BY <1>1, <1>4, <1>8, <2>1 DEF Undisturbed, RunFrom, after
  <2>3. draft'.turn = {} => t.hyps = FieldKept
    BY <1>1, <1>5, <1>7, <1>8, <2>1 DEF Undisturbed, FieldKept
  <2> QED  BY <1>1, <1>7, <1>8, <2>1, <2>2, <2>3, StaysUndisturbed
<1> QED  BY <1>1, <1>9, StaysStill DEF StillInv

(* A recompute that keeps the plan reached no verdict.                     *)
LEMMA ConcludeRereads ==
  ASSUME CycleInv, StillInv, Conclude, answer = Silent, plan' = plan
  PROVE  Reread(session', session) /\ turn' = {}
<1> DEFINE s == draft.session
           asked == AskedAfter(plan, evidence)
           required == Heaviest(protocolToLegacyRequests(plan'))
<1>1. /\ phase = "concluding" /\ turn' = draft.turn
      /\ plan' \in SyncEvidenceRequests(draft.plan, evidence)
      /\ session' = Assessed(s, required)
  BY DEF Conclude
<1>2. IsWork(draft) /\ evidence \in SUBSET Evidence /\ plan \in Plan /\ Agree(plan)
  BY <1>1 DEF CycleInv, IsEvidence
<1>3. Undisturbed
  BY <1>1 DEF StillInv
<1>4. turn' = {}
  <2>1. /\ draft.plan = AskedAfter(ResolveQuestions(asked, evidence), evidence)
        /\ draft.turn = {q \in Question : Conclusive(asked, q, evidence)}
    BY <1>1, <1>3 DEF Undisturbed, RunFrom
  <2>2. Reached(plan, Done(session))
    BY DEF Reached, Untouched
  <2>3. {q \in Question : plan.history[q] # plan.history[q]}
          = {q \in Question : Conclusive(asked, q, evidence)}
    <3> HIDE DEF asked
    <3>1. plan \in SyncEvidenceRequests(AskedAfter(ResolveQuestions(asked, evidence), evidence), evidence)
      BY <1>1, <2>1
    <3> QED  BY <1>2, <2>2, <3>1, WeighedTurn DEF asked
  <2> HIDE DEF asked
  <2> QED  BY <1>1, <2>1, <2>3
<1>5. required = Needed
  BY DEF Needed
<1>6. IsSession(s)
  BY <1>2 DEF IsWork
<1>7. /\ Reasoned(s, session) /\ s.hyps = FieldKept
      /\ (Done(s) <=> Done(session)) /\ s.status = session.status
  BY <1>1, <1>3, <1>4 DEF Undisturbed
<1> HIDE DEF s, required
<1>8. PICK r : r = session'
  OBVIOUS
<1>9. /\ r.graph = s.graph /\ r.hyps = s.hyps /\ r.progress = s.progress
      /\ r.coverage = s.coverage /\ r.contradictions = s.contradictions
      /\ r.required = required
  BY <1>1, <1>6, <1>8, AssessedFrame
<1>10. Scored(r, Done(s), s.status = "completed")
  BY <1>1, <1>6, <1>8, AssessedScored
<1>11. Scored(r, Done(session), session.status = "completed")
  BY <1>7, <1>10 DEF Scored
<1>12. Reasoned(r, session) /\ CaughtUp(r)
  BY <1>5, <1>7, <1>9 DEF Reasoned, CaughtUp
<1> QED  BY <1>4, <1>8, <1>11, <1>12 DEF Reread

LEMMA ConcludeStays ==
  ASSUME CycleInv, StillInv, Conclude
  PROVE  /\ StillInv'
         /\ calm = 2 /\ calm' = 2 => UNCHANGED <<session, plan, turn>>
<1>1. /\ phase' = "idle" /\ considered' = evidence
      /\ calm' = IF evidence = considered /\ answer = Silent /\ plan' = plan
                   THEN Min({calm + 1, 2}) ELSE 0
      /\ UNCHANGED <<evidence, results>>
  BY DEF Conclude
<1>2. calm \in 0 .. 2 /\ (calm = 0 => calm' # 2)
  <2>1. calm \in 0 .. 2
    BY DEF CycleInv
  <2> DEFINE next == calm + 1
  <2>2. next \in Int /\ (calm = 0 => next = 1)
    BY <2>1
  <2>3. calm' = Min({next, 2}) \/ calm' = 0
    BY <1>1
  <2> HIDE DEF next
  <2>4. Min({next, 2}) <= next
    BY <2>2, LesserOfTwo
  <2> QED  BY <2>1, <2>2, <2>3, <2>4
<1>3. ASSUME calm' # 0
      PROVE  /\ evidence = considered /\ plan' = plan
             /\ Reread(session', session) /\ turn' = {} /\ CaughtUp(session')
  BY <1>1, <1>3, ConcludeRereads DEF Reread
<1>4. Calmed'
  <2> SUFFICES ASSUME calm' # 0 PROVE Calmed'
    BY DEF Calmed
  <2>1. UNCHANGED <<evidence, plan>> /\ Reread(session', session) /\ turn' = {}
    BY <1>1, <1>3
  <2>2. FieldKept' = FieldKept /\ Needed' = Needed
    BY <2>1, SameReading
  <2>3. CaughtUp(session)'
    BY <1>3, <2>2 DEF CaughtUp
  <2>4. ASSUME calm' = 2 PROVE \E s : CaughtUp(s)' /\ Reread(session, s)'
    <3>1. calm # 0 /\ CaughtUp(session)
      BY <1>2, <1>3, <2>4 DEF StillInv, Calmed
    <3> PICK s : s = session
      OBVIOUS
    <3> PICK r : r = session'
      OBVIOUS
    <3>2. CaughtUp(s)'
      BY <2>2, <3>1 DEF CaughtUp
    <3>3. Reasoned(r, s)' /\ Scored(r, Done(s), s.status = "completed")'
      BY <2>1, SameReading DEF Reread
    <3>4. Reread(session, s)'
      BY <2>3, <3>3 DEF Reread
    <3> QED  BY <3>2, <3>4
  <2> QED  BY <2>1, <2>3, <2>4 DEF Calmed
<1>5. ASSUME calm = 2, calm' = 2 PROVE UNCHANGED <<session, plan, turn>>
  <2>1. evidence = considered /\ Reread(session', session) /\ turn' = {} /\ plan' = plan
    BY <1>3, <1>5
  <2>2. turn = {} /\ \E s : CaughtUp(s) /\ Reread(session, s)
    BY <1>5, <2>1 DEF StillInv, Calmed
  <2>3. session' = session
    BY <2>1, <2>2, RereadTwice
  <2> QED  BY <2>1, <2>2, <2>3
<1> QED  BY <1>1, <1>4, <1>5 DEF StillInv

LEMMA NextStill ==
  ASSUME CycleInv, StillInv, [Next]_vars
  PROVE  /\ StillInv'
         /\ Conclude /\ calm = 2 /\ calm' = 2 => UNCHANGED <<session, plan, turn>>
<1>1. CASE Conclude
  BY <1>1, ConcludeStays
<1>2. ASSUME NEW E, evidence \subseteq E, Recompute(E) PROVE StillInv' /\ ~Conclude
  BY <1>2, RecomputeStays DEF Recompute, Conclude
<1>3. CASE \E batch \in Batches : Submit(batch)
  BY <1>2, <1>3 DEF Submit
<1>4. CASE Get
  BY <1>2, <1>4 DEF Get
<1>5. CASE \E reasoner \in DOMAIN reasonerPriority : Reason(reasoner)
  BY <1>5, ReasonStays DEF Reason, Conclude
<1>6. CASE Merge
  BY <1>6, MergeStays DEF Merge, Conclude
<1>7. CASE Apply
  BY <1>7, ApplyStays DEF Apply, Conclude
<1>8. CASE Ask
  BY <1>8, AskStays DEF Ask, Conclude
<1>9. CASE ResolveTurn
  BY <1>9, ResolveStays DEF ResolveTurn, Conclude
<1>10. CASE UNCHANGED vars
  <2>1. Calmed => Calmed'
    BY <1>10, StaysCalmed DEF vars
  <2>2. Undisturbed => Undisturbed'
    BY <1>10, SameReading DEF vars, Undisturbed, RunFrom, Reasoned, ProgressSeen, Done
  <2> QED  BY <1>10, <2>1, <2>2 DEF vars, StillInv
<1> QED  BY <1>1, <1>3, <1>4, <1>5, <1>6, <1>7, <1>8, <1>9, <1>10 DEF Next

-----------------------------------------------------------------------------
(* The theorems.                                                           *)

(* TypeOK: every figure of a session stays in its range through every      *)
(* recompute, the questions are listed once each, and a call never leaves  *)
(* a session in a transient state, if the host's answers keep the coverage *)
(* they set on its scale (Applier.applyOne, Score, ComputeCoverage).       *)
THEOREM CycleAlwaysTyped ==
  ASSUME HostOnScale
  PROVE  Spec => []TypeOK
<1>1. CycleInv => TypeOK
  BY CycleTyped
<1> QED  BY <1>1, AlwaysCycle, PTL

(* SharesAddUp: whatever the reasoners and the host answered, the protocol *)
(* run leaves shares that add up to 100 percent but for the rounding of    *)
(* each, or leaves nothing to anyone (normalizeHypothesisConfidences).     *)
THEOREM SharesAlwaysAddUp == Spec => []SharesAddUp
<1>1. CycleInv => SharesAddUp
  BY DEF CycleInv, Shared, AddUp, SharesAddUp
<1> QED  BY <1>1, AlwaysCycle, PTL

(* ProgressNeedsOpenQuestion: with no question open nothing is required,   *)
(* and coverage and confidence alone weigh too little for the percentage   *)
(* to pass 70 (ComputeInvestigationProgress, protocolToLegacyRequests).    *)
THEOREM ProgressAlwaysNeedsOpenQuestion ==
  ASSUME HostOnScale
  PROVE  Spec => []ProgressNeedsOpenQuestion
<1>1. CycleInv => ProgressNeedsOpenQuestion
  BY DEF CycleInv, PercentGrounded, ProgressNeedsOpenQuestion
<1> QED  BY <1>1, AlwaysCycle, PTL

(* GraphFaithful: a session stored between two calls has no edge to a node *)
(* its graph lacks, and all its evidence is in the graph unless the host   *)
(* linked nodes of the graph before: with the shipped playbooks, and a     *)
(* host that may propose any of the actions of applyOne (links, verdicts,  *)
(* hypotheses, figures) but hands in no graph of its own, which the        *)
(* applier would store unseen, and creates no question, whose dependencies *)
(* it would not look up (Build, Validate, ApplyLinks).                     *)
THEOREM GraphAlwaysFaithful ==
  ASSUME HostDrawsNoGraph, ShippedPlaybooks
  PROVE  Spec => []GraphFaithful
<1>1. Init => GraphInv
  BY InitGraph
<1>2. CycleInv /\ GraphInv /\ [Next]_vars => GraphInv'
  BY NextGraph
<1>3. GraphInv => GraphFaithful
  BY DEF GraphInv, FaithfulGraph, IsGraph, Shows, GraphFaithful, Idle
<1> QED  BY <1>1, <1>2, <1>3, AlwaysCycle, PTL DEF Spec

(* ImplementsRuntime: whatever the reasoners, in whatever order, and the   *)
(* host make of a recompute, the session it ends with is one the runtime's *)
(* specification lets a Start, a Submit or a Get end with, under that      *)
(* module's bound of one proposal per recompute and with the evidence the  *)
(* shipped playbooks need (Orchestrator, Runtime.recompute).               *)
THEOREM CycleImplementsRuntime ==
  ASSUME OneProposal, ShippedNeeds
  PROVE  Spec => ImplementsRuntime
<1>1. Init => RunInv
  BY InitRun
<1>2. Init => Runtime!Init
  BY DEF Init, NewSession, MinConfidence, EmptyPlan, Runtime!Init, Runtime!EmptyPlan,
         Runtime!NotArchived
<1>3. CycleInv /\ RunInv /\ [Next]_vars =>
        RunInv' /\ [UNCHANGED <<considered, session, plan, turn>> \/ RuntimeCall]_vars
  BY NextRuns
<1> QED  BY <1>1, <1>2, <1>3, AlwaysCycle, PTL DEF Spec, ImplementsRuntime

(* RereadingChangesNothing: after two recomputes in a row with nothing new *)
(* to consider and a silent host, a further one changes nothing, in either *)
(* strategy and in whatever order the reasoners' results come in           *)
(* (HypothesisReasoner, Applier, protocol run, Runtime.recompute).         *)
THEOREM RereadingNeverChanges == Spec => RereadingChangesNothing
<1>1. Init => StillInv
  BY InitStill
<1>2. CycleInv /\ StillInv /\ [Next]_vars =>
        StillInv' /\ [Conclude /\ calm = 2 /\ calm' = 2 => UNCHANGED <<session, plan, turn>>]_vars
  BY NextStill
<1> QED  BY <1>1, <1>2, AlwaysCycle, PTL DEF Spec, RereadingChangesNothing

=============================================================================

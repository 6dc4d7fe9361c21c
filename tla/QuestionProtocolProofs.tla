----------------------- MODULE QuestionProtocolProofs -----------------------
(***************************************************************************)
(* What the operations of the protocol engine do to a plan, for every      *)
(* playbook.  Agree(p) says that the records of each verdict in p agree;   *)
(* Advances(p, r) says that r is a well-formed agreeing plan that leaves   *)
(* every settled question of p alone and records at most a first verdict   *)
(* on the others.  Every operation advances the plan, so a whole protocol  *)
(* run does.  What a run adds is followed operation by operation: a        *)
(* verdict only on all the evidence, a question only with a reason that    *)
(* still stands, and requests that guide the client.                       *)
(***************************************************************************)
EXTENDS QuestionProtocol, FiniteSetTheorems, TLAPS

Agree(p) ==
  \A q \in Question :
    IF p.history[q] = << >>
      THEN p.resolution[q] = "none"
      ELSE /\ p.resolution[q] = p.history[q][Len(p.history[q])]
           /\ p.status[q] = StatusFor(p.resolution[q])

Kept(p, r, q) == /\ r.status[q]     = p.status[q]
                 /\ r.resolution[q] = p.resolution[q]
                 /\ r.history[q]    = p.history[q]

FirstVerdict(p, r, q) ==
  \/ r.history[q] = p.history[q]
  \/ p.history[q] = << >> /\ \E o \in Outcome : r.history[q] = <<o>>

Advances(p, r) ==
  /\ r \in Plan
  /\ Agree(r)
  /\ \A q \in Question : /\ p.status[q] \in Settled => Kept(p, r, q)
                         /\ FirstVerdict(p, r, q)

-----------------------------------------------------------------------------
(* Plans.                                                                  *)

(* A recorded verdict settles its question.                                *)
LEMMA LoggedIsSettled ==
  ASSUME NEW p \in Plan, Agree(p), NEW q \in Question, p.history[q] # << >>
  PROVE  p.status[q] \in Settled
  BY DEF Agree, StatusFor, Settled

LEMMA AdvancesReflexive ==
  ASSUME NEW p \in Plan, Agree(p)
  PROVE  Advances(p, p)
  BY DEF Advances, Kept, FirstVerdict

LEMMA AdvancesTransitive ==
  ASSUME NEW p \in Plan, Agree(p), NEW r, Advances(p, r), NEW s, Advances(r, s)
  PROVE  Advances(p, s)
<1>1. r \in Plan /\ Agree(r) /\ s \in Plan /\ Agree(s)
  BY DEF Advances
<1>2. ASSUME NEW q \in Question
      PROVE  (p.status[q] \in Settled => Kept(p, s, q)) /\ FirstVerdict(p, s, q)
  <2>1. p.status[q] \in Settled => Kept(p, s, q)
    BY DEF Advances, Kept
  <2>2. ASSUME r.history[q] = p.history[q]
        PROVE  FirstVerdict(p, s, q)
    <3>1. FirstVerdict(r, s, q)
      BY DEF Advances
    <3> QED BY <2>2, <3>1 DEF FirstVerdict
  <2>3. ASSUME p.history[q] = << >>, \E o \in Outcome : r.history[q] = <<o>>
        PROVE  FirstVerdict(p, s, q)
    <3>1. PICK o \in Outcome : r.history[q] = <<o>>
      BY <2>3
    <3>2. r.history[q] # << >>
      BY <3>1
    <3>3. r.status[q] \in Settled
      BY <1>1, <3>2, LoggedIsSettled
    <3>4. s.history[q] = r.history[q]
      BY <3>3 DEF Advances, Kept
    <3> QED BY <2>3, <3>1, <3>4 DEF FirstVerdict
  <2>4. FirstVerdict(p, r, q)
    BY DEF Advances
  <2> QED BY <2>1, <2>2, <2>3, <2>4 DEF FirstVerdict
<1> QED BY <1>1, <1>2 DEF Advances

(* Adding questions that were absent.                                      *)
LEMMA AdmitAdvances ==
  ASSUME NEW p \in Plan, Agree(p), NEW Q \in SUBSET Question,
         \A q \in Q : p.status[q] = "absent"
  PROVE  Advances(p, Admit(p, Q))
<1> DEFINE r == Admit(p, Q)
<1>1. r \in Plan
  BY DEF Plan, Admit, QuestionStatus, Open
<1>2. \A q \in Question : /\ r.resolution[q] = p.resolution[q]
                          /\ r.history[q] = p.history[q]
                          /\ r.status[q] = IF q \in Q THEN "waiting_for_evidence" ELSE p.status[q]
  BY DEF Plan, Admit
<1>3. \A q \in Q : p.status[q] \notin Settled
  BY DEF Settled
<1>4. Agree(r)
  <2> SUFFICES ASSUME NEW q \in Question, r.history[q] # << >>
               PROVE  /\ r.resolution[q] = r.history[q][Len(r.history[q])]
                      /\ r.status[q] = StatusFor(r.resolution[q])
    BY <1>2 DEF Agree
  <2>1. p.history[q] # << >>
    BY <1>2
  <2>2. q \notin Q
    BY <2>1, <1>3, LoggedIsSettled
  <2> QED BY <1>2, <2>1, <2>2 DEF Agree
<1> QED BY <1>1, <1>2, <1>3, <1>4 DEF Advances, Kept, FirstVerdict

LEMMA EnsureAdvances ==
  ASSUME NEW p \in Plan, Agree(p)
  PROVE  Advances(p, EnsureQuestions(p))
<1> DEFINE Q == {q \in Question \ Dynamic : p.status[q] = "absent" /\ DependenciesMet(p, q)}
<1>1. Q \in SUBSET Question /\ \A q \in Q : p.status[q] = "absent"
  OBVIOUS
<1>2. Advances(p, Admit(p, Q))
  BY <1>1, AdmitAdvances
<1> QED BY <1>2 DEF EnsureQuestions

LEMMA GenerateAdvances ==
  ASSUME NEW p \in Plan, Agree(p), NEW E \in SUBSET Evidence
  PROVE  Advances(p, GenerateDynamicQuestions(p, E))
<1> DEFINE Q == {q \in Question : /\ p.status[q] = "absent"
                                  /\ \/ /\ q \in Dynamic
                                        /\ Fires[q][E]
                                        /\ DependenciesMet(p, q)
                                     \/ \E parent \in Question : q \in GeneratedBy(p, parent)}
<1>1. Q \in SUBSET Question /\ \A q \in Q : p.status[q] = "absent"
  OBVIOUS
<1>2. Advances(p, Admit(p, Q))
  BY <1>1, AdmitAdvances
<1> QED BY <1>2 DEF GenerateDynamicQuestions

LEMMA AskedAfterAdvances ==
  ASSUME NEW p \in Plan, Agree(p), NEW E \in SUBSET Evidence
  PROVE  Advances(p, AskedAfter(p, E))
<1>1. Advances(p, EnsureQuestions(p))
  BY EnsureAdvances
<1>2. EnsureQuestions(p) \in Plan /\ Agree(EnsureQuestions(p))
  BY <1>1 DEF Advances
<1>3. Advances(EnsureQuestions(p), GenerateDynamicQuestions(EnsureQuestions(p), E))
  BY <1>2, GenerateAdvances
<1> QED BY <1>1, <1>3, AdvancesTransitive DEF AskedAfter

(* The resolver's answer is one of its three.                              *)
LEMMA ResolveType ==
  ASSUME NEW p \in Plan, NEW q \in Question, NEW E \in SUBSET Evidence
  PROVE  Resolve(p, q, E) \in Outcome \union {"insufficient"}
  BY PlaybookAssumption DEF Resolve

LEMMA PlanUpdate ==
  ASSUME NEW p \in Plan, NEW S \in [Question -> QuestionStatus],
         NEW R \in [Question -> Outcome \union {"none"}], NEW H \in [Question -> Seq(Outcome)]
  PROVE  [p EXCEPT !.status = S, !.resolution = R, !.history = H] \in Plan
  BY DEF Plan

(* A resolving pass records a verdict on open questions only.              *)
LEMMA ResolveAdvances ==
  ASSUME NEW p \in Plan, Agree(p), NEW E \in SUBSET Evidence
  PROVE  Advances(p, ResolveQuestions(p, E))
<1> DEFINE r == ResolveQuestions(p, E)
<1>1. ASSUME NEW q \in Question, Conclusive(p, q, E)
      PROVE  /\ p.status[q] \notin Settled
             /\ p.history[q] = << >>
             /\ Resolve(p, q, E) \in Outcome
             /\ StatusFor(Resolve(p, q, E)) \in QuestionStatus
  <2>1. p.status[q] \notin Settled /\ Resolve(p, q, E) \in Outcome
    BY <1>1 DEF Conclusive, Open, Settled
  <2>2. p.history[q] = << >>
    BY <2>1, LoggedIsSettled
  <2> QED BY <2>1, <2>2 DEF StatusFor, QuestionStatus, Settled
<1>2. ASSUME NEW q \in Question
      PROVE  PartialStatus(p, q, E) \in QuestionStatus
  <2>1. p.status[q] \in QuestionStatus
    BY DEF Plan
  <2> QED BY <2>1 DEF PartialStatus, QuestionStatus, Open
<1>3. \A q \in Question :
        /\ r.status[q] = CASE Conclusive(p, q, E) -> StatusFor(Resolve(p, q, E))
                           [] p.status[q] \in Open /\ ~Conclusive(p, q, E) -> PartialStatus(p, q, E)
                           [] OTHER -> p.status[q]
        /\ r.resolution[q] = IF Conclusive(p, q, E) THEN Resolve(p, q, E) ELSE p.resolution[q]
        /\ r.history[q] = IF Conclusive(p, q, E) THEN Append(p.history[q], Resolve(p, q, E))
                                                 ELSE p.history[q]
  BY DEF Plan, ResolveQuestions
<1>4. ASSUME NEW q \in Question
      PROVE  /\ r.status[q] \in QuestionStatus
             /\ r.resolution[q] \in Outcome \union {"none"}
             /\ r.history[q] \in Seq(Outcome)
  <2>1. /\ p.status[q] \in QuestionStatus
        /\ p.resolution[q] \in Outcome \union {"none"}
        /\ p.history[q] \in Seq(Outcome)
    BY DEF Plan
  <2>2. CASE Conclusive(p, q, E)
    <3>1. r.history[q] = Append(p.history[q], Resolve(p, q, E))
      BY <2>2, <1>3
    <3>2. r.history[q] \in Seq(Outcome)
      BY <2>1, <2>2, <3>1, <1>1
    <3> HIDE DEF r
    <3> QED BY <2>2, <3>2, <1>1, <1>3
  <2>3. CASE ~Conclusive(p, q, E)
    <3> HIDE DEF r
    <3> QED BY <2>1, <2>3, <1>2, <1>3
  <2> QED BY <2>2, <2>3
<1>5. r \in Plan
  <2>1. /\ r.status \in [Question -> QuestionStatus]
        /\ r.resolution \in [Question -> Outcome \union {"none"}]
        /\ r.history \in [Question -> Seq(Outcome)]
    <3>1. /\ r.status = [q \in Question |-> r.status[q]]
          /\ r.resolution = [q \in Question |-> r.resolution[q]]
          /\ r.history = [q \in Question |-> r.history[q]]
      BY DEF Plan, ResolveQuestions
    <3> HIDE DEF r
    <3> QED BY <3>1, <1>4
  <2>2. r = [p EXCEPT !.status = r.status, !.resolution = r.resolution, !.history = r.history]
    BY DEF Plan, ResolveQuestions
  <2>3. [p EXCEPT !.status = r.status, !.resolution = r.resolution, !.history = r.history] \in Plan
    <3> HIDE DEF r
    <3> QED BY <2>1, PlanUpdate
  <2> QED BY ONLY <2>2, <2>3
<1>6. ASSUME NEW q \in Question
      PROVE  /\ p.status[q] \in Settled => Kept(p, r, q)
             /\ FirstVerdict(p, r, q)
             /\ IF r.history[q] = << >>
                  THEN r.resolution[q] = "none"
                  ELSE /\ r.resolution[q] = r.history[q][Len(r.history[q])]
                       /\ r.status[q] = StatusFor(r.resolution[q])
  <2>1. CASE Conclusive(p, q, E)
    <3>0. r.history[q] = Append(<< >>, Resolve(p, q, E))
      BY <2>1, <1>1, <1>3
    <3>1. r.history[q] = <<Resolve(p, q, E)>>
      BY ONLY <3>0
    <3>2. r.history[q] # << >> /\ r.history[q][Len(r.history[q])] = Resolve(p, q, E)
      BY <3>1
    <3> HIDE DEF r
    <3> QED BY <2>1, <3>1, <3>2, <1>1, <1>3 DEF FirstVerdict
  <2>2. CASE ~Conclusive(p, q, E)
    <3>1. r.history[q] = p.history[q] /\ r.resolution[q] = p.resolution[q]
      BY <2>2, <1>3
    <3>2. p.status[q] \in Settled => r.status[q] = p.status[q]
      BY <2>2, <1>3 DEF Open, Settled
    <3>3. p.history[q] # << >> => p.status[q] \in Settled
      BY LoggedIsSettled
    <3> HIDE DEF r
    <3> QED BY <3>1, <3>2, <3>3 DEF Agree, Kept, FirstVerdict
  <2> QED BY <2>1, <2>2
<1> QED BY <1>5, <1>6 DEF Advances, Agree

(* Refreshing the evidence requests touches nothing else.                  *)
LEMMA SyncAdvances ==
  ASSUME NEW p \in Plan, Agree(p), NEW E \in SUBSET Evidence,
         NEW r \in SyncEvidenceRequests(p, E)
  PROVE  Advances(p, r)
<1>1. PICK S \in Selections(p, E) :
        r = [p EXCEPT !.requests = {RequestFor(p, E, q) : q \in S}]
  BY DEF SyncEvidenceRequests
<1>2. S \subseteq Question
  BY DEF Selections, Lacking, OpenQuestions
<1>3. ASSUME NEW q \in Question
      PROVE  RequestFor(p, E, q) \in Request
  <2>1. MissingCategories(p, q, E) \subseteq Category
    BY PlaybookAssumption DEF MissingCategories, Needs
  <2> QED BY <2>1 DEF RequestFor, Request
<1>4. {RequestFor(p, E, q) : q \in S} \subseteq Request
  BY <1>2, <1>3
<1>5. /\ r \in Plan
      /\ r.status = p.status
      /\ r.resolution = p.resolution
      /\ r.history = p.history
  BY <1>1, <1>4 DEF Plan
<1> QED BY <1>5 DEF Advances, Agree, Kept, FirstVerdict

LEMMA ProtocolAdvances ==
  ASSUME NEW p \in Plan, Agree(p), NEW E \in SUBSET Evidence,
         NEW r \in ProtocolRuns(p, E)
  PROVE  Advances(p, r)
<1> DEFINE asked    == AskedAfter(p, E)
           resolved == ResolveQuestions(asked, E)
           again    == AskedAfter(resolved, E)
<1>1. r \in SyncEvidenceRequests(again, E)
  BY DEF ProtocolRuns
<1>2. Advances(p, asked)
  BY AskedAfterAdvances
<1>3. Advances(asked, resolved)
  BY <1>2, ResolveAdvances DEF Advances
<1>4. Advances(resolved, again)
  BY <1>3, AskedAfterAdvances DEF Advances
<1>5. Advances(again, r)
  BY <1>1, <1>4, SyncAdvances DEF Advances
<1> HIDE DEF asked, resolved, again
<1>6. Advances(p, resolved)
  BY <1>2, <1>3, AdvancesTransitive
<1>7. Advances(p, again)
  BY <1>4, <1>6, AdvancesTransitive
<1> QED BY <1>5, <1>7, AdvancesTransitive

(* An applied proposal settles an open question or adds an absent one.     *)
LEMMA SetStatusAdvances ==
  ASSUME NEW p \in Plan, Agree(p), NEW q \in Question, p.status[q] \notin Settled,
         NEW s \in QuestionStatus, NEW B \in SUBSET Question
  PROVE  Advances(p, [p EXCEPT !.status[q] = s, !.bare = B])
<1> DEFINE r == [p EXCEPT !.status[q] = s, !.bare = B]
<1>1. /\ r \in Plan
      /\ r.resolution = p.resolution
      /\ r.history = p.history
      /\ \A u \in Question \ {q} : r.status[u] = p.status[u]
  BY DEF Plan
<1>2. p.history[q] = << >>
  BY LoggedIsSettled
<1> HIDE DEF r
<1>3. Agree(r)
  BY <1>1, <1>2 DEF Agree
<1>4. Advances(p, r)
  BY <1>1, <1>3 DEF Advances, Kept, FirstVerdict
<1> QED BY <1>4 DEF r

-----------------------------------------------------------------------------
(* What the operations leave alone.                                        *)
LEMMA AdmitKeeps ==
  ASSUME NEW p \in Plan, NEW Q \in SUBSET Question
  PROVE  LET r == Admit(p, Q) IN
         /\ r.history = p.history /\ r.resolution = p.resolution /\ r.bare = p.bare
         /\ \A q \in Question : r.status[q] = IF q \in Q THEN "waiting_for_evidence" ELSE p.status[q]
  BY DEF Admit, Plan

LEMMA EnsureKeeps ==
  ASSUME NEW p \in Plan
  PROVE  LET r == EnsureQuestions(p) IN
         /\ r.history = p.history /\ r.resolution = p.resolution /\ r.bare = p.bare
         /\ \A q \in Question : r.status[q] # p.status[q] => DependenciesMet(p, q)
  BY AdmitKeeps DEF EnsureQuestions

LEMMA GenerateKeeps ==
  ASSUME NEW p \in Plan, NEW E \in SUBSET Evidence
  PROVE  LET r == GenerateDynamicQuestions(p, E) IN
         /\ r.history = p.history /\ r.resolution = p.resolution /\ r.bare = p.bare
         /\ \A q \in Question : r.status[q] # p.status[q] =>
              \/ DependenciesMet(p, q)
              \/ \E parent \in Question : q \in GeneratedBy(p, parent)
<1> DEFINE Q == {q \in Question : /\ p.status[q] = "absent"
                                  /\ \/ /\ q \in Dynamic
                                        /\ Fires[q][E]
                                        /\ DependenciesMet(p, q)
                                     \/ \E parent \in Question : q \in GeneratedBy(p, parent)}
<1>1. Q \in SUBSET Question
  OBVIOUS
<1>2. GenerateDynamicQuestions(p, E) = Admit(p, Q)
  BY DEF GenerateDynamicQuestions
<1>3. \A q \in Q : DependenciesMet(p, q) \/ \E parent \in Question : q \in GeneratedBy(p, parent)
  OBVIOUS
<1> HIDE DEF Q
<1> QED  BY <1>1, <1>2, <1>3, AdmitKeeps

LEMMA AskedKeeps ==
  ASSUME NEW p \in Plan, Agree(p), NEW E \in SUBSET Evidence
  PROVE  LET r == AskedAfter(p, E) IN
         r.history = p.history /\ r.resolution = p.resolution /\ r.bare = p.bare
<1>1. EnsureQuestions(p) \in Plan
  BY EnsureAdvances DEF Advances
<1> QED  BY <1>1, EnsureKeeps, GenerateKeeps DEF AskedAfter

LEMMA ResolvingKeeps ==
  ASSUME NEW p \in Plan, NEW E \in SUBSET Evidence
  PROVE  LET r == ResolveQuestions(p, E) IN
         /\ r.bare = p.bare
         /\ \A q \in Question :
              /\ p.status[q] = "absent" => r.status[q] = "absent"
              /\ r.history[q] # p.history[q] =>
                   Conclusive(p, q, E) /\ r.resolution[q] = Resolve(p, q, E)
<1> DEFINE r == ResolveQuestions(p, E)
<1>1. r.bare = p.bare
  BY DEF ResolveQuestions, Plan
<1>2. ASSUME NEW q \in Question, p.status[q] = "absent"
      PROVE  r.status[q] = "absent"
  <2>1. p.status[q] \notin Open
    BY <1>2 DEF Open
  <2> QED  BY <1>2, <2>1 DEF ResolveQuestions, Plan, Conclusive
<1>3. ASSUME NEW q \in Question, r.history[q] # p.history[q]
      PROVE  Conclusive(p, q, E) /\ r.resolution[q] = Resolve(p, q, E)
  BY <1>3 DEF ResolveQuestions, Plan
<1> QED  BY <1>1, <1>2, <1>3

LEMMA SyncKeeps ==
  ASSUME NEW p \in Plan, NEW E \in SUBSET Evidence, NEW r \in SyncEvidenceRequests(p, E)
  PROVE  /\ r.history = p.history /\ r.resolution = p.resolution /\ r.bare = p.bare
         /\ r.status = p.status
  BY DEF SyncEvidenceRequests, Plan

-----------------------------------------------------------------------------
(* Verdicts.                                                               *)
LEMMA VerdictOfRun ==
  ASSUME NEW p \in Plan, Agree(p), NEW E \in SUBSET Evidence, NEW r \in ProtocolRuns(p, E),
         NEW q \in Question, r.history[q] # p.history[q]
  PROVE  r.resolution[q] = Verdict[q][E] /\ Requires[q] \subseteq HeldCategories(E)
<1> DEFINE asked    == AskedAfter(p, E)
           resolved == ResolveQuestions(asked, E)
           again    == AskedAfter(resolved, E)
<1>1. r \in SyncEvidenceRequests(again, E)
  BY DEF ProtocolRuns
<1>2. asked \in Plan /\ Agree(asked)
  BY AskedAfterAdvances DEF Advances
<1>3. resolved \in Plan /\ Agree(resolved)
  BY <1>2, ResolveAdvances DEF Advances
<1>4. again \in Plan
  BY <1>3, AskedAfterAdvances DEF Advances
<1>5. asked.history = p.history /\ again.history = resolved.history
      /\ again.resolution = resolved.resolution
  BY <1>3, AskedKeeps
<1>6. r.history = again.history /\ r.resolution = again.resolution
  BY <1>1, <1>4, SyncKeeps
<1>7. Conclusive(asked, q, E) /\ resolved.resolution[q] = Resolve(asked, q, E)
  BY <1>2, <1>5, <1>6, ResolvingKeeps
<1> HIDE DEF asked, resolved, again
<1>8. Resolve(asked, q, E) # "insufficient"
  BY <1>7 DEF Conclusive, Outcome
<1>9. /\ Needs(asked, q) # {} /\ MissingCategories(asked, q, E) = {}
      /\ Resolve(asked, q, E) = Verdict[q][E]
  BY <1>8 DEF Resolve
<1>10. Requires[q] \subseteq HeldCategories(E)
  BY <1>9 DEF MissingCategories, Needs
<1> QED  BY <1>5, <1>6, <1>7, <1>9, <1>10

-----------------------------------------------------------------------------
(* Reasons to ask.                                                         *)
Justified(p, q) == \/ DependenciesMet(p, q)
                   \/ \E parent \in Question : q \in GeneratedBy(p, parent)

LEMMA ReasonsStand ==
  ASSUME NEW p \in Plan, Agree(p), NEW r, Advances(p, r), NEW q \in Question, Justified(p, q)
  PROVE  Justified(r, q)
<1>1. CASE DependenciesMet(p, q)
  <2>1. \A d \in DependsOn[q] : d \in Question /\ p.status[d] = "answered"
    BY <1>1, PlaybookAssumption DEF DependenciesMet
  <2>2. \A d \in DependsOn[q] : r.status[d] = "answered"
    BY <2>1 DEF Advances, Kept, Settled
  <2> QED  BY <2>2 DEF Justified, DependenciesMet
<1>2. ASSUME NEW parent \in Question, q \in GeneratedBy(p, parent)
      PROVE  Justified(r, q)
  <2>1. p.resolution[parent] = "confirmed" /\ q \in Generates[parent]
    BY <1>2 DEF GeneratedBy
  <2>2. p.history[parent] # << >>
    BY <2>1 DEF Agree
  <2>3. p.status[parent] \in Settled
    BY <2>2, LoggedIsSettled
  <2>4. r.resolution[parent] = "confirmed"
    BY <2>1, <2>3 DEF Advances, Kept
  <2> QED  BY <2>1, <2>4 DEF Justified, GeneratedBy
<1> QED  BY <1>1, <1>2 DEF Justified

LEMMA AskedJustified ==
  ASSUME NEW p \in Plan, Agree(p), NEW E \in SUBSET Evidence, NEW q \in Question,
         AskedAfter(p, E).status[q] # p.status[q]
  PROVE  Justified(AskedAfter(p, E), q)
<1> DEFINE ensured == EnsureQuestions(p)
           asked   == GenerateDynamicQuestions(ensured, E)
<1>1. Advances(p, ensured) /\ ensured \in Plan /\ Agree(ensured)
  BY EnsureAdvances DEF Advances
<1>2. Advances(ensured, asked)
  BY <1>1, GenerateAdvances
<1>3. asked = AskedAfter(p, E)
  BY DEF AskedAfter
<1>4. ensured.status[q] # p.status[q] => Justified(p, q)
  BY EnsureKeeps DEF Justified
<1>5. asked.status[q] # ensured.status[q] => Justified(ensured, q)
  BY <1>1, GenerateKeeps DEF Justified
<1> HIDE DEF ensured, asked
<1>6. Justified(ensured, q)
  BY <1>1, <1>3, <1>4, <1>5, ReasonsStand
<1> QED  BY <1>1, <1>2, <1>3, <1>6, ReasonsStand

LEMMA RunJustified ==
  ASSUME NEW p \in Plan, Agree(p), NEW E \in SUBSET Evidence, NEW r \in ProtocolRuns(p, E),
         NEW q \in Question, p.status[q] = "absent", r.status[q] # "absent"
  PROVE  Justified(r, q)
<1> DEFINE asked    == AskedAfter(p, E)
           resolved == ResolveQuestions(asked, E)
           again    == AskedAfter(resolved, E)
<1>1. r \in SyncEvidenceRequests(again, E)
  BY DEF ProtocolRuns
<1>2. asked \in Plan /\ Agree(asked)
  BY AskedAfterAdvances DEF Advances
<1>3. Advances(asked, resolved) /\ resolved \in Plan /\ Agree(resolved)
  BY <1>2, ResolveAdvances DEF Advances
<1>4. Advances(resolved, again) /\ again \in Plan /\ Agree(again)
  BY <1>3, AskedAfterAdvances DEF Advances
<1>5. Advances(again, r)
  BY <1>1, <1>4, SyncAdvances
<1>6. r.status = again.status
  BY <1>1, <1>4, SyncKeeps
<1>7. asked.status[q] # "absent" => Justified(asked, q)
  BY AskedJustified
<1>8. asked.status[q] = "absent" => resolved.status[q] = "absent"
  BY <1>2, ResolvingKeeps
<1>9. resolved.status[q] = "absent" => Justified(again, q)
  BY <1>3, <1>6, AskedJustified
<1> HIDE DEF asked, resolved, again
<1>10. Justified(asked, q) => Justified(again, q)
  BY <1>2, <1>3, <1>4, ReasonsStand
<1>11. Justified(again, q)
  BY <1>7, <1>8, <1>9, <1>10
<1> QED  BY <1>4, <1>5, <1>11, ReasonsStand

LEMMA RunKeepsBare ==
  ASSUME NEW p \in Plan, Agree(p), NEW E \in SUBSET Evidence, NEW r \in ProtocolRuns(p, E)
  PROVE  r.bare = p.bare
<1> DEFINE asked    == AskedAfter(p, E)
           resolved == ResolveQuestions(asked, E)
           again    == AskedAfter(resolved, E)
<1>1. r \in SyncEvidenceRequests(again, E)
  BY DEF ProtocolRuns
<1>2. asked \in Plan /\ Agree(asked)
  BY AskedAfterAdvances DEF Advances
<1>3. resolved \in Plan /\ Agree(resolved)
  BY <1>2, ResolveAdvances DEF Advances
<1>4. again \in Plan
  BY <1>3, AskedAfterAdvances DEF Advances
<1> QED  BY <1>1, <1>2, <1>3, <1>4, AskedKeeps, ResolvingKeeps, SyncKeeps

-----------------------------------------------------------------------------
(* Requests.                                                               *)
Guides(p, E) ==
  /\ Lacking(p, E) # {} => p.requests # {}
  /\ Cardinality(p.requests) <= 2
  /\ \A r \in p.requests : /\ r.categories # {}
                           /\ r.categories \intersect HeldCategories(E) = {}

LEMMA SyncGuides ==
  ASSUME NEW p \in Plan, NEW E \in SUBSET Evidence, NEW r \in SyncEvidenceRequests(p, E)
  PROVE  Guides(r, E)
<1>1. PICK S \in Selections(p, E) :
        r = [p EXCEPT !.requests = {RequestFor(p, E, q) : q \in S}]
  BY DEF SyncEvidenceRequests
<1>2. /\ r.requests = {RequestFor(p, E, q) : q \in S}
      /\ r.status = p.status /\ r.bare = p.bare
  BY <1>1 DEF Plan
<1>3. Lacking(r, E) = Lacking(p, E)
  BY <1>2 DEF Lacking, OpenQuestions, MissingCategories, Needs
<1>4. S \subseteq Lacking(p, E) /\ (Cardinality(S) = 2 \/ S = Lacking(p, E))
  BY <1>1 DEF Selections
<1>5. Lacking(p, E) # {} => r.requests # {}
  <2>1. S = {} => Cardinality(S) = 0
    BY FS_EmptySet
  <2> QED  BY <1>2, <1>4, <2>1
<1>6. Cardinality(r.requests) <= 2
  <2>1. CASE S = {}
    BY <1>2, <2>1, FS_EmptySet
  <2>2. ASSUME NEW a, NEW b, S = {a, b}
        PROVE  Cardinality(r.requests) <= 2
    <3> DEFINE x == RequestFor(p, E, a)
               y == RequestFor(p, E, b)
    <3>1. r.requests = {x} \union {y}
      BY <1>2, <2>2
    <3>2. IsFiniteSet({x}) /\ Cardinality({x}) = 1
      BY FS_Singleton
    <3>3. Cardinality({x} \union {y}) \in {1, 2}
      BY <3>2, FS_AddElement
    <3> QED  BY <3>1, <3>3
  <2>3. S = {} \/ \E a, b : S = {a, b}
    <3>1. S \in {{a, b} : a, b \in Lacking(p, E)} \union {{}}
      BY <1>1 DEF Selections
    <3>2. S \in {{a, b} : a, b \in Lacking(p, E)} \/ S = {}
      BY <3>1
    <3> QED  BY <3>2
  <2> QED  BY <2>1, <2>2, <2>3
<1>7. ASSUME NEW x \in r.requests
      PROVE  x.categories # {} /\ x.categories \intersect HeldCategories(E) = {}
  <2>1. PICK q \in S : x = RequestFor(p, E, q)
    BY <1>2
  <2>2. x.categories = MissingCategories(p, q, E)
    BY <2>1 DEF RequestFor
  <2> QED  BY <1>4, <2>2 DEF Lacking, MissingCategories
<1> QED  BY <1>3, <1>5, <1>6, <1>7 DEF Guides

LEMMA RunGuides ==
  ASSUME NEW p \in Plan, Agree(p), NEW E \in SUBSET Evidence, NEW r \in ProtocolRuns(p, E)
  PROVE  Guides(r, E)
<1> DEFINE asked    == AskedAfter(p, E)
           resolved == ResolveQuestions(asked, E)
           again    == AskedAfter(resolved, E)
<1>1. r \in SyncEvidenceRequests(again, E)
  BY DEF ProtocolRuns
<1>2. asked \in Plan /\ Agree(asked)
  BY AskedAfterAdvances DEF Advances
<1>3. resolved \in Plan /\ Agree(resolved)
  BY <1>2, ResolveAdvances DEF Advances
<1>4. again \in Plan
  BY <1>3, AskedAfterAdvances DEF Advances
<1> QED  BY <1>1, <1>4, SyncGuides

=============================================================================

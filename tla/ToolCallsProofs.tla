--------------------------- MODULE ToolCallsProofs ---------------------------
(***************************************************************************)
(* Theorems about ToolCalls, for every set of sessions, items and calls,   *)
(* every batch and every choice of sampling clients.                       *)
(*                                                                         *)
(* The inductive invariant says where a call of each tool can be, that a   *)
(* session nobody was told of is untouched, what the holder of the mutex   *)
(* may rely on at each label, and what a call that came in may expect.     *)
(***************************************************************************)
EXTENDS ToolCalls, TLAPS

Event == {"QuestionCreated", "EvidenceAdded", "QuestionResolved", "InvestigationCompleted"}

(* The kinds of the variables.                                             *)
Kinds ==
  /\ opened \subseteq Session
  /\ evidence \in [Session -> [Item -> Nat]]
  /\ derived \in [Session -> [Field -> SUBSET Item]]
  /\ completed \in [Session -> BOOLEAN]
  /\ verdicts \in [Session -> Seq(Call)]
  /\ archive \in [Session -> SUBSET SUBSET Item]
  /\ events \in [Session -> Seq(Event)]
  /\ holder \in Call \union {NoCall}
  /\ pc \in [Call -> Label]
  /\ at \in [Call -> Nat]
  /\ seen \in [Call -> SUBSET Item]
  /\ basis \in [Call -> SUBSET Item]
  /\ reply \in [Call -> [Field -> SUBSET Item]]
  /\ floor \in [Call -> [Field -> SUBSET Item]]

(* Where a call of each tool can be, and which entry of its list it is at. *)
WellPlaced(c) ==
  /\ Tool[c] = "start" =>
       pc[c] \in {"idle", "collect", "sampling", "rewrite", "create", "publish",
                 "respond", "returned"}
  /\ Tool[c] = "submit" =>
       pc[c] \in {"idle", "waiting", "ingest", "refuse", "collect", "sampling", "rewrite",
                 "publish", "release", "respond", "returned", "refused"}
  /\ Tool[c] = "get" =>
       pc[c] \in {"idle", "waiting", "collect", "sampling", "rewrite", "release",
                 "respond", "returned"}
  /\ Tool[c] = "resolve" =>
       pc[c] \in {"idle", "waiting", "verdict", "refuse", "publish", "release",
                 "respond", "returned", "refused"}
  /\ Tool[c] = "finish" =>
       pc[c] \in {"idle", "waiting", "collect", "sampling", "rewrite", "report",
                 "complete", "release", "returned"}
  /\ Tool[c] \in {"view", "similar"} =>
       pc[c] \in {"idle", "lookup", "respond", "returned"}
  /\ pc[c] = "ingest"  => at[c] \in 1 .. Len(Batch[c])
  /\ pc[c] = "rewrite" => at[c] \in 1 .. 2
  /\ pc[c] = "respond" => at[c] \in 1 .. Len(Reads(c))
  /\ pc[c] \in {"idle", "lookup", "sampling", "create"} => at[c] = 1
  /\ pc[c] = "publish" /\ Tool[c] = "start" => at[c] = 1

OnPath == \A c \in Call : WellPlaced(c)

(* A start_investigation has not put its session into the store yet.       *)
Unborn(c) == Tool[c] = "start" /\ pc[c] \in {"idle", "collect", "sampling", "rewrite", "create"}

(* Sessions are opened by start_investigation, and the other calls on them *)
(* come after its response.                                                *)
StartsFirst ==
  /\ \A c \in Call : Tool[c] = "start" => (Unborn(c) <=> Target[c] \notin opened)
  /\ \A c, d \in Call :
       Tool[c] = "start" /\ Tool[d] # "start" /\ Target[c] = Target[d] /\ pc[d] # "idle"
         => pc[c] = "returned"
  /\ \A c \in Call : Tool[c] # "start" /\ pc[c] # "idle" => Target[c] \in opened

(* A session that is not in the store has nothing in it, and nothing was   *)
(* completed before its start_investigation returned.                      *)
BornEmpty ==
  /\ \A s \in Session \ opened : Held(s) = {} /\ \A f \in Field : derived[s][f] = {}
  /\ \A c \in Call : Tool[c] = "start" /\ pc[c] # "returned" => ~completed[Target[c]]

(* The reasoners' evidence is still the session's when the answer is in.   *)
BasisHeld ==
  \A c \in Call : pc[c] \in {"sampling", "rewrite"} => basis[c] = Held(Target[c])

HalfWritten(c) == pc[c] = "rewrite" /\ at[c] = 2

(* The halves differ only in the middle of a recompute.                    *)
HalvesAgree ==
  /\ \A s \in Session, f \in Field : derived[s][f] \subseteq Held(s)
  /\ \A c \in Call : HalfWritten(c) => derived[Target[c]]["reasoned"] = Held(Target[c])
  /\ \A s \in Session :
       \/ derived[s]["reasoned"] = derived[s]["assessed"]
       \/ \E c \in Call : HalfWritten(c) /\ Inside(c) /\ Target[c] = s
  /\ \A c \in Call, f \in Field :
       pc[c] \in {"report", "complete"} => derived[Target[c]][f] = Held(Target[c])

SeenHeld == \A c \in Call : pc[c] = "ingest" => seen[c] = Held(Target[c])

Announced(s) == \E i \in 1 .. Len(events[s]) : events[s][i] = "InvestigationCompleted"

(* Who will still announce something works on a session that is open, or   *)
(* that only the host has declared complete.                               *)
MayAnnounce(c) ==
  \/ Tool[c] = "start" /\ pc[c] # "returned"
  \/ Tool[c] \in {"submit", "resolve"} /\ pc[c] \in {"ingest", "verdict", "collect", "sampling",
                                                      "rewrite", "publish"}
  \/ pc[c] = "complete"

Announcements ==
  /\ CompletionAnnouncedLast
  /\ \A s \in Session : Announced(s) => completed[s]
  /\ \A c \in Call : MayAnnounce(c) => ~Announced(Target[c])
  /\ \A c \in Call : pc[c] = "complete" => ~completed[Target[c]]

(* Fields of c's response that were read already.                          *)
ReadSoFar(c) ==
  CASE pc[c] = "respond"  -> {Reads(c)[i] : i \in 1 .. at[c] - 1}
    [] pc[c] = "returned" -> ReadFields(c)
    [] OTHER              -> {}

(* Items of c's batch that are in the session.                             *)
Ingested(c) ==
  CASE pc[c] = "ingest" -> {Batch[c][i] : i \in 1 .. at[c] - 1}
    [] pc[c] \in {"collect", "sampling", "rewrite", "publish", "release", "respond", "returned"} ->
         BatchItems(c)
    [] OTHER -> {}

(* Nothing a call may expect in its response is lost on the way.           *)
Expectations ==
  /\ \A c \in Call : pc[c] # "idle" =>
       \A f \in Field : floor[c][f] \subseteq derived[Target[c]][f]
  /\ \A c \in Call, f \in Field : f \in ReadSoFar(c) => floor[c][f] \subseteq reply[c][f]
  /\ \A c \in Call : Tool[c] = "submit" => Ingested(c) \subseteq Held(Target[c])
  /\ \A c \in Call, f \in Field :
       Tool[c] = "submit" /\ pc[c] \in {"publish", "release", "respond", "returned"} =>
         BatchItems(c) \subseteq derived[Target[c]][f]
  /\ \A c \in Call, f \in Field :
       Tool[c] = "submit" /\ f \in ReadSoFar(c) => BatchItems(c) \subseteq reply[c][f]

(* A report is whole, and what is archived comes from one.                 *)
Reports ==
  /\ \A c \in Call : Tool[c] = "finish" /\ pc[c] \in {"complete", "release", "returned"} =>
       reply[c]["reasoned"] = reply[c]["assessed"]
  /\ \A c \in Call : pc[c] = "complete" => reply[c]["reasoned"] = Held(Target[c])
  /\ ReportMatchesArchive

IInv ==
  /\ Kinds
  /\ OnPath
  /\ OneInside
  /\ StartsFirst
  /\ BornEmpty
  /\ BasisHeld
  /\ HalvesAgree
  /\ SeenHeld
  /\ NoItemTwice
  /\ Announcements
  /\ Expectations
  /\ Reports

-----------------------------------------------------------------------------
(* What a response reads, tool by tool; what a recompute writes.           *)
LEMMA ReadsShape ==
  ASSUME NEW c \in Call
  PROVE  /\ Tool[c] = "finish" => Len(Reads(c)) = 0
         /\ Tool[c] \in {"resolve", "view"} => Len(Reads(c)) = 1
         /\ Tool[c] \in {"start", "submit", "get", "similar"} => Len(Reads(c)) = 2
         /\ \A i \in 1 .. Len(Reads(c)) : Reads(c)[i] \in Field
         /\ Tool[c] \in {"start", "submit", "get", "resolve", "finish", "view", "similar"}
  BY CallAssumption DEF Reads, ToolName, Field

LEMMA FirstRead ==
  ASSUME NEW c \in Call, Tool[c] # "finish"
  PROVE  1 \in 1 .. Len(Reads(c))
<1>1. Len(Reads(c)) \in {1, 2}
  BY ReadsShape
<1> QED  BY <1>1

LEMMA WritesShape ==
  /\ Len(Writes) = 2
  /\ Writes[1] = "reasoned" /\ Writes[2] = "assessed"
  /\ Field = {"reasoned", "assessed"}
  BY DEF Writes, Field

LEMMA HeldItems == \A s \in Session : Held(s) \subseteq Item
  BY DEF Held

LEMMA TypeHalves == Kinds /\ OnPath => TypeOK
<1> SUFFICES ASSUME Kinds, OnPath PROVE TypeOK
  OBVIOUS
<1>1. ASSUME NEW c \in Call
      PROVE  /\ pc[c] = "ingest"  => Tool[c] = "submit" /\ at[c] \in 1 .. Len(Batch[c])
             /\ pc[c] = "rewrite" => at[c] \in 1 .. Len(Writes)
             /\ pc[c] = "respond" => at[c] \in 1 .. Len(Reads(c))
             /\ pc[c] \in {"collect", "sampling", "rewrite"} =>
                  Tool[c] \in {"start", "submit", "get", "finish"}
             /\ pc[c] = "publish" => Tool[c] \in {"start", "submit", "resolve"}
             /\ pc[c] = "create" => Tool[c] = "start"
  BY ReadsShape, WritesShape DEF OnPath, WellPlaced
<1> QED  BY <1>1 DEF TypeOK, Kinds, Event

(* A step of a call leaves the other calls where they are.                 *)
LEMMA OthersStay ==
  ASSUME Kinds, NEW c \in Call, Arrive(c) \/ Step(c)
  PROVE  \A d \in Call \ {c} :
           UNCHANGED <<pc[d], at[d], seen[d], basis[d], reply[d], floor[d]>>
<1>1. CASE Arrive(c)
  BY <1>1 DEF Arrive, Kinds, Goto, ScopeEnds, store, local
<1>2. CASE Acquire(c)
  BY <1>2 DEF Acquire, Kinds, Goto, ScopeEnds, store, local
<1>3. CASE Ingest(c)
  <2>1. CASE Batch[c][at[c]] \in seen[c]
    BY <2>1, <1>3 DEF Ingest, Kinds, Goto
  <2>2. CASE Batch[c][at[c]] \notin seen[c]
    BY <2>2, <1>3 DEF Ingest, Kinds, Goto
  <2> QED  BY <2>1, <2>2
<1>4. CASE Collect(c)
  BY <1>4 DEF Collect, Kinds, Goto, ScopeEnds, store, local
<1>5. CASE SamplingEnds(c)
  BY <1>5 DEF SamplingEnds, Kinds, Goto, ScopeEnds, store, local
<1>6. CASE Rewrite(c)
  BY <1>6 DEF Rewrite, Kinds, Goto, ScopeEnds, store, local
<1>7. CASE RecordVerdict(c)
  BY <1>7 DEF RecordVerdict, Kinds, Goto, ScopeEnds, store, local
<1>8. CASE Publish(c)
  BY <1>8 DEF Publish, Kinds, Goto, ScopeEnds, store, local
<1>9. CASE Report(c)
  BY <1>9 DEF Report, Kinds, Goto, ScopeEnds, store, local
<1>10. CASE Complete(c)
  BY <1>10 DEF Complete, Kinds, Goto, ScopeEnds, store, local
<1>11. CASE Refuse(c)
  BY <1>11 DEF Refuse, Kinds, Goto, ScopeEnds, store, local
<1>12. CASE Release(c)
  BY <1>12 DEF Release, Kinds, Goto, ScopeEnds, store, local
<1>13. CASE Create(c)
  BY <1>13 DEF Create, Kinds, Goto, ScopeEnds, store, local
<1>14. CASE Lookup(c)
  BY <1>14 DEF Lookup, Kinds, Goto, ScopeEnds, store, local
<1>15. CASE ReadField(c)
  BY <1>15 DEF ReadField, Kinds, Goto, ScopeEnds, store, local
<1> QED  BY <1>1, <1>2, <1>3, <1>4, <1>5, <1>6, <1>7, <1>8, <1>9, <1>10, <1>11, <1>12, <1>13, <1>14, <1>15 DEF Step

(* What the label of a call says about it.                                 *)
LEMMA ToolOf ==
  ASSUME NEW c \in Call, WellPlaced(c)
  PROVE  /\ Target[c] \in Session
         /\ pc[c] = "waiting" => Tool[c] \in {"submit", "get", "resolve", "finish"}
         /\ pc[c] = "ingest" =>
              Tool[c] = "submit" /\ at[c] \in 1 .. Len(Batch[c]) /\ Batch[c][at[c]] \in Item
         /\ pc[c] \in {"collect", "sampling", "rewrite"} =>
              Tool[c] \in {"start", "submit", "get", "finish"}
         /\ pc[c] = "rewrite" => at[c] \in {1, 2} /\ Writes[at[c]] \in Field
         /\ pc[c] = "verdict" => Tool[c] = "resolve"
         /\ pc[c] = "publish" => Tool[c] \in {"start", "submit", "resolve"}
         /\ pc[c] \in {"report", "complete"} => Tool[c] = "finish"
         /\ pc[c] = "refuse" => Tool[c] \in {"submit", "resolve"}
         /\ pc[c] = "release" => Tool[c] \in {"submit", "get", "resolve", "finish"}
         /\ pc[c] = "create" => Tool[c] = "start"
         /\ pc[c] = "lookup" => Tool[c] \in {"view", "similar"}
         /\ pc[c] = "respond" =>
              Tool[c] # "finish" /\ at[c] \in 1 .. Len(Reads(c)) /\ Reads(c)[at[c]] \in Field
<1>1. Target[c] \in Session /\ Batch[c] \in Seq(Item)
  BY CallAssumption
<1>2. Tool[c] \in {"start", "submit", "get", "resolve", "finish", "view", "similar"}
  BY ReadsShape
<1>3. pc[c] = "respond" => at[c] \in 1 .. Len(Reads(c)) /\ Reads(c)[at[c]] \in Field
  BY ReadsShape DEF WellPlaced
<1>4. pc[c] = "rewrite" => at[c] \in {1, 2} /\ Writes[at[c]] \in Field
  BY WritesShape DEF WellPlaced
<1>5. pc[c] = "ingest" => at[c] \in 1 .. Len(Batch[c]) /\ Batch[c][at[c]] \in Item
  BY <1>1 DEF WellPlaced
<1> QED  BY <1>1, <1>2, <1>3, <1>4, <1>5 DEF WellPlaced

LEMMA KindsNext ==
  ASSUME Kinds, NEW c \in Call, WellPlaced(c), Arrive(c) \/ Step(c)
  PROVE  Kinds'
<1>1. CASE Arrive(c)
  <2>1. pc' \in [Call -> Label]
    BY <1>1, CallAssumption DEF Arrive, Goto, Label, Kinds
  <2>2. floor' \in [Call -> [Field -> SUBSET Item]]
    BY <1>1, ToolOf DEF Arrive, Kinds
  <2> QED  BY <2>1, <2>2, <1>1 DEF Arrive, Kinds, store
<1>2. CASE Acquire(c)
  <2>1. pc' \in [Call -> Label]
    BY <1>2, ToolOf DEF Acquire, Goto, Label, Locked, Kinds
  <2>2. seen' \in [Call -> SUBSET Item] /\ at' \in [Call -> Nat] /\ holder' \in Call
    BY <1>2, ToolOf, HeldItems DEF Acquire, Kinds
  <2> QED  BY <2>1, <2>2, <1>2 DEF Acquire, Kinds, store
<1>3. CASE Ingest(c)
  <2> DEFINE s == Target[c]
              i == Batch[c][at[c]]
  <2>1. s \in Session /\ i \in Item
    BY <1>3, ToolOf DEF Ingest
  <2>2. CASE i \in seen[c]
    <3>1. pc' = [pc EXCEPT ![c] = "refuse"] /\ UNCHANGED <<evidence, seen, at>>
      BY <2>2, <1>3 DEF Ingest, Goto
    <3>2. pc' \in [Call -> Label]
      BY <3>1 DEF Kinds, Label, Locked
    <3> QED  BY <3>1, <3>2, <1>3 DEF Ingest, Kinds
  <2>3. CASE i \notin seen[c]
    <3>1. evidence' = [evidence EXCEPT ![s][i] = @ + 1]
      BY <2>3, <1>3 DEF Ingest
    <3>2. seen' = [seen EXCEPT ![c] = @ \union {i}] /\ at' = [at EXCEPT ![c] = @ + 1]
      BY <2>3, <1>3 DEF Ingest
    <3>3. pc' = [pc EXCEPT ![c] = "collect"] \/ pc' = [pc EXCEPT ![c] = "ingest"]
      BY <2>3, <1>3 DEF Ingest, Goto
    <3>4. evidence' \in [Session -> [Item -> Nat]]
      BY <3>1, <2>1 DEF Kinds
    <3>5. seen' \in [Call -> SUBSET Item] /\ at' \in [Call -> Nat]
      BY <3>2, <2>1 DEF Kinds
    <3>6. pc' \in [Call -> Label]
      BY <3>3 DEF Kinds, Label, Locked
    <3> QED  BY <3>4, <3>5, <3>6, <1>3 DEF Ingest, Kinds
  <2> QED  BY <2>2, <2>3
<1>4. CASE Collect(c)
  <2>1. pc' \in [Call -> Label]
    BY <1>4 DEF Collect, Goto, Label, Kinds
  <2>2. basis' \in [Call -> SUBSET Item] /\ at' \in [Call -> Nat]
    BY <1>4, ToolOf, HeldItems DEF Collect, Kinds
  <2> QED  BY <2>1, <2>2, <1>4 DEF Collect, Kinds, store
<1>5. CASE SamplingEnds(c)
  <2>1. pc' \in [Call -> Label]
    BY <1>5 DEF SamplingEnds, Goto, Label, Kinds
  <2> QED  BY <2>1, <1>5 DEF SamplingEnds, Kinds, store, local
<1>6. CASE Rewrite(c)
  <2>1. Target[c] \in Session /\ Writes[at[c]] \in Field
    BY <1>6, ToolOf DEF Rewrite
  <2>2. derived' \in [Session -> [Field -> SUBSET Item]]
    BY <2>1, <1>6, HeldItems DEF Rewrite, Kinds
  <2>3. completed' = completed \/ completed' = [completed EXCEPT ![Target[c]] = TRUE]
    BY <1>6 DEF Rewrite
  <2>4. completed' \in [Session -> BOOLEAN]
    BY <2>1, <2>3 DEF Kinds
  <2>5. pc' \in [Call -> Label]
    BY <1>6, ToolOf DEF Rewrite, Goto, AfterRecompute, Label, Locked, Kinds
  <2>6. at' \in [Call -> Nat]
    BY <1>6 DEF Rewrite, Kinds
  <2> QED  BY <2>2, <2>4, <2>5, <2>6, <1>6 DEF Rewrite, Kinds
<1>7. CASE RecordVerdict(c)
  <2>1. pc' \in [Call -> Label]
    BY <1>7 DEF RecordVerdict, Goto, Label, Kinds
  <2>2. verdicts' \in [Session -> Seq(Call)]
    BY <1>7, ToolOf DEF RecordVerdict, Kinds
  <2> QED  BY <2>1, <2>2, <1>7 DEF RecordVerdict, Kinds, local
<1>8. CASE Publish(c)
  <2>1. Target[c] \in Session /\ EventOf(c) \in Event
    BY <1>8, ToolOf DEF Publish, EventOf, Event
  <2>2. events' \in [Session -> Seq(Event)]
    BY <2>1, <1>8 DEF Publish, Kinds
  <2>3. pc' \in [Call -> Label]
    BY <1>8 DEF Publish, Goto, Label, Locked, Kinds
  <2> QED  BY <2>2, <2>3, <1>8 DEF Publish, Kinds, local
<1>9. CASE Report(c)
  <2>1. pc' \in [Call -> Label]
    BY <1>9 DEF Report, Goto, Label, Locked, Kinds
  <2>2. reply' \in [Call -> [Field -> SUBSET Item]]
    BY <1>9, ToolOf DEF Report, Kinds
  <2> QED  BY <2>1, <2>2, <1>9 DEF Report, Kinds, store
<1>10. CASE Complete(c)
  <2>1. Target[c] \in Session /\ "InvestigationCompleted" \in Event
    BY ToolOf DEF Event
  <2>2. events' \in [Session -> Seq(Event)]
    BY <2>1, <1>10 DEF Complete, Kinds
  <2>3. archive' \in [Session -> SUBSET SUBSET Item]
    BY <2>1, <1>10, HeldItems DEF Complete, Kinds
  <2>4. pc' \in [Call -> Label] /\ completed' \in [Session -> BOOLEAN]
    BY <2>1, <1>10 DEF Complete, Goto, Label, Locked, Kinds
  <2> QED  BY <2>2, <2>3, <2>4, <1>10 DEF Complete, Kinds, local
<1>11. CASE Refuse(c)
  <2>1. pc' \in [Call -> Label] /\ holder' = NoCall
    BY <1>11 DEF Refuse, Goto, Label, Kinds
  <2> QED  BY <2>1, <1>11 DEF Refuse, ScopeEnds, Kinds, store
<1>12. CASE Release(c)
  <2>1. pc' \in [Call -> Label] /\ holder' = NoCall
    BY <1>12 DEF Release, Goto, Label, Kinds
  <2> QED  BY <2>1, <1>12 DEF Release, ScopeEnds, Kinds, store
<1>13. CASE Create(c)
  <2>1. pc' \in [Call -> Label] /\ opened' \subseteq Session
    BY <1>13, ToolOf DEF Create, Goto, Label, Kinds
  <2> QED  BY <2>1, <1>13 DEF Create, Kinds, local
<1>14. CASE Lookup(c)
  <2>1. pc' \in [Call -> Label]
    BY <1>14 DEF Lookup, Goto, Label, Kinds
  <2> QED  BY <2>1, <1>14 DEF Lookup, Kinds, store, local
<1>15. CASE ReadField(c)
  <2>1. Target[c] \in Session /\ Reads(c)[at[c]] \in Field
    BY <1>15, ToolOf DEF ReadField
  <2>2. reply' \in [Call -> [Field -> SUBSET Item]]
    BY <2>1, <1>15 DEF ReadField, Kinds
  <2>3. pc' \in [Call -> Label] /\ at' \in [Call -> Nat]
    BY <1>15 DEF ReadField, Goto, Label, Kinds
  <2> QED  BY <2>2, <2>3, <1>15 DEF ReadField, Kinds, store
<1> QED  BY <1>1, <1>2, <1>3, <1>4, <1>5, <1>6, <1>7, <1>8, <1>9, <1>10, <1>11, <1>12, <1>13, <1>14, <1>15 DEF Step

LEMMA PlaceNext ==
  ASSUME pc \in [Call -> Label], at \in [Call -> Nat], NEW c \in Call, WellPlaced(c), Arrive(c) \/ Step(c)
  PROVE  WellPlaced(c)'
<1>1. CASE Arrive(c)
  BY <1>1, ReadsShape, WritesShape, CallAssumption DEF Arrive, WellPlaced, Goto, ScopeEnds, store, local, AfterRecompute
<1>2. CASE Acquire(c)
  BY <1>2, ReadsShape, WritesShape, CallAssumption DEF Acquire, WellPlaced, Goto, ScopeEnds, store, local, AfterRecompute
<1>3. CASE Ingest(c)
  BY <1>3, ReadsShape, WritesShape, CallAssumption DEF Ingest, WellPlaced, Goto, ScopeEnds, store, local, AfterRecompute
<1>4. CASE Collect(c)
  BY <1>4, ReadsShape, WritesShape, CallAssumption DEF Collect, WellPlaced, Goto, ScopeEnds, store, local, AfterRecompute
<1>5. CASE SamplingEnds(c)
  BY <1>5, ReadsShape, WritesShape, CallAssumption DEF SamplingEnds, WellPlaced, Goto, ScopeEnds, store, local, AfterRecompute
<1>6. CASE Rewrite(c)
  BY <1>6, ReadsShape, WritesShape, CallAssumption DEF Rewrite, WellPlaced, Goto, ScopeEnds, store, local, AfterRecompute
<1>7. CASE RecordVerdict(c)
  BY <1>7, ReadsShape, WritesShape, CallAssumption DEF RecordVerdict, WellPlaced, Goto, ScopeEnds, store, local, AfterRecompute
<1>8. CASE Publish(c)
  <2>1. pc[c] = "publish" /\ Tool[c] \in {"start", "submit", "resolve"} /\ (Tool[c] = "start" => at[c] = 1)
    BY <1>8, ToolOf DEF Publish, WellPlaced
  <2>2. pc' = [pc EXCEPT ![c] = IF Tool[c] = "start" THEN "respond" ELSE "release"] /\ at' = at
    BY <1>8 DEF Publish, Goto, local
  <2>3. pc'[c] = (IF Tool[c] = "start" THEN "respond" ELSE "release") /\ at'[c] = at[c]
    BY <2>2
  <2>4. ASSUME Tool[c] # "finish"  PROVE 1 \in 1 .. Len(Reads(c))
    BY FirstRead, <2>4
  <2>5. pc'[c] = "respond" => at'[c] \in 1 .. Len(Reads(c))
    BY <2>1, <2>3, <2>4
  <2> QED  BY <2>1, <2>3, <2>5 DEF WellPlaced
<1>9. CASE Report(c)
  BY <1>9, ReadsShape, WritesShape, CallAssumption DEF Report, WellPlaced, Goto, ScopeEnds, store, local, AfterRecompute
<1>10. CASE Complete(c)
  BY <1>10, ReadsShape, WritesShape, CallAssumption DEF Complete, WellPlaced, Goto, ScopeEnds, store, local, AfterRecompute
<1>11. CASE Refuse(c)
  BY <1>11, ReadsShape, WritesShape, CallAssumption DEF Refuse, WellPlaced, Goto, ScopeEnds, store, local, AfterRecompute
<1>12. CASE Release(c)
  <2>1. pc[c] = "release" /\ Tool[c] \in {"submit", "get", "resolve", "finish"}
    BY <1>12, ToolOf DEF Release, WellPlaced
  <2>2. pc' = [pc EXCEPT ![c] = IF Tool[c] = "finish" THEN "returned" ELSE "respond"] /\ at' = [at EXCEPT ![c] = 1]
    BY <1>12 DEF Release, Goto, ScopeEnds
  <2>3. pc'[c] = (IF Tool[c] = "finish" THEN "returned" ELSE "respond") /\ at'[c] = 1
    BY <2>2
  <2>4. ASSUME Tool[c] # "finish"  PROVE 1 \in 1 .. Len(Reads(c))
    BY FirstRead, <2>4
  <2>5. pc'[c] = "respond" => at'[c] \in 1 .. Len(Reads(c))
    BY <2>1, <2>3, <2>4
  <2> QED  BY <2>1, <2>3, <2>5 DEF WellPlaced
<1>13. CASE Create(c)
  BY <1>13, ReadsShape, WritesShape, CallAssumption DEF Create, WellPlaced, Goto, ScopeEnds, store, local, AfterRecompute
<1>14. CASE Lookup(c)
  <2>1. pc[c] = "lookup" /\ at[c] = 1 /\ Tool[c] \in {"view", "similar"}
    BY <1>14, ToolOf DEF Lookup, WellPlaced
  <2>2. pc' = [pc EXCEPT ![c] = "respond"] /\ at' = at
    BY <1>14 DEF Lookup, Goto, local
  <2>3. pc'[c] = ("respond") /\ at'[c] = at[c]
    BY <2>2
  <2>4. ASSUME Tool[c] # "finish"  PROVE 1 \in 1 .. Len(Reads(c))
    BY FirstRead, <2>4
  <2>5. pc'[c] = "respond" => at'[c] \in 1 .. Len(Reads(c))
    BY <2>1, <2>3, <2>4
  <2> QED  BY <2>1, <2>3, <2>5 DEF WellPlaced
<1>15. CASE ReadField(c)
  BY <1>15, ReadsShape, WritesShape, CallAssumption DEF ReadField, WellPlaced, Goto, ScopeEnds, store, local, AfterRecompute
<1> QED  BY <1>1, <1>2, <1>3, <1>4, <1>5, <1>6, <1>7, <1>8, <1>9, <1>10, <1>11, <1>12, <1>13, <1>14, <1>15 DEF Step

LEMMA PathNext ==
  ASSUME Kinds, OnPath, NEW c \in Call, Arrive(c) \/ Step(c)
  PROVE  OnPath'
<1>1. WellPlaced(c)'
  BY PlaceNext DEF OnPath, Kinds
<1>2. \A d \in Call \ {c} : WellPlaced(d)'
  BY OthersStay DEF OnPath, WellPlaced
<1> QED  BY <1>1, <1>2 DEF OnPath

-----------------------------------------------------------------------------
(* The mutex.                                                              *)
LEMMA HolderMoves ==
  ASSUME pc \in [Call -> Label], NEW c \in Call, WellPlaced(c), Arrive(c) \/ Step(c)
  PROVE  \/ holder' = holder /\ (Inside(c)' <=> Inside(c))
         \/ holder = NoCall /\ holder' = c /\ ~Inside(c) /\ Inside(c)'
         \/ Inside(c) /\ holder' = NoCall /\ ~Inside(c)'
<1>1. CASE Arrive(c)
  BY <1>1, ToolOf DEF Arrive, Inside, Locked, Goto, AfterRecompute, Free
<1>2. CASE Acquire(c)
  BY <1>2, ToolOf DEF Acquire, Inside, Locked, Goto, AfterRecompute, Free
<1>3. CASE Ingest(c)
  BY <1>3, ToolOf DEF Ingest, Inside, Locked, Goto, AfterRecompute, Free
<1>4. CASE Collect(c)
  BY <1>4, ToolOf DEF Collect, Inside, Locked, Goto, AfterRecompute, Free
<1>5. CASE SamplingEnds(c)
  BY <1>5, ToolOf DEF SamplingEnds, Inside, Locked, Goto, AfterRecompute, Free
<1>6. CASE Rewrite(c)
  BY <1>6, ToolOf DEF Rewrite, Inside, Locked, Goto, AfterRecompute, Free
<1>7. CASE RecordVerdict(c)
  BY <1>7, ToolOf DEF RecordVerdict, Inside, Locked, Goto, AfterRecompute, Free
<1>8. CASE Publish(c)
  BY <1>8, ToolOf DEF Publish, Inside, Locked, Goto, AfterRecompute, Free
<1>9. CASE Report(c)
  BY <1>9, ToolOf DEF Report, Inside, Locked, Goto, AfterRecompute, Free
<1>10. CASE Complete(c)
  BY <1>10, ToolOf DEF Complete, Inside, Locked, Goto, AfterRecompute, Free
<1>11. CASE Refuse(c)
  BY <1>11, ToolOf DEF Refuse, Inside, Locked, Goto, AfterRecompute, Free
<1>12. CASE Release(c)
  BY <1>12, ToolOf DEF Release, Inside, Locked, Goto, AfterRecompute, Free
<1>13. CASE Create(c)
  BY <1>13, ToolOf DEF Create, Inside, Locked, Goto, AfterRecompute, Free
<1>14. CASE Lookup(c)
  BY <1>14, ToolOf DEF Lookup, Inside, Locked, Goto, AfterRecompute, Free
<1>15. CASE ReadField(c)
  BY <1>15, ToolOf DEF ReadField, Inside, Locked, Goto, AfterRecompute, Free
<1> QED  BY <1>1, <1>2, <1>3, <1>4, <1>5, <1>6, <1>7, <1>8, <1>9, <1>10, <1>11, <1>12, <1>13, <1>14, <1>15 DEF Step

LEMMA InsideNext ==
  ASSUME Kinds, OnPath, OneInside, NEW c \in Call, Arrive(c) \/ Step(c)
  PROVE  OneInside'
<1>1. WellPlaced(c) /\ pc \in [Call -> Label] /\ NoCall \notin Call
  BY CallAssumption DEF OnPath, Kinds
<1>2. \A d \in Call \ {c} : Inside(d)' <=> Inside(d)
  BY OthersStay DEF Inside
<1>3. \/ holder' = holder /\ (Inside(c)' <=> Inside(c))
      \/ holder = NoCall /\ holder' = c /\ ~Inside(c) /\ Inside(c)'
      \/ Inside(c) /\ holder' = NoCall /\ ~Inside(c)'
  BY HolderMoves, <1>1
<1> QED  BY <1>1, <1>2, <1>3 DEF OneInside

-----------------------------------------------------------------------------
(* Sessions come into being.                                               *)
LEMMA OpenedBy ==
  ASSUME pc \in [Call -> Label], NEW c \in Call, Arrive(c) \/ Step(c)
  PROVE  \/ opened' = opened
         \/ pc[c] = "create" /\ pc'[c] = "publish" /\ opened' = opened \union {Target[c]}
<1>1. CASE Arrive(c)
  BY <1>1 DEF Arrive, Goto, store
<1>2. CASE Acquire(c)
  BY <1>2 DEF Acquire, Goto, store
<1>3. CASE Ingest(c)
  BY <1>3 DEF Ingest, Goto, store
<1>4. CASE Collect(c)
  BY <1>4 DEF Collect, Goto, store
<1>5. CASE SamplingEnds(c)
  BY <1>5 DEF SamplingEnds, Goto, store
<1>6. CASE Rewrite(c)
  BY <1>6 DEF Rewrite, Goto, store
<1>7. CASE RecordVerdict(c)
  BY <1>7 DEF RecordVerdict, Goto, store
<1>8. CASE Publish(c)
  BY <1>8 DEF Publish, Goto, store
<1>9. CASE Report(c)
  BY <1>9 DEF Report, Goto, store
<1>10. CASE Complete(c)
  BY <1>10 DEF Complete, Goto, store
<1>11. CASE Refuse(c)
  BY <1>11 DEF Refuse, Goto, store
<1>12. CASE Release(c)
  BY <1>12 DEF Release, Goto, store
<1>13. CASE Create(c)
  BY <1>13 DEF Create, Goto, store
<1>14. CASE Lookup(c)
  BY <1>14 DEF Lookup, Goto, store
<1>15. CASE ReadField(c)
  BY <1>15 DEF ReadField, Goto, store
<1> QED  BY <1>1, <1>2, <1>3, <1>4, <1>5, <1>6, <1>7, <1>8, <1>9, <1>10, <1>11, <1>12, <1>13, <1>14, <1>15 DEF Step

LEMMA StartMoves ==
  ASSUME pc \in [Call -> Label], NEW c \in Call, WellPlaced(c), Arrive(c) \/ Step(c)
  PROVE  \/ Tool[c] # "start" \/ Unborn(c) = Unborn(c)'
         \/ pc[c] = "create" /\ opened' = opened \union {Target[c]} /\ ~Unborn(c)'
<1>1. CASE Arrive(c)
  BY <1>1, ToolOf DEF Arrive, Goto, store, Unborn, AfterRecompute
<1>2. CASE Acquire(c)
  BY <1>2, ToolOf DEF Acquire, Goto, store, Unborn, AfterRecompute
<1>3. CASE Ingest(c)
  BY <1>3, ToolOf DEF Ingest, Goto, store, Unborn, AfterRecompute
<1>4. CASE Collect(c)
  BY <1>4, ToolOf DEF Collect, Goto, store, Unborn, AfterRecompute
<1>5. CASE SamplingEnds(c)
  BY <1>5, ToolOf DEF SamplingEnds, Goto, store, Unborn, AfterRecompute
<1>6. CASE Rewrite(c)
  BY <1>6, ToolOf DEF Rewrite, Goto, store, Unborn, AfterRecompute
<1>7. CASE RecordVerdict(c)
  BY <1>7, ToolOf DEF RecordVerdict, Goto, store, Unborn, AfterRecompute
<1>8. CASE Publish(c)
  BY <1>8, ToolOf DEF Publish, Goto, store, Unborn, AfterRecompute
<1>9. CASE Report(c)
  BY <1>9, ToolOf DEF Report, Goto, store, Unborn, AfterRecompute
<1>10. CASE Complete(c)
  BY <1>10, ToolOf DEF Complete, Goto, store, Unborn, AfterRecompute
<1>11. CASE Refuse(c)
  BY <1>11, ToolOf DEF Refuse, Goto, store, Unborn, AfterRecompute
<1>12. CASE Release(c)
  BY <1>12, ToolOf DEF Release, Goto, store, Unborn, AfterRecompute
<1>13. CASE Create(c)
  BY <1>13, ToolOf DEF Create, Goto, store, Unborn, AfterRecompute
<1>14. CASE Lookup(c)
  BY <1>14, ToolOf DEF Lookup, Goto, store, Unborn, AfterRecompute
<1>15. CASE ReadField(c)
  BY <1>15, ToolOf DEF ReadField, Goto, store, Unborn, AfterRecompute
<1> QED  BY <1>1, <1>2, <1>3, <1>4, <1>5, <1>6, <1>7, <1>8, <1>9, <1>10, <1>11, <1>12, <1>13, <1>14, <1>15 DEF Step

LEMMA StepsAreTaken ==
  ASSUME pc \in [Call -> Label], NEW c \in Call, WellPlaced(c), Arrive(c) \/ Step(c)
  PROVE  /\ pc[c] \notin {"returned", "refused"} /\ pc'[c] # "idle"
         /\ pc[c] = "idle" /\ Tool[c] # "start" =>
              \E d \in Call : Tool[d] = "start" /\ Target[d] = Target[c] /\ pc[d] = "returned"
<1>1. CASE Arrive(c)
  BY <1>1, ToolOf DEF Arrive, Goto, AfterRecompute
<1>2. CASE Acquire(c)
  BY <1>2, ToolOf DEF Acquire, Goto, AfterRecompute
<1>3. CASE Ingest(c)
  BY <1>3, ToolOf DEF Ingest, Goto, AfterRecompute
<1>4. CASE Collect(c)
  BY <1>4, ToolOf DEF Collect, Goto, AfterRecompute
<1>5. CASE SamplingEnds(c)
  BY <1>5, ToolOf DEF SamplingEnds, Goto, AfterRecompute
<1>6. CASE Rewrite(c)
  BY <1>6, ToolOf DEF Rewrite, Goto, AfterRecompute
<1>7. CASE RecordVerdict(c)
  BY <1>7, ToolOf DEF RecordVerdict, Goto, AfterRecompute
<1>8. CASE Publish(c)
  BY <1>8, ToolOf DEF Publish, Goto, AfterRecompute
<1>9. CASE Report(c)
  BY <1>9, ToolOf DEF Report, Goto, AfterRecompute
<1>10. CASE Complete(c)
  BY <1>10, ToolOf DEF Complete, Goto, AfterRecompute
<1>11. CASE Refuse(c)
  BY <1>11, ToolOf DEF Refuse, Goto, AfterRecompute
<1>12. CASE Release(c)
  BY <1>12, ToolOf DEF Release, Goto, AfterRecompute
<1>13. CASE Create(c)
  BY <1>13, ToolOf DEF Create, Goto, AfterRecompute
<1>14. CASE Lookup(c)
  BY <1>14, ToolOf DEF Lookup, Goto, AfterRecompute
<1>15. CASE ReadField(c)
  BY <1>15, ToolOf DEF ReadField, Goto, AfterRecompute
<1> QED  BY <1>1, <1>2, <1>3, <1>4, <1>5, <1>6, <1>7, <1>8, <1>9, <1>10, <1>11, <1>12, <1>13, <1>14, <1>15 DEF Step

LEMMA StartsFirstNext ==
  ASSUME Kinds, OnPath, StartsFirst, NEW c \in Call, Arrive(c) \/ Step(c)
  PROVE  StartsFirst'
<1>1. WellPlaced(c) /\ pc \in [Call -> Label]
  BY DEF OnPath, Kinds
<1>2. \A d, e \in Call :
        Tool[d] = "start" /\ Tool[e] = "start" /\ Target[d] = Target[e] => d = e
  BY CallAssumption
<1>3. \A d \in Call \ {c} : pc'[d] = pc[d]
  BY OthersStay
<1>4. pc[c] = "create" => Tool[c] = "start"
  BY <1>1, ToolOf
<1>5. opened \subseteq opened'
  BY <1>1, OpenedBy
<1>6. ASSUME NEW d \in Call, Tool[d] = "start"
      PROVE  Unborn(d)' <=> Target[d] \notin opened'
  <2>1. CASE d = c
    BY <2>1, <1>1, <1>6, OpenedBy, StartMoves DEF StartsFirst, Unborn
  <2>2. CASE d # c
    <3>1. Unborn(d)' <=> Unborn(d)
      BY <2>2, <1>3 DEF Unborn
    <3>2. Target[d] \in opened' <=> Target[d] \in opened
      BY <2>2, <1>1, <1>2, <1>4, <1>6, OpenedBy
    <3> QED  BY <3>1, <3>2, <1>6 DEF StartsFirst
  <2> QED  BY <2>1, <2>2
<1>7. ASSUME NEW e \in Call, NEW d \in Call, Tool[e] = "start", Tool[d] # "start",
             Target[e] = Target[d], pc'[d] # "idle"
      PROVE  pc'[e] = "returned"
  <2>1. pc[e] = "returned"
    <3>1. CASE pc[d] # "idle"
      BY <3>1, <1>7 DEF StartsFirst
    <3>2. CASE pc[d] = "idle"
      <4>1. d = c
        BY <3>2, <1>3, <1>7
      <4> QED  BY <4>1, <3>2, <1>1, <1>2, <1>7, StepsAreTaken
    <3> QED  BY <3>1, <3>2
  <2>2. e # c
    BY <2>1, <1>1, StepsAreTaken
  <2> QED  BY <2>1, <2>2, <1>3
<1>8. ASSUME NEW d \in Call, Tool[d] # "start", pc'[d] # "idle"
      PROVE  Target[d] \in opened'
  <2>1. CASE pc[d] # "idle"
    BY <2>1, <1>5, <1>8 DEF StartsFirst
  <2>2. CASE pc[d] = "idle"
    <3>1. d = c
      BY <2>2, <1>3, <1>8
    <3>2. PICK e \in Call : Tool[e] = "start" /\ Target[e] = Target[d] /\ pc[e] = "returned"
      BY <3>1, <2>2, <1>1, <1>8, StepsAreTaken
    <3>3. Target[d] \in opened
      BY <3>2 DEF StartsFirst, Unborn
    <3> QED  BY <3>3, <1>5
  <2> QED  BY <2>1, <2>2
<1> QED  BY <1>6, <1>7, <1>8 DEF StartsFirst

-----------------------------------------------------------------------------
(* Evidence.                                                               *)
Entering(c) == Batch[c][at[c]]

LEMMA EvidenceMoves ==
  ASSUME pc \in [Call -> Label], seen \in [Call -> SUBSET Item],
         at \in [Call -> Nat], NEW c \in Call, WellPlaced(c), Arrive(c) \/ Step(c)
  PROVE  \/ evidence' = evidence /\ (pc'[c] = "ingest" => seen'[c] = Held(Target[c]))
         \/ /\ pc[c] = "ingest" /\ pc'[c] \in {"ingest", "collect"}
            /\ pc'[c] = "collect" => at[c] = Len(Batch[c])
            /\ Entering(c) \notin seen[c]
            /\ evidence' = [evidence EXCEPT ![Target[c]][Entering(c)] = @ + 1]
            /\ seen'[c] = seen[c] \union {Entering(c)}
            /\ at'[c] = at[c] + 1
<1>1. CASE Arrive(c)
  BY <1>1, ToolOf DEF Arrive, Goto, store, AfterRecompute, Entering
<1>2. CASE Acquire(c)
  BY <1>2, ToolOf DEF Acquire, Goto, store, AfterRecompute, Entering
<1>3. CASE Ingest(c)
  BY <1>3, ToolOf DEF Ingest, Goto, store, AfterRecompute, Entering
<1>4. CASE Collect(c)
  BY <1>4, ToolOf DEF Collect, Goto, store, AfterRecompute, Entering
<1>5. CASE SamplingEnds(c)
  BY <1>5, ToolOf DEF SamplingEnds, Goto, store, AfterRecompute, Entering
<1>6. CASE Rewrite(c)
  BY <1>6, ToolOf DEF Rewrite, Goto, store, AfterRecompute, Entering
<1>7. CASE RecordVerdict(c)
  BY <1>7, ToolOf DEF RecordVerdict, Goto, store, AfterRecompute, Entering
<1>8. CASE Publish(c)
  BY <1>8, ToolOf DEF Publish, Goto, store, AfterRecompute, Entering
<1>9. CASE Report(c)
  BY <1>9, ToolOf DEF Report, Goto, store, AfterRecompute, Entering
<1>10. CASE Complete(c)
  BY <1>10, ToolOf DEF Complete, Goto, store, AfterRecompute, Entering
<1>11. CASE Refuse(c)
  BY <1>11, ToolOf DEF Refuse, Goto, store, AfterRecompute, Entering
<1>12. CASE Release(c)
  BY <1>12, ToolOf DEF Release, Goto, store, AfterRecompute, Entering
<1>13. CASE Create(c)
  BY <1>13, ToolOf DEF Create, Goto, store, AfterRecompute, Entering
<1>14. CASE Lookup(c)
  BY <1>14, ToolOf DEF Lookup, Goto, store, AfterRecompute, Entering
<1>15. CASE ReadField(c)
  BY <1>15, ToolOf DEF ReadField, Goto, store, AfterRecompute, Entering
<1> QED  BY <1>1, <1>2, <1>3, <1>4, <1>5, <1>6, <1>7, <1>8, <1>9, <1>10, <1>11, <1>12, <1>13, <1>14, <1>15 DEF Step

LEMMA DerivedMoves ==
  ASSUME pc \in [Call -> Label], at \in [Call -> Nat], NEW c \in Call, WellPlaced(c), Arrive(c) \/ Step(c)
  PROVE  \/ derived' = derived /\ pc[c] # "rewrite"
         \/ /\ pc[c] = "rewrite"
            /\ derived' = [derived EXCEPT ![Target[c]][Writes[at[c]]] =
                             IF Writes[at[c]] = "reasoned" THEN basis[c] ELSE Held(Target[c])]
            /\ at[c] = 1 => pc'[c] = "rewrite" /\ at'[c] = 2
            /\ at[c] = 2 => pc'[c] \in {"create", "publish", "release", "report"}
<1>1. CASE Arrive(c)
  BY <1>1, ToolOf, WritesShape DEF Arrive, Goto, store, AfterRecompute
<1>2. CASE Acquire(c)
  BY <1>2, ToolOf, WritesShape DEF Acquire, Goto, store, AfterRecompute
<1>3. CASE Ingest(c)
  BY <1>3, ToolOf, WritesShape DEF Ingest, Goto, store, AfterRecompute
<1>4. CASE Collect(c)
  BY <1>4, ToolOf, WritesShape DEF Collect, Goto, store, AfterRecompute
<1>5. CASE SamplingEnds(c)
  BY <1>5, ToolOf, WritesShape DEF SamplingEnds, Goto, store, AfterRecompute
<1>6. CASE Rewrite(c)
  BY <1>6, ToolOf, WritesShape DEF Rewrite, Goto, store, AfterRecompute
<1>7. CASE RecordVerdict(c)
  BY <1>7, ToolOf, WritesShape DEF RecordVerdict, Goto, store, AfterRecompute
<1>8. CASE Publish(c)
  BY <1>8, ToolOf, WritesShape DEF Publish, Goto, store, AfterRecompute
<1>9. CASE Report(c)
  BY <1>9, ToolOf, WritesShape DEF Report, Goto, store, AfterRecompute
<1>10. CASE Complete(c)
  BY <1>10, ToolOf, WritesShape DEF Complete, Goto, store, AfterRecompute
<1>11. CASE Refuse(c)
  BY <1>11, ToolOf, WritesShape DEF Refuse, Goto, store, AfterRecompute
<1>12. CASE Release(c)
  BY <1>12, ToolOf, WritesShape DEF Release, Goto, store, AfterRecompute
<1>13. CASE Create(c)
  BY <1>13, ToolOf, WritesShape DEF Create, Goto, store, AfterRecompute
<1>14. CASE Lookup(c)
  BY <1>14, ToolOf, WritesShape DEF Lookup, Goto, store, AfterRecompute
<1>15. CASE ReadField(c)
  BY <1>15, ToolOf, WritesShape DEF ReadField, Goto, store, AfterRecompute
<1> QED  BY <1>1, <1>2, <1>3, <1>4, <1>5, <1>6, <1>7, <1>8, <1>9, <1>10, <1>11, <1>12, <1>13, <1>14, <1>15 DEF Step

LEMMA CompletedMoves ==
  ASSUME pc \in [Call -> Label], NEW c \in Call, Arrive(c) \/ Step(c)
  PROVE  \/ completed' = completed
         \/ /\ completed' = [completed EXCEPT ![Target[c]] = TRUE]
            /\ \/ pc[c] = "complete" /\ pc'[c] = "release"
               \/ pc[c] = "rewrite" /\ basis[c] # {}
<1>1. CASE Arrive(c)
  BY <1>1 DEF Arrive, Goto, store
<1>2. CASE Acquire(c)
  BY <1>2 DEF Acquire, Goto, store
<1>3. CASE Ingest(c)
  BY <1>3 DEF Ingest, Goto, store
<1>4. CASE Collect(c)
  BY <1>4 DEF Collect, Goto, store
<1>5. CASE SamplingEnds(c)
  BY <1>5 DEF SamplingEnds, Goto, store
<1>6. CASE Rewrite(c)
  BY <1>6 DEF Rewrite, Goto, store
<1>7. CASE RecordVerdict(c)
  BY <1>7 DEF RecordVerdict, Goto, store
<1>8. CASE Publish(c)
  BY <1>8 DEF Publish, Goto, store
<1>9. CASE Report(c)
  BY <1>9 DEF Report, Goto, store
<1>10. CASE Complete(c)
  BY <1>10 DEF Complete, Goto, store
<1>11. CASE Refuse(c)
  BY <1>11 DEF Refuse, Goto, store
<1>12. CASE Release(c)
  BY <1>12 DEF Release, Goto, store
<1>13. CASE Create(c)
  BY <1>13 DEF Create, Goto, store
<1>14. CASE Lookup(c)
  BY <1>14 DEF Lookup, Goto, store
<1>15. CASE ReadField(c)
  BY <1>15 DEF ReadField, Goto, store
<1> QED  BY <1>1, <1>2, <1>3, <1>4, <1>5, <1>6, <1>7, <1>8, <1>9, <1>10, <1>11, <1>12, <1>13, <1>14, <1>15 DEF Step

LEMMA BasisMoves ==
  ASSUME pc \in [Call -> Label], at \in [Call -> Nat], basis \in [Call -> SUBSET Item],
         NEW c \in Call, WellPlaced(c), Arrive(c) \/ Step(c)
  PROVE  /\ pc'[c] = "sampling" => pc[c] = "collect"
         /\ pc'[c] = "rewrite" => pc[c] \in {"collect", "sampling"} \/ (pc[c] = "rewrite" /\ at[c] = 1)
         /\ pc[c] = "collect" => basis'[c] = Held(Target[c]) /\ at'[c] = 1
         /\ pc[c] \in {"sampling", "rewrite"} => basis'[c] = basis[c]
<1>1. CASE Arrive(c)
  BY <1>1, ToolOf, WritesShape DEF Arrive, Goto, local, AfterRecompute
<1>2. CASE Acquire(c)
  BY <1>2, ToolOf, WritesShape DEF Acquire, Goto, local, AfterRecompute
<1>3. CASE Ingest(c)
  BY <1>3, ToolOf, WritesShape DEF Ingest, Goto, local, AfterRecompute
<1>4. CASE Collect(c)
  <2>1. pc[c] = "collect" /\ basis'[c] = Held(Target[c]) /\ at'[c] = 1
    BY <1>4 DEF Collect
  <2> QED  BY <2>1
<1>5. CASE SamplingEnds(c)
  <2>1. pc[c] = "sampling" /\ pc'[c] = "rewrite" /\ basis' = basis
    BY <1>5 DEF SamplingEnds, Goto, local
  <2> QED  BY <2>1
<1>6. CASE Rewrite(c)
  BY <1>6, ToolOf, WritesShape DEF Rewrite, Goto, local, AfterRecompute
<1>7. CASE RecordVerdict(c)
  BY <1>7, ToolOf, WritesShape DEF RecordVerdict, Goto, local, AfterRecompute
<1>8. CASE Publish(c)
  BY <1>8, ToolOf, WritesShape DEF Publish, Goto, local, AfterRecompute
<1>9. CASE Report(c)
  BY <1>9, ToolOf, WritesShape DEF Report, Goto, local, AfterRecompute
<1>10. CASE Complete(c)
  BY <1>10, ToolOf, WritesShape DEF Complete, Goto, local, AfterRecompute
<1>11. CASE Refuse(c)
  BY <1>11, ToolOf, WritesShape DEF Refuse, Goto, local, AfterRecompute
<1>12. CASE Release(c)
  BY <1>12, ToolOf, WritesShape DEF Release, Goto, local, AfterRecompute
<1>13. CASE Create(c)
  BY <1>13, ToolOf, WritesShape DEF Create, Goto, local, AfterRecompute
<1>14. CASE Lookup(c)
  BY <1>14, ToolOf, WritesShape DEF Lookup, Goto, local, AfterRecompute
<1>15. CASE ReadField(c)
  BY <1>15, ToolOf, WritesShape DEF ReadField, Goto, local, AfterRecompute
<1> QED  BY <1>1, <1>2, <1>3, <1>4, <1>5, <1>6, <1>7, <1>8, <1>9, <1>10, <1>11, <1>12, <1>13, <1>14, <1>15 DEF Step

LEMMA HeldMoves ==
  ASSUME Kinds, NEW c \in Call, WellPlaced(c), Arrive(c) \/ Step(c)
  PROVE  \/ /\ \A s \in Session : Held(s)' = Held(s)
            /\ pc'[c] = "ingest" => seen'[c] = Held(Target[c])
         \/ /\ pc[c] = "ingest" /\ Entering(c) \in Item \ seen[c]
            /\ seen'[c] = seen[c] \union {Entering(c)}
            /\ Held(Target[c])' = Held(Target[c]) \union {Entering(c)}
            /\ \A s \in Session \ {Target[c]} : Held(s)' = Held(s)
<1>1. Target[c] \in Session /\ (pc[c] = "ingest" => Entering(c) \in Item)
  BY ToolOf DEF Entering
<1>2. CASE evidence' = evidence /\ (pc'[c] = "ingest" => seen'[c] = Held(Target[c]))
  BY <1>2 DEF Held
<1>3. CASE /\ pc[c] = "ingest" /\ Entering(c) \notin seen[c]
           /\ seen'[c] = seen[c] \union {Entering(c)}
           /\ evidence' = [evidence EXCEPT ![Target[c]][Entering(c)] = @ + 1]
  <2>1. \A s \in Session \ {Target[c]} : Held(s)' = Held(s)
    BY <1>1, <1>3 DEF Held, Kinds
  <2>2. Held(Target[c])' = Held(Target[c]) \union {Entering(c)}
    <3>1. \A i \in Item : evidence'[Target[c]][i] =
            IF i = Entering(c) THEN evidence[Target[c]][i] + 1 ELSE evidence[Target[c]][i]
      BY <1>1, <1>3 DEF Kinds
    <3>2. \A i \in Item : evidence[Target[c]][i] \in Nat
      BY <1>1 DEF Kinds
    <3> QED  BY <1>1, <1>3, <3>1, <3>2 DEF Held
  <2> QED  BY <1>1, <1>3, <2>1, <2>2
<1> QED  BY <1>2, <1>3, EvidenceMoves DEF Kinds

(* Two calls never work on one session: one of them is alone inside        *)
(* WithSession, or the session is not in the store yet.                    *)
Working == {"ingest", "collect", "sampling", "rewrite", "report", "complete"}

LEMMA Alone ==
  ASSUME OnPath, OneInside, StartsFirst, NEW c \in Call, NEW d \in Call,
         Target[c] = Target[d], pc[c] \in Working, pc[d] \in Working
  PROVE  c = d
<1>1. \A e \in {c, d} : WellPlaced(e)
  BY DEF OnPath
<1>2. \A e \in {c, d} : Inside(e) \/ (Tool[e] = "start" /\ Unborn(e) /\ pc[e] # "idle")
  BY <1>1 DEF Inside, Locked, Unborn, Working, WellPlaced
<1>3. \A e \in {c, d} : Tool[e] # "start" => Target[e] \in opened
  BY DEF StartsFirst, Working
<1>4. CASE Tool[c] = "start" /\ Tool[d] = "start"
  BY <1>4, CallAssumption
<1>5. CASE Tool[c] # "start" /\ Tool[d] # "start"
  <2>1. holder = c /\ holder = d
    BY <1>2, <1>5 DEF OneInside
  <2> QED  BY <2>1
<1>6. CASE Tool[c] = "start" /\ Tool[d] # "start"
  <2>1. Unborn(c)
    BY <1>1, <1>6 DEF Unborn, WellPlaced, Working
  <2> QED  BY <2>1, <1>3, <1>6 DEF StartsFirst
<1>7. CASE Tool[c] # "start" /\ Tool[d] = "start"
  <2>1. Unborn(d)
    BY <1>1, <1>7 DEF Unborn, WellPlaced, Working
  <2> QED  BY <2>1, <1>3, <1>7 DEF StartsFirst
<1> QED  BY <1>4, <1>5, <1>6, <1>7

LEMMA BasisNext ==
  ASSUME Kinds, OnPath, OneInside, StartsFirst, BasisHeld, NEW c \in Call, Arrive(c) \/ Step(c)
  PROVE  BasisHeld'
<1>1. WellPlaced(c)
  BY DEF OnPath
<1> SUFFICES ASSUME NEW d \in Call, pc'[d] \in {"sampling", "rewrite"}
             PROVE  basis'[d] = Held(Target[d])'
  BY DEF BasisHeld
<1>3. Target[d] \in Session
  BY CallAssumption
<1>4. CASE d = c
  <2>1. pc[c] \in {"collect", "sampling", "rewrite"}
    BY <1>1, <1>4, BasisMoves DEF Kinds
  <2>2. basis'[c] = Held(Target[c])
    BY <2>1, <1>1, BasisMoves DEF Kinds, BasisHeld
  <2>3. Held(Target[c])' = Held(Target[c])
    BY <2>1, <1>1, <1>3, <1>4, HeldMoves
  <2> QED  BY <2>2, <2>3, <1>4
<1>5. CASE d # c
  <2>1. pc[d] \in {"sampling", "rewrite"} /\ basis'[d] = basis[d]
    BY <1>5, OthersStay
  <2>2. Held(Target[d])' = Held(Target[d])
    <3>1. CASE pc[c] = "ingest" /\ Target[c] = Target[d]
      BY <3>1, <2>1, <1>5, Alone DEF Working
    <3>2. CASE ~(pc[c] = "ingest" /\ Target[c] = Target[d])
      BY <3>2, <1>1, <1>3, HeldMoves
    <3> QED  BY <3>1, <3>2
  <2> QED  BY <2>1, <2>2 DEF BasisHeld
<1> QED  BY <1>4, <1>5

LEMMA SeenNext ==
  ASSUME Kinds, OnPath, OneInside, StartsFirst, SeenHeld, NEW c \in Call, Arrive(c) \/ Step(c)
  PROVE  SeenHeld'
<1>1. WellPlaced(c)
  BY DEF OnPath
<1> SUFFICES ASSUME NEW d \in Call, pc'[d] = "ingest"
             PROVE  seen'[d] = Held(Target[d])'
  BY DEF SeenHeld
<1>3. Target[d] \in Session
  BY CallAssumption
<1>4. CASE d = c
  <2>1. CASE Held(Target[c])' = Held(Target[c]) /\ seen'[c] = Held(Target[c])
    BY <2>1, <1>4
  <2>2. CASE /\ pc[c] = "ingest" /\ seen'[c] = seen[c] \union {Entering(c)}
             /\ Held(Target[c])' = Held(Target[c]) \union {Entering(c)}
    BY <2>2, <1>4 DEF SeenHeld
  <2> QED  BY <2>1, <2>2, <1>1, <1>3, <1>4, HeldMoves
<1>5. CASE d # c
  <2>1. pc[d] = "ingest" /\ seen'[d] = seen[d]
    BY <1>5, OthersStay
  <2>2. Held(Target[d])' = Held(Target[d])
    <3>1. CASE pc[c] = "ingest" /\ Target[c] = Target[d]
      BY <3>1, <2>1, <1>5, Alone DEF Working
    <3>2. CASE ~(pc[c] = "ingest" /\ Target[c] = Target[d])
      BY <3>2, <1>1, <1>3, HeldMoves
    <3> QED  BY <3>1, <3>2
  <2> QED  BY <2>1, <2>2 DEF SeenHeld
<1> QED  BY <1>4, <1>5

(* A reasoning cycle writes what the session holds at that moment.         *)
LEMMA DerivedWrites ==
  ASSUME Kinds, BasisHeld, NEW c \in Call, WellPlaced(c), Arrive(c) \/ Step(c),
         NEW s \in Session, NEW f \in Field
  PROVE  \/ derived'[s][f] = derived[s][f] /\ ~(pc[c] = "rewrite" /\ s = Target[c] /\ f = Writes[at[c]])
         \/ /\ pc[c] = "rewrite" /\ s = Target[c] /\ f = Writes[at[c]]
            /\ derived'[s][f] = Held(s)
<1>1. Target[c] \in Session /\ (pc[c] = "rewrite" => Writes[at[c]] \in Field)
  BY ToolOf
<1>2. CASE derived' = derived /\ pc[c] # "rewrite"
  BY <1>2
<1>3. CASE pc[c] = "rewrite"
  <2>1. derived' = [derived EXCEPT ![Target[c]][Writes[at[c]]] =
                      IF Writes[at[c]] = "reasoned" THEN basis[c] ELSE Held(Target[c])]
    BY <1>3, DerivedMoves DEF Kinds
  <2>2. basis[c] = Held(Target[c])
    BY <1>3 DEF BasisHeld
  <2>3. derived' = [derived EXCEPT ![Target[c]][Writes[at[c]]] = Held(Target[c])]
    BY <2>1, <2>2
  <2> QED  BY <2>3, <1>1, <1>3 DEF Kinds
<1> QED  BY <1>2, <1>3, DerivedMoves DEF Kinds

LEMMA HeldGrows ==
  ASSUME Kinds, NEW c \in Call, WellPlaced(c), Arrive(c) \/ Step(c), NEW s \in Session
  PROVE  /\ Held(s) \subseteq Held(s)'
         /\ ~(pc[c] = "ingest" /\ Target[c] = s) => Held(s)' = Held(s)
BY HeldMoves

LEMMA BornEmptyNext ==
  ASSUME Kinds, OnPath, StartsFirst, BornEmpty, BasisHeld, NEW c \in Call, Arrive(c) \/ Step(c)
  PROVE  BornEmpty'
<1>1. WellPlaced(c) /\ Target[c] \in Session
  BY CallAssumption DEF OnPath
<1>2. opened \subseteq opened'
  BY <1>1, OpenedBy DEF Kinds
<1>3. ASSUME NEW s \in Session, s \notin opened'
      PROVE  Held(s)' = {} /\ \A f \in Field : derived'[s][f] = {}
  <2>1. s \notin opened /\ Held(s) = {} /\ \A f \in Field : derived[s][f] = {}
    BY <1>2, <1>3 DEF BornEmpty
  <2>2. ~(pc[c] = "ingest" /\ Target[c] = s)
    BY <2>1, <1>1, ToolOf DEF StartsFirst
  <2>3. Held(s)' = {}
    BY <2>1, <2>2, <1>1, HeldGrows
  <2> QED  BY <2>1, <2>3, <1>1, DerivedWrites
<1>4. ASSUME NEW d \in Call, Tool[d] = "start", pc'[d] # "returned"
      PROVE  ~completed'[Target[d]]
  <2>1. Target[d] \in Session
    BY CallAssumption
  <2>2. pc[d] # "returned"
    BY <1>1, <1>4, OthersStay, StepsAreTaken DEF Kinds
  <2>3. ~completed[Target[d]]
    BY <2>2, <1>4 DEF BornEmpty
  <2>4. ASSUME completed'[Target[d]] # completed[Target[d]]
        PROVE  FALSE
    <3>1. /\ Target[c] = Target[d]
          /\ pc[c] = "complete" \/ (pc[c] = "rewrite" /\ basis[c] # {})
      BY <2>1, <2>4, <1>1, CompletedMoves DEF Kinds
    <3>2. Tool[c] = "start"
      BY <3>1, <2>2, <1>4 DEF StartsFirst
    <3>3. pc[c] = "rewrite" /\ basis[c] = Held(Target[c])
      BY <3>1, <3>2, <1>1, ToolOf DEF BasisHeld
    <3>4. Target[c] \notin opened
      BY <3>2, <3>3 DEF StartsFirst, Unborn
    <3> QED  BY <3>1, <3>3, <3>4, <1>1 DEF BornEmpty
  <2> QED  BY <2>3, <2>4
<1> QED  BY <1>3, <1>4 DEF BornEmpty

LEMMA OnceNext ==
  ASSUME Kinds, OnPath, SeenHeld, NoItemTwice, NEW c \in Call, Arrive(c) \/ Step(c)
  PROVE  NoItemTwice'
<1>1. WellPlaced(c) /\ Target[c] \in Session
  BY CallAssumption DEF OnPath
<1>2. CASE evidence' = evidence
  BY <1>2 DEF NoItemTwice
<1>3. CASE /\ pc[c] = "ingest" /\ Entering(c) \notin seen[c]
           /\ evidence' = [evidence EXCEPT ![Target[c]][Entering(c)] = @ + 1]
  <2>1. Entering(c) \in Item
    BY <1>1, <1>3, ToolOf DEF Entering
  <2>2. Entering(c) \notin Held(Target[c])
    BY <1>3 DEF SeenHeld
  <2>3. evidence[Target[c]][Entering(c)] = 0
    BY <2>1, <2>2, <1>1 DEF Held, Kinds
  <2> QED  BY <2>1, <2>3, <1>1, <1>3 DEF NoItemTwice, Kinds
<1> QED  BY <1>1, <1>2, <1>3, EvidenceMoves DEF Kinds

LEMMA HalvesMoves ==
  ASSUME pc \in [Call -> Label], at \in [Call -> Nat], NEW c \in Call, WellPlaced(c), Arrive(c) \/ Step(c)
  PROVE  /\ pc'[c] = "rewrite" /\ at'[c] = 2 => pc[c] = "rewrite" /\ at[c] = 1
         /\ pc'[c] = "report" => pc[c] = "rewrite" /\ at[c] = 2
         /\ pc'[c] = "complete" => pc[c] = "report"
         /\ pc[c] = "rewrite" /\ at[c] = 1 => pc'[c] = "rewrite" /\ at'[c] = 2
<1>1. CASE Arrive(c)
  BY <1>1, ToolOf, WritesShape DEF Arrive, Goto, AfterRecompute, local
<1>2. CASE Acquire(c)
  BY <1>2, ToolOf, WritesShape DEF Acquire, Goto, AfterRecompute, local
<1>3. CASE Ingest(c)
  BY <1>3, ToolOf, WritesShape DEF Ingest, Goto, AfterRecompute, local
<1>4. CASE Collect(c)
  <2>1. pc'[c] \in {"sampling", "rewrite"} /\ at'[c] = 1 /\ pc[c] = "collect"
    BY <1>4 DEF Collect, Goto
  <2> QED  BY <2>1
<1>5. CASE SamplingEnds(c)
  <2>1. pc'[c] = "rewrite" /\ at' = at /\ pc[c] = "sampling" /\ at[c] = 1
    BY <1>5 DEF SamplingEnds, Goto, local, WellPlaced
  <2> QED  BY <2>1
<1>6. CASE Rewrite(c)
  BY <1>6, ToolOf, WritesShape DEF Rewrite, Goto, AfterRecompute, local
<1>7. CASE RecordVerdict(c)
  BY <1>7, ToolOf, WritesShape DEF RecordVerdict, Goto, AfterRecompute, local
<1>8. CASE Publish(c)
  BY <1>8, ToolOf, WritesShape DEF Publish, Goto, AfterRecompute, local
<1>9. CASE Report(c)
  BY <1>9, ToolOf, WritesShape DEF Report, Goto, AfterRecompute, local
<1>10. CASE Complete(c)
  BY <1>10, ToolOf, WritesShape DEF Complete, Goto, AfterRecompute, local
<1>11. CASE Refuse(c)
  BY <1>11, ToolOf, WritesShape DEF Refuse, Goto, AfterRecompute, local
<1>12. CASE Release(c)
  BY <1>12, ToolOf, WritesShape DEF Release, Goto, AfterRecompute, local
<1>13. CASE Create(c)
  BY <1>13, ToolOf, WritesShape DEF Create, Goto, AfterRecompute, local
<1>14. CASE Lookup(c)
  BY <1>14, ToolOf, WritesShape DEF Lookup, Goto, AfterRecompute, local
<1>15. CASE ReadField(c)
  BY <1>15, ToolOf, WritesShape DEF ReadField, Goto, AfterRecompute, local
<1> QED  BY <1>1, <1>2, <1>3, <1>4, <1>5, <1>6, <1>7, <1>8, <1>9, <1>10, <1>11, <1>12, <1>13, <1>14, <1>15 DEF Step

LEMMA HalvesNext ==
  ASSUME Kinds, OnPath, OneInside, StartsFirst, BornEmpty, BasisHeld, HalvesAgree,
         NEW c \in Call, Arrive(c) \/ Step(c)
  PROVE  HalvesAgree'
<1>1. WellPlaced(c) /\ Target[c] \in Session
  BY CallAssumption DEF OnPath
<1>2. pc \in [Call -> Label] /\ at \in [Call -> Nat]
  BY DEF Kinds
<1>3. ASSUME NEW s \in Session, NEW f \in Field
      PROVE  derived'[s][f] \subseteq Held(s)'
  BY <1>1, DerivedWrites, HeldGrows DEF HalvesAgree
<1>4. ASSUME NEW d \in Call, HalfWritten(d)'
      PROVE  derived'[Target[d]]["reasoned"] = Held(Target[d])'
  <2>1. Target[d] \in Session /\ "reasoned" \in Field
    BY CallAssumption, WritesShape
  <2>2. CASE d = c
    <3>1. pc[c] = "rewrite" /\ at[c] = 1
      BY <1>1, <1>2, <1>4, <2>2, HalvesMoves DEF HalfWritten
    <3>2. derived'[Target[c]]["reasoned"] = Held(Target[c])
      BY <3>1, <1>1, <2>1, DerivedWrites, WritesShape
    <3> QED  BY <3>1, <3>2, <1>1, <2>2, HeldGrows
  <2>3. CASE d # c
    <3>1. HalfWritten(d)
      BY <1>4, <2>3, OthersStay DEF HalfWritten
    <3>2. ~(pc[c] \in {"ingest", "rewrite"} /\ Target[c] = Target[d])
      BY <3>1, <2>3, Alone DEF HalfWritten, Working
    <3> QED  BY <3>1, <3>2, <2>1, <1>1, DerivedWrites, HeldGrows DEF HalvesAgree
  <2> QED  BY <2>2, <2>3
<1>5. ASSUME NEW s \in Session
      PROVE  \/ derived'[s]["reasoned"] = derived'[s]["assessed"]
             \/ \E d \in Call : HalfWritten(d)' /\ Inside(d)' /\ Target[d] = s
  <2>1. "reasoned" \in Field /\ "assessed" \in Field
    BY WritesShape
  <2>2. CASE ~(pc[c] = "rewrite" /\ Target[c] = s)
    <3>1. \A f \in Field : derived'[s][f] = derived[s][f]
      BY <2>2, <1>1, DerivedWrites
    <3>2. CASE derived[s]["reasoned"] = derived[s]["assessed"]
      BY <3>1, <3>2, <2>1
    <3>3. CASE \E d \in Call : HalfWritten(d) /\ Inside(d) /\ Target[d] = s
      <4>1. PICK d \in Call : HalfWritten(d) /\ Inside(d) /\ Target[d] = s
        BY <3>3
      <4>2. d # c
        BY <4>1, <2>2 DEF HalfWritten
      <4> QED  BY <4>1, <4>2, OthersStay DEF HalfWritten, Inside
    <3> QED  BY <3>2, <3>3 DEF HalvesAgree
  <2>3. CASE pc[c] = "rewrite" /\ Target[c] = s /\ at[c] = 1
    <3>1. HalfWritten(c)'
      BY <2>3, <1>1, <1>2, HalvesMoves DEF HalfWritten
    <3>2. CASE Tool[c] # "start"
      BY <3>1, <3>2, <2>3 DEF Inside, HalfWritten
    <3>3. CASE Tool[c] = "start"
      <4>1. s \notin opened
        BY <3>3, <2>3 DEF StartsFirst, Unborn
      <4>2. Held(s) = {} /\ \A f \in Field : derived[s][f] = {}
        BY <4>1 DEF BornEmpty
      <4>3. \A f \in Field : derived'[s][f] = {}
        BY <4>2, <1>1, DerivedWrites
      <4> QED  BY <4>3, <2>1
    <3> QED  BY <3>2, <3>3
  <2>4. CASE pc[c] = "rewrite" /\ Target[c] = s /\ at[c] = 2
    <3>1. derived'[s]["assessed"] = Held(s)
      BY <2>1, <2>4, <1>1, DerivedWrites, WritesShape
    <3>2. derived[s]["reasoned"] = Held(s)
      BY <2>4 DEF HalvesAgree, HalfWritten
    <3>3. derived'[s]["reasoned"] = derived[s]["reasoned"] \/ derived'[s]["reasoned"] = Held(s)
      BY <2>1, <1>1, DerivedWrites
    <3> QED  BY <3>1, <3>2, <3>3
  <2> QED  BY <2>2, <2>3, <2>4, <1>1, ToolOf
<1>6. ASSUME NEW d \in Call, NEW f \in Field, pc'[d] \in {"report", "complete"}
      PROVE  derived'[Target[d]][f] = Held(Target[d])'
  <2>1. Target[d] \in Session /\ Field = {"reasoned", "assessed"}
    BY CallAssumption, WritesShape
  <2>2. CASE d = c /\ pc'[c] = "report"
    <3>1. pc[c] = "rewrite" /\ at[c] = 2
      BY <1>1, <1>2, <2>2, HalvesMoves
    <3>2. derived[Target[c]]["reasoned"] = Held(Target[c])
      BY <3>1 DEF HalvesAgree, HalfWritten
    <3>3. derived'[Target[c]][f] = Held(Target[c])
      <4>1. CASE f = "assessed"
        BY <4>1, <3>1, <1>1, DerivedWrites, WritesShape
      <4>2. CASE f = "reasoned"
        BY <4>2, <3>2, <1>1, DerivedWrites
      <4> QED  BY <4>1, <4>2, <2>1
    <3> QED  BY <3>1, <3>3, <1>1, <2>2, HeldGrows
  <2>3. CASE d = c /\ pc'[c] = "complete"
    <3>1. pc[c] = "report"
      BY <1>1, <1>2, <2>3, HalvesMoves
    <3> QED  BY <3>1, <2>3, <1>1, DerivedWrites, HeldGrows DEF HalvesAgree
  <2>4. CASE d # c
    <3>1. pc[d] \in {"report", "complete"}
      BY <2>4, <1>6, OthersStay
    <3>2. ~(pc[c] \in {"ingest", "rewrite"} /\ Target[c] = Target[d])
      BY <3>1, <2>4, Alone DEF Working
    <3> QED  BY <3>1, <3>2, <2>1, <1>1, DerivedWrites, HeldGrows DEF HalvesAgree
  <2> QED  BY <2>2, <2>3, <2>4, <1>6
<1> QED  BY <1>3, <1>4, <1>5, <1>6 DEF HalvesAgree

-----------------------------------------------------------------------------
(* What the subscribers of the bus are told.                               *)
LEMMA EventMoves ==
  ASSUME NEW c \in Call, Arrive(c) \/ Step(c)
  PROVE  \/ events' = events /\ pc[c] \notin {"publish", "complete"}
         \/ pc[c] = "publish" /\ events' = [events EXCEPT ![Target[c]] = Append(@, EventOf(c))]
         \/ /\ pc[c] = "complete" /\ completed' = [completed EXCEPT ![Target[c]] = TRUE]
            /\ events' = [events EXCEPT ![Target[c]] = Append(@, "InvestigationCompleted")]
<1>1. CASE Arrive(c)
  BY <1>1 DEF Arrive, store
<1>2. CASE Acquire(c)
  BY <1>2 DEF Acquire, store
<1>3. CASE Ingest(c)
  BY <1>3 DEF Ingest, store
<1>4. CASE Collect(c)
  BY <1>4 DEF Collect, store
<1>5. CASE SamplingEnds(c)
  BY <1>5 DEF SamplingEnds, store
<1>6. CASE Rewrite(c)
  BY <1>6 DEF Rewrite, store
<1>7. CASE RecordVerdict(c)
  BY <1>7 DEF RecordVerdict, store
<1>8. CASE Publish(c)
  BY <1>8 DEF Publish, store
<1>9. CASE Report(c)
  BY <1>9 DEF Report, store
<1>10. CASE Complete(c)
  BY <1>10 DEF Complete, store
<1>11. CASE Refuse(c)
  BY <1>11 DEF Refuse, store
<1>12. CASE Release(c)
  BY <1>12 DEF Release, store
<1>13. CASE Create(c)
  BY <1>13 DEF Create, store
<1>14. CASE Lookup(c)
  BY <1>14 DEF Lookup, store
<1>15. CASE ReadField(c)
  BY <1>15 DEF ReadField, store
<1> QED  BY <1>1, <1>2, <1>3, <1>4, <1>5, <1>6, <1>7, <1>8, <1>9, <1>10, <1>11, <1>12, <1>13, <1>14, <1>15 DEF Step

LEMMA AnnounceMoves ==
  ASSUME pc \in [Call -> Label], NEW c \in Call, WellPlaced(c), Arrive(c) \/ Step(c)
  PROVE  /\ MayAnnounce(c)' =>
              \/ MayAnnounce(c) /\ pc[c] # "complete"
              \/ pc[c] \in {"waiting", "report"} /\ ~completed[Target[c]]
         /\ pc'[c] = "complete" => pc[c] = "report" /\ ~completed[Target[c]]
<1>1. CASE Arrive(c)
  BY <1>1, ToolOf DEF Arrive, MayAnnounce, Goto, AfterRecompute, local
<1>2. CASE Acquire(c)
  BY <1>2, ToolOf DEF Acquire, MayAnnounce, Goto, AfterRecompute, local
<1>3. CASE Ingest(c)
  BY <1>3, ToolOf DEF Ingest, MayAnnounce, Goto, AfterRecompute, local
<1>4. CASE Collect(c)
  BY <1>4, ToolOf DEF Collect, MayAnnounce, Goto, AfterRecompute, local
<1>5. CASE SamplingEnds(c)
  BY <1>5, ToolOf DEF SamplingEnds, MayAnnounce, Goto, AfterRecompute, local
<1>6. CASE Rewrite(c)
  BY <1>6, ToolOf DEF Rewrite, MayAnnounce, Goto, AfterRecompute, local
<1>7. CASE RecordVerdict(c)
  BY <1>7, ToolOf DEF RecordVerdict, MayAnnounce, Goto, AfterRecompute, local
<1>8. CASE Publish(c)
  BY <1>8, ToolOf DEF Publish, MayAnnounce, Goto, AfterRecompute, local
<1>9. CASE Report(c)
  BY <1>9, ToolOf DEF Report, MayAnnounce, Goto, AfterRecompute, local
<1>10. CASE Complete(c)
  BY <1>10, ToolOf DEF Complete, MayAnnounce, Goto, AfterRecompute, local
<1>11. CASE Refuse(c)
  BY <1>11, ToolOf DEF Refuse, MayAnnounce, Goto, AfterRecompute, local
<1>12. CASE Release(c)
  BY <1>12, ToolOf DEF Release, MayAnnounce, Goto, AfterRecompute, local
<1>13. CASE Create(c)
  BY <1>13, ToolOf DEF Create, MayAnnounce, Goto, AfterRecompute, local
<1>14. CASE Lookup(c)
  BY <1>14, ToolOf DEF Lookup, MayAnnounce, Goto, AfterRecompute, local
<1>15. CASE ReadField(c)
  BY <1>15, ToolOf DEF ReadField, MayAnnounce, Goto, AfterRecompute, local
<1> QED  BY <1>1, <1>2, <1>3, <1>4, <1>5, <1>6, <1>7, <1>8, <1>9, <1>10, <1>11, <1>12, <1>13, <1>14, <1>15 DEF Step

LEMMA AnnouncedMoves ==
  ASSUME Kinds, NEW c \in Call, WellPlaced(c), Arrive(c) \/ Step(c), NEW s \in Session
  PROVE  Announced(s)' =>
           Announced(s) \/ (pc[c] = "complete" /\ Target[c] = s /\ completed'[s])
<1>1. Target[c] \in Session /\ events[s] \in Seq(Event) /\ completed \in [Session -> BOOLEAN]
  BY ToolOf DEF Kinds
<1>2. CASE events'[s] = events[s]
  BY <1>2 DEF Announced
<1>3. CASE /\ pc[c] = "publish" /\ Target[c] = s
           /\ events' = [events EXCEPT ![s] = Append(@, EventOf(c))]
  <2>1. events'[s] = Append(events[s], EventOf(c))
    BY <1>3 DEF Kinds
  <2>2. EventOf(c) # "InvestigationCompleted"
    BY <1>3, ToolOf DEF EventOf
  <2> QED  BY <2>1, <2>2, <1>1 DEF Announced
<1>4. CASE /\ pc[c] = "complete" /\ Target[c] = s
           /\ completed' = [completed EXCEPT ![s] = TRUE]
  BY <1>1, <1>4
<1> QED  BY <1>1, <1>2, <1>3, <1>4, EventMoves DEF Kinds

LEMMA AnnouncementsNext ==
  ASSUME Kinds, OnPath, OneInside, StartsFirst, BornEmpty, Announcements,
         NEW c \in Call, Arrive(c) \/ Step(c)
  PROVE  Announcements'
<1>1. WellPlaced(c) /\ Target[c] \in Session
  BY CallAssumption DEF OnPath
<1>2. pc \in [Call -> Label]
  BY DEF Kinds
<1>3. CompletionAnnouncedLast'
  <2> SUFFICES ASSUME NEW s \in Session,
                      NEW i \in 1 .. Len(events'[s]), NEW j \in 1 .. Len(events'[s]), i < j
               PROVE  events'[s][i] # "InvestigationCompleted"
    BY DEF CompletionAnnouncedLast
  <2>1. events[s] \in Seq(Event)
    BY DEF Kinds
  <2>2. CASE events'[s] = events[s]
    BY <2>2 DEF Announcements, CompletionAnnouncedLast
  <2>3. ASSUME NEW e, pc[c] \in {"publish", "complete"}, Target[c] = s,
               events'[s] = Append(events[s], e)
        PROVE  events'[s][i] # "InvestigationCompleted"
    <3>1. MayAnnounce(c)
      BY <2>3, <1>1, ToolOf DEF MayAnnounce
    <3>2. ~Announced(s)
      BY <3>1, <2>3 DEF Announcements
    <3>3. i \in 1 .. Len(events[s]) /\ events'[s][i] = events[s][i]
      BY <2>1, <2>3
    <3> QED  BY <3>2, <3>3 DEF Announced
  <2>4. CASE pc[c] = "publish" /\ Target[c] = s
    <3>1. events'[s] = Append(events[s], EventOf(c))
      BY <2>4, <1>1, EventMoves DEF Kinds
    <3> QED  BY <2>3, <2>4, <3>1
  <2>5. CASE pc[c] = "complete" /\ Target[c] = s
    <3>1. events'[s] = Append(events[s], "InvestigationCompleted")
      BY <2>5, <1>1, EventMoves DEF Kinds
    <3> QED  BY <2>3, <2>5, <3>1
  <2>6. CASE ~(pc[c] \in {"publish", "complete"} /\ Target[c] = s)
    <3>1. events'[s] = events[s]
      BY <2>6, <1>1, EventMoves DEF Kinds
    <3> QED  BY <2>2, <3>1
  <2> QED  BY <2>4, <2>5, <2>6
<1>4. ASSUME NEW s \in Session, Announced(s)'
      PROVE  completed'[s]
  <2>1. completed[s] => completed'[s]
    BY <1>1, CompletedMoves DEF Kinds
  <2> QED  BY <2>1, <1>1, <1>4, AnnouncedMoves DEF Announcements
<1>5. ASSUME NEW d \in Call, MayAnnounce(d)'
      PROVE  ~Announced(Target[d])'
  <2>1. Target[d] \in Session
    BY CallAssumption
  <2>2. CASE d = c
    <3>1. ~Announced(Target[c]) /\ pc[c] # "complete"
      BY <2>2, <1>1, <1>2, <1>5, AnnounceMoves DEF Announcements
    <3> QED  BY <3>1, <2>2, <1>1, AnnouncedMoves
  <2>3. CASE d # c
    <3>1. MayAnnounce(d)
      BY <2>3, <1>5, OthersStay DEF MayAnnounce
    <3>2. ASSUME pc[c] = "complete", Target[c] = Target[d]
          PROVE  FALSE
      <4>1. Tool[c] = "finish" /\ Inside(c)
        BY <3>2, <1>1, ToolOf DEF Inside, Locked
      <4>2. ~Inside(d)
        BY <4>1, <2>3 DEF OneInside
      <4>3. Tool[d] = "start" /\ pc[d] # "returned"
        BY <3>1, <4>2 DEF MayAnnounce, Inside, Locked
      <4> QED  BY <4>1, <4>3, <3>2 DEF StartsFirst
    <3> QED  BY <3>1, <3>2, <2>1, <1>1, AnnouncedMoves DEF Announcements
  <2> QED  BY <2>2, <2>3
<1>6. ASSUME NEW d \in Call, pc'[d] = "complete"
      PROVE  ~completed'[Target[d]]
  <2>1. Target[d] \in Session
    BY CallAssumption
  <2>2. CASE d = c
    <3>1. pc[c] = "report" /\ ~completed[Target[c]]
      BY <2>2, <1>1, <1>2, <1>6, AnnounceMoves
    <3>2. completed' = completed
      BY <3>1, <1>2, CompletedMoves
    <3> QED  BY <3>1, <3>2, <2>2
  <2>3. CASE d # c
    <3>1. pc[d] = "complete"
      BY <2>3, <1>6, OthersStay
    <3>2. ~(pc[c] \in {"complete", "rewrite"} /\ Target[c] = Target[d])
      BY <3>1, <2>3, Alone DEF Working
    <3>3. completed'[Target[d]] = completed[Target[d]]
      BY <3>2, <2>1, <1>1, CompletedMoves DEF Kinds
    <3> QED  BY <3>1, <3>3 DEF Announcements
  <2> QED  BY <2>2, <2>3
<1> QED  BY <1>3, <1>4, <1>5, <1>6 DEF Announcements

-----------------------------------------------------------------------------
(* What a call may expect of its response.                                 *)
LEMMA FloorMoves ==
  ASSUME floor \in [Call -> [Field -> SUBSET Item]], NEW c \in Call, Arrive(c) \/ Step(c)
  PROVE  /\ pc[c] = "idle" => floor'[c] = derived[Target[c]] /\ derived' = derived
         /\ pc[c] # "idle" => floor'[c] = floor[c]
<1>1. CASE Arrive(c)
  BY <1>1 DEF Arrive, Goto, store, local, ScopeEnds
<1>2. CASE Acquire(c)
  BY <1>2 DEF Acquire, Goto, store, local, ScopeEnds
<1>3. CASE Ingest(c)
  BY <1>3 DEF Ingest, Goto, store, local, ScopeEnds
<1>4. CASE Collect(c)
  BY <1>4 DEF Collect, Goto, store, local, ScopeEnds
<1>5. CASE SamplingEnds(c)
  BY <1>5 DEF SamplingEnds, Goto, store, local, ScopeEnds
<1>6. CASE Rewrite(c)
  BY <1>6 DEF Rewrite, Goto, store, local, ScopeEnds
<1>7. CASE RecordVerdict(c)
  BY <1>7 DEF RecordVerdict, Goto, store, local, ScopeEnds
<1>8. CASE Publish(c)
  BY <1>8 DEF Publish, Goto, store, local, ScopeEnds
<1>9. CASE Report(c)
  BY <1>9 DEF Report, Goto, store, local, ScopeEnds
<1>10. CASE Complete(c)
  BY <1>10 DEF Complete, Goto, store, local, ScopeEnds
<1>11. CASE Refuse(c)
  BY <1>11 DEF Refuse, Goto, store, local, ScopeEnds
<1>12. CASE Release(c)
  BY <1>12 DEF Release, Goto, store, local, ScopeEnds
<1>13. CASE Create(c)
  BY <1>13 DEF Create, Goto, store, local, ScopeEnds
<1>14. CASE Lookup(c)
  BY <1>14 DEF Lookup, Goto, store, local, ScopeEnds
<1>15. CASE ReadField(c)
  BY <1>15 DEF ReadField, Goto, store, local, ScopeEnds
<1> QED  BY <1>1, <1>2, <1>3, <1>4, <1>5, <1>6, <1>7, <1>8, <1>9, <1>10, <1>11, <1>12, <1>13, <1>14, <1>15 DEF Step

LEMMA ReplyMoves ==
  ASSUME pc \in [Call -> Label], at \in [Call -> Nat], NEW c \in Call, WellPlaced(c), Arrive(c) \/ Step(c)
  PROVE  \/ pc[c] = "respond" /\ ReadField(c)
         \/ pc[c] # "respond" /\ pc'[c] # "respond" /\ (pc'[c] = "returned" => Tool[c] = "finish")
         \/ pc[c] # "respond" /\ pc'[c] = "respond" /\ at'[c] = 1
<1>1. CASE Arrive(c)
  BY <1>1, ToolOf DEF Arrive, Goto, AfterRecompute, local, ScopeEnds, WellPlaced
<1>2. CASE Acquire(c)
  BY <1>2, ToolOf DEF Acquire, Goto, AfterRecompute, local, ScopeEnds, WellPlaced
<1>3. CASE Ingest(c)
  BY <1>3, ToolOf DEF Ingest, Goto, AfterRecompute, local, ScopeEnds, WellPlaced
<1>4. CASE Collect(c)
  BY <1>4, ToolOf DEF Collect, Goto, AfterRecompute, local, ScopeEnds, WellPlaced
<1>5. CASE SamplingEnds(c)
  BY <1>5, ToolOf DEF SamplingEnds, Goto, AfterRecompute, local, ScopeEnds, WellPlaced
<1>6. CASE Rewrite(c)
  BY <1>6, ToolOf DEF Rewrite, Goto, AfterRecompute, local, ScopeEnds, WellPlaced
<1>7. CASE RecordVerdict(c)
  BY <1>7, ToolOf DEF RecordVerdict, Goto, AfterRecompute, local, ScopeEnds, WellPlaced
<1>8. CASE Publish(c)
  BY <1>8, ToolOf DEF Publish, Goto, AfterRecompute, local, ScopeEnds, WellPlaced
<1>9. CASE Report(c)
  BY <1>9, ToolOf DEF Report, Goto, AfterRecompute, local, ScopeEnds, WellPlaced
<1>10. CASE Complete(c)
  BY <1>10, ToolOf DEF Complete, Goto, AfterRecompute, local, ScopeEnds, WellPlaced
<1>11. CASE Refuse(c)
  BY <1>11, ToolOf DEF Refuse, Goto, AfterRecompute, local, ScopeEnds, WellPlaced
<1>12. CASE Release(c)
  BY <1>12, ToolOf DEF Release, Goto, AfterRecompute, local, ScopeEnds, WellPlaced
<1>13. CASE Create(c)
  BY <1>13, ToolOf DEF Create, Goto, AfterRecompute, local, ScopeEnds, WellPlaced
<1>14. CASE Lookup(c)
  BY <1>14, ToolOf DEF Lookup, Goto, AfterRecompute, local, ScopeEnds, WellPlaced
<1>15. CASE ReadField(c)
  BY <1>15 DEF ReadField
<1> QED  BY <1>1, <1>2, <1>3, <1>4, <1>5, <1>6, <1>7, <1>8, <1>9, <1>10, <1>11, <1>12, <1>13, <1>14, <1>15 DEF Step

LEMMA BatchMoves ==
  ASSUME pc \in [Call -> Label], at \in [Call -> Nat], NEW c \in Call, WellPlaced(c),
         Tool[c] = "submit", Arrive(c) \/ Step(c)
  PROVE  \/ pc[c] = "ingest" /\ Ingest(c) /\ pc'[c] \in {"ingest", "collect", "refuse"}
         \/ pc[c] # "ingest" /\ pc'[c] = "ingest" /\ at'[c] = 1
         \/ /\ pc[c] # "ingest" /\ pc'[c] # "ingest"
            /\ pc'[c] \in {"collect", "sampling", "rewrite", "publish", "release", "respond", "returned"} =>
                 pc[c] \in {"collect", "sampling", "rewrite", "publish", "release", "respond", "returned"}
            /\ pc'[c] \in {"publish", "release", "respond", "returned"} =>
                 pc[c] \in {"publish", "release", "respond", "returned"} \/ (pc[c] = "rewrite" /\ at[c] = 2)
<1>1. CASE Arrive(c)
  BY <1>1, ToolOf, WritesShape DEF Arrive, Goto, AfterRecompute, WellPlaced
<1>2. CASE Acquire(c)
  BY <1>2, ToolOf, WritesShape DEF Acquire, Goto, AfterRecompute, WellPlaced
<1>3. CASE Ingest(c)
  <2>1. pc[c] = "ingest" /\ pc'[c] \in {"ingest", "collect", "refuse"}
    BY <1>3 DEF Ingest, Goto
  <2> QED  BY <1>3, <2>1
<1>4. CASE Collect(c)
  BY <1>4, ToolOf, WritesShape DEF Collect, Goto, AfterRecompute, WellPlaced
<1>5. CASE SamplingEnds(c)
  BY <1>5, ToolOf, WritesShape DEF SamplingEnds, Goto, AfterRecompute, WellPlaced
<1>6. CASE Rewrite(c)
  BY <1>6, ToolOf, WritesShape DEF Rewrite, Goto, AfterRecompute, WellPlaced
<1>7. CASE RecordVerdict(c)
  BY <1>7, ToolOf, WritesShape DEF RecordVerdict, Goto, AfterRecompute, WellPlaced
<1>8. CASE Publish(c)
  BY <1>8, ToolOf, WritesShape DEF Publish, Goto, AfterRecompute, WellPlaced
<1>9. CASE Report(c)
  BY <1>9, ToolOf, WritesShape DEF Report, Goto, AfterRecompute, WellPlaced
<1>10. CASE Complete(c)
  BY <1>10, ToolOf, WritesShape DEF Complete, Goto, AfterRecompute, WellPlaced
<1>11. CASE Refuse(c)
  BY <1>11, ToolOf, WritesShape DEF Refuse, Goto, AfterRecompute, WellPlaced
<1>12. CASE Release(c)
  BY <1>12, ToolOf, WritesShape DEF Release, Goto, AfterRecompute, WellPlaced
<1>13. CASE Create(c)
  BY <1>13, ToolOf, WritesShape DEF Create, Goto, AfterRecompute, WellPlaced
<1>14. CASE Lookup(c)
  BY <1>14, ToolOf, WritesShape DEF Lookup, Goto, AfterRecompute, WellPlaced
<1>15. CASE ReadField(c)
  BY <1>15, ToolOf, WritesShape DEF ReadField, Goto, AfterRecompute, WellPlaced
<1> QED  BY <1>1, <1>2, <1>3, <1>4, <1>5, <1>6, <1>7, <1>8, <1>9, <1>10, <1>11, <1>12, <1>13, <1>14, <1>15 DEF Step

LEMMA ReadSoFarMoves ==
  ASSUME Kinds, NEW c \in Call, WellPlaced(c), Arrive(c) \/ Step(c)
  PROVE  \/ ReadSoFar(c)' = {}
         \/ /\ pc[c] = "respond"
            /\ \E g \in Field : /\ ReadSoFar(c)' \subseteq ReadSoFar(c) \union {g}
                                /\ reply'[c] = [reply[c] EXCEPT ![g] = derived[Target[c]][g]]
<1>1. pc \in [Call -> Label] /\ at \in [Call -> Nat] /\ at[c] \in Nat
  BY DEF Kinds
<1>2. CASE pc[c] = "respond" /\ ReadField(c)
  <2> DEFINE g == Reads(c)[at[c]]
  <2>1. g \in Field /\ at[c] \in 1 .. Len(Reads(c)) /\ Len(Reads(c)) \in Nat
    BY <1>2, ToolOf, ReadsShape
  <2>2. reply'[c] = [reply[c] EXCEPT ![g] = derived[Target[c]][g]]
    BY <1>2 DEF ReadField, Kinds
  <2>3. ReadSoFar(c) = {Reads(c)[i] : i \in 1 .. at[c] - 1}
    BY <1>2 DEF ReadSoFar
  <2>4. CASE at[c] = Len(Reads(c))
    <3>1. pc'[c] = "returned"
      BY <1>1, <1>2, <2>4 DEF ReadField, Goto
    <3>2. ReadSoFar(c)' = {Reads(c)[i] : i \in 1 .. Len(Reads(c))}
      BY <3>1 DEF ReadSoFar, ReadFields
    <3>3. ReadSoFar(c)' \subseteq ReadSoFar(c) \union {g}
      BY <3>2, <2>1, <2>3, <2>4
    <3> QED  BY <1>2, <2>1, <2>2, <3>3
  <2>5. CASE at[c] # Len(Reads(c))
    <3>1. pc'[c] = "respond" /\ at'[c] = at[c] + 1
      BY <1>1, <1>2, <2>5 DEF ReadField, Goto
    <3>2. ReadSoFar(c)' = {Reads(c)[i] : i \in 1 .. at'[c] - 1}
      BY <3>1 DEF ReadSoFar
    <3>3. ReadSoFar(c)' \subseteq ReadSoFar(c) \union {g}
      BY <3>1, <3>2, <2>1, <2>3
    <3> QED  BY <1>2, <2>1, <2>2, <3>3
  <2> QED  BY <2>4, <2>5
<1>3. CASE pc'[c] # "respond" /\ (pc'[c] = "returned" => Tool[c] = "finish")
  <2>1. Tool[c] = "finish" => ReadFields(c) = {}
    BY ReadsShape DEF ReadFields
  <2>2. ReadFields(c)' = ReadFields(c)
    BY DEF ReadFields, Reads
  <2> QED  BY <1>3, <2>1, <2>2 DEF ReadSoFar
<1>4. CASE pc'[c] = "respond" /\ at'[c] = 1
  BY <1>4 DEF ReadSoFar
<1> QED  BY <1>1, <1>2, <1>3, <1>4, ReplyMoves

LEMMA IngestedMoves ==
  ASSUME Kinds, NEW c \in Call, WellPlaced(c), Tool[c] = "submit", Arrive(c) \/ Step(c)
  PROVE  \/ Ingested(c)' \subseteq Ingested(c)
         \/ /\ pc[c] = "ingest" /\ Ingested(c)' \subseteq Ingested(c) \union {Entering(c)}
            /\ Entering(c) \in Held(Target[c])'
<1>1. pc \in [Call -> Label] /\ at \in [Call -> Nat] /\ at[c] \in Nat
  BY DEF Kinds
<1>2. CASE pc[c] = "ingest" /\ Ingest(c)
  <2>1. /\ Target[c] \in Session /\ Entering(c) \in Item
        /\ at[c] \in 1 .. Len(Batch[c]) /\ Len(Batch[c]) \in Nat
    <3>1. Batch[c] \in Seq(Item)
      BY CallAssumption
    <3> QED  BY <3>1, <1>2, ToolOf DEF Entering
  <2>2. CASE Entering(c) \in seen[c]
    <3>1. pc'[c] = "refuse"
      BY <1>1, <1>2, <2>2 DEF Ingest, Goto, Entering
    <3> QED  BY <3>1 DEF Ingested
  <2>3. CASE Entering(c) \notin seen[c]
    <3>1. /\ evidence' = [evidence EXCEPT ![Target[c]][Entering(c)] = @ + 1]
          /\ at'[c] = at[c] + 1
      BY <1>1, <1>2, <2>3 DEF Ingest, Entering
    <3>2. Entering(c) \in Held(Target[c])'
      BY <3>1, <2>1 DEF Held, Kinds
    <3>3. Ingested(c) = {Batch[c][i] : i \in 1 .. at[c] - 1}
      BY <1>2 DEF Ingested
    <3>4. CASE at[c] = Len(Batch[c])
      <4>1. pc'[c] = "collect"
        BY <1>1, <1>2, <2>3, <3>4 DEF Ingest, Goto, Entering
      <4>2. Ingested(c)' = {Batch[c][i] : i \in 1 .. Len(Batch[c])}
        BY <4>1 DEF Ingested, BatchItems
      <4> QED  BY <4>2, <3>2, <3>3, <3>4, <2>1, <1>2 DEF Entering
    <3>5. CASE at[c] # Len(Batch[c])
      <4>1. pc'[c] = "ingest"
        BY <1>1, <1>2, <2>3, <3>5 DEF Ingest, Goto, Entering
      <4>2. Ingested(c)' = {Batch[c][i] : i \in 1 .. at'[c] - 1}
        BY <4>1 DEF Ingested
      <4> QED  BY <4>2, <3>1, <3>2, <3>3, <2>1, <1>2 DEF Entering
    <3> QED  BY <3>4, <3>5
  <2> QED  BY <2>2, <2>3
<1>3. CASE pc'[c] = "ingest" /\ at'[c] = 1
  BY <1>3 DEF Ingested
<1>4. CASE /\ pc[c] # "ingest" /\ pc'[c] # "ingest"
           /\ pc'[c] \in {"collect", "sampling", "rewrite", "publish", "release", "respond", "returned"} =>
                pc[c] \in {"collect", "sampling", "rewrite", "publish", "release", "respond", "returned"}
  BY <1>4 DEF Ingested, BatchItems
<1> QED  BY <1>1, <1>2, <1>3, <1>4, BatchMoves

LEMMA ExpectationsNext ==
  ASSUME Kinds, OnPath, BasisHeld, HalvesAgree, Expectations,
         NEW c \in Call, Arrive(c) \/ Step(c)
  PROVE  Expectations'
<1>1. WellPlaced(c) /\ Target[c] \in Session
  BY CallAssumption DEF OnPath
<1>2. /\ pc \in [Call -> Label] /\ at \in [Call -> Nat] /\ seen \in [Call -> SUBSET Item]
      /\ floor \in [Call -> [Field -> SUBSET Item]] /\ reply[c] \in [Field -> SUBSET Item]
  BY DEF Kinds
<1>3. \A s \in Session, f \in Field : derived[s][f] \subseteq derived'[s][f]
  BY <1>1, DerivedWrites DEF HalvesAgree
<1>4. \A s \in Session : Held(s) \subseteq Held(s)'
  BY <1>1, HeldGrows
<1>5. \A d \in Call \ {c} :
        /\ pc'[d] = pc[d] /\ reply'[d] = reply[d] /\ floor'[d] = floor[d]
        /\ ReadSoFar(d)' = ReadSoFar(d) /\ Ingested(d)' = Ingested(d)
  BY OthersStay DEF ReadSoFar, Ingested, ReadFields, BatchItems, Reads
<1>6. \A d \in Call : Target[d] \in Session
  BY CallAssumption
<1>7. ASSUME NEW d \in Call, pc'[d] # "idle", NEW f \in Field
      PROVE  floor'[d][f] \subseteq derived'[Target[d]][f]
  <2>1. CASE d # c
    BY <2>1, <1>3, <1>5, <1>6, <1>7 DEF Expectations
  <2>2. CASE d = c /\ pc[c] = "idle"
    BY <2>2, <1>2, FloorMoves
  <2>3. CASE d = c /\ pc[c] # "idle"
    BY <2>3, <1>1, <1>2, <1>3, FloorMoves DEF Expectations
  <2> QED  BY <2>1, <2>2, <2>3
<1>8. ASSUME NEW f \in Field, f \in ReadSoFar(c)'
      PROVE  \/ f \in ReadSoFar(c) /\ reply'[c][f] = reply[c][f]
             \/ reply'[c][f] = derived[Target[c]][f]
  <2>1. PICK g \in Field : /\ ReadSoFar(c)' \subseteq ReadSoFar(c) \union {g}
                           /\ reply'[c] = [reply[c] EXCEPT ![g] = derived[Target[c]][g]]
    BY <1>1, <1>8, ReadSoFarMoves
  <2> QED  BY <2>1, <1>2, <1>8
<1>9. ASSUME NEW f \in Field, f \in ReadSoFar(c)'
      PROVE  pc[c] = "respond" /\ floor'[c] = floor[c]
  BY <1>1, <1>2, <1>9, ReadSoFarMoves, FloorMoves
<1>10. ASSUME NEW d \in Call, NEW f \in Field, f \in ReadSoFar(d)'
       PROVE  floor'[d][f] \subseteq reply'[d][f]
  <2>1. CASE d # c
    BY <2>1, <1>5, <1>10 DEF Expectations
  <2>2. CASE d = c
    <3>1. pc[c] = "respond" /\ floor'[c] = floor[c]
      BY <2>2, <1>9, <1>10
    <3>2. floor[c][f] \subseteq derived[Target[c]][f]
      BY <3>1 DEF Expectations
    <3> QED  BY <3>1, <3>2, <2>2, <1>8, <1>10 DEF Expectations
  <2> QED  BY <2>1, <2>2
<1>11. ASSUME NEW d \in Call, Tool[d] = "submit"
       PROVE  Ingested(d)' \subseteq Held(Target[d])'
  <2>1. Ingested(d) \subseteq Held(Target[d])'
    BY <1>4, <1>6, <1>11 DEF Expectations
  <2>2. CASE d # c
    BY <2>1, <2>2, <1>5
  <2>3. CASE d = c
    BY <2>1, <2>3, <1>1, <1>11, IngestedMoves
  <2> QED  BY <2>2, <2>3
<1>12. ASSUME NEW d \in Call, NEW f \in Field, Tool[d] = "submit",
              pc'[d] \in {"publish", "release", "respond", "returned"}
       PROVE  BatchItems(d) \subseteq derived'[Target[d]][f]
  <2>1. CASE pc[d] \in {"publish", "release", "respond", "returned"}
    BY <2>1, <1>3, <1>6, <1>12 DEF Expectations
  <2>2. CASE pc[d] \notin {"publish", "release", "respond", "returned"}
    <3>1. d = c
      BY <2>2, <1>5, <1>12
    <3>2. pc[c] = "rewrite" /\ at[c] = 2
      BY <3>1, <2>2, <1>1, <1>2, <1>12, BatchMoves
    <3>3. derived'[Target[c]][f] = Held(Target[c])
      <4>1. CASE f = "assessed"
        BY <4>1, <3>2, <1>1, DerivedWrites, WritesShape
      <4>2. CASE f = "reasoned"
        BY <4>2, <3>2, <1>1, DerivedWrites DEF HalvesAgree, HalfWritten
      <4> QED  BY <4>1, <4>2, WritesShape
    <3>4. BatchItems(c) \subseteq Held(Target[c])
      BY <3>1, <3>2, <1>12 DEF Expectations, Ingested
    <3> QED  BY <3>1, <3>3, <3>4
  <2> QED  BY <2>1, <2>2
<1>13. ASSUME NEW d \in Call, NEW f \in Field, Tool[d] = "submit", f \in ReadSoFar(d)'
       PROVE  BatchItems(d) \subseteq reply'[d][f]
  <2>1. CASE d # c
    BY <2>1, <1>5, <1>13 DEF Expectations
  <2>2. CASE d = c
    <3>1. pc[c] = "respond"
      BY <2>2, <1>9, <1>13
    <3>2. BatchItems(c) \subseteq derived[Target[c]][f]
      BY <3>1, <2>2, <1>13 DEF Expectations
    <3> QED  BY <3>2, <2>2, <1>8, <1>13 DEF Expectations
  <2> QED  BY <2>1, <2>2
<1>14. \A d \in Call : BatchItems(d)' = BatchItems(d)
  BY DEF BatchItems
<1> QED  BY <1>7, <1>10, <1>11, <1>12, <1>13, <1>14 DEF Expectations

-----------------------------------------------------------------------------
(* Reports and the archive.                                                *)
LEMMA ReportMoves ==
  ASSUME pc \in [Call -> Label], reply \in [Call -> [Field -> SUBSET Item]],
         NEW c \in Call, WellPlaced(c), Arrive(c) \/ Step(c)
  PROVE  /\ pc'[c] = "complete" => pc[c] = "report"
         /\ Tool[c] = "finish" /\ pc'[c] \in {"release", "returned"} =>
              pc[c] \in {"report", "complete", "release"}
         /\ pc[c] = "report" => reply'[c] = derived[Target[c]]
         /\ Tool[c] = "finish" /\ pc[c] \in {"complete", "release"} =>
              reply'[c] = reply[c] /\ pc'[c] \in {"release", "returned"}
         /\ \/ archive' = archive
            \/ /\ pc[c] = "complete" /\ Tool[c] = "finish"
               /\ archive' = [archive EXCEPT ![Target[c]] = @ \union {Held(Target[c])}]
<1>1. CASE Arrive(c)
  BY <1>1, ToolOf DEF Arrive, Goto, store, local, AfterRecompute, ScopeEnds, WellPlaced
<1>2. CASE Acquire(c)
  BY <1>2, ToolOf DEF Acquire, Goto, store, local, AfterRecompute, ScopeEnds, WellPlaced
<1>3. CASE Ingest(c)
  BY <1>3, ToolOf DEF Ingest, Goto, store, local, AfterRecompute, ScopeEnds, WellPlaced
<1>4. CASE Collect(c)
  BY <1>4, ToolOf DEF Collect, Goto, store, local, AfterRecompute, ScopeEnds, WellPlaced
<1>5. CASE SamplingEnds(c)
  BY <1>5, ToolOf DEF SamplingEnds, Goto, store, local, AfterRecompute, ScopeEnds, WellPlaced
<1>6. CASE Rewrite(c)
  BY <1>6, ToolOf DEF Rewrite, Goto, store, local, AfterRecompute, ScopeEnds, WellPlaced
<1>7. CASE RecordVerdict(c)
  BY <1>7, ToolOf DEF RecordVerdict, Goto, store, local, AfterRecompute, ScopeEnds, WellPlaced
<1>8. CASE Publish(c)
  BY <1>8, ToolOf DEF Publish, Goto, store, local, AfterRecompute, ScopeEnds, WellPlaced
<1>9. CASE Report(c)
  BY <1>9, ToolOf DEF Report, Goto, store, local, AfterRecompute, ScopeEnds, WellPlaced
<1>10. CASE Complete(c)
  BY <1>10, ToolOf DEF Complete, Goto, store, local, AfterRecompute, ScopeEnds, WellPlaced
<1>11. CASE Refuse(c)
  BY <1>11, ToolOf DEF Refuse, Goto, store, local, AfterRecompute, ScopeEnds, WellPlaced
<1>12. CASE Release(c)
  BY <1>12, ToolOf DEF Release, Goto, store, local, AfterRecompute, ScopeEnds, WellPlaced
<1>13. CASE Create(c)
  BY <1>13, ToolOf DEF Create, Goto, store, local, AfterRecompute, ScopeEnds, WellPlaced
<1>14. CASE Lookup(c)
  BY <1>14, ToolOf DEF Lookup, Goto, store, local, AfterRecompute, ScopeEnds, WellPlaced
<1>15. CASE ReadField(c)
  BY <1>15, ToolOf DEF ReadField, Goto, store, local, AfterRecompute, ScopeEnds, WellPlaced
<1> QED  BY <1>1, <1>2, <1>3, <1>4, <1>5, <1>6, <1>7, <1>8, <1>9, <1>10, <1>11, <1>12, <1>13, <1>14, <1>15 DEF Step

LEMMA ReportsNext ==
  ASSUME Kinds, OnPath, OneInside, StartsFirst, HalvesAgree, Reports,
         NEW c \in Call, Arrive(c) \/ Step(c)
  PROVE  Reports'
<1>1. /\ WellPlaced(c) /\ Target[c] \in Session
      /\ pc \in [Call -> Label] /\ reply \in [Call -> [Field -> SUBSET Item]]
      /\ archive \in [Session -> SUBSET SUBSET Item]
  BY CallAssumption DEF OnPath, Kinds
<1>2. \A d \in Call \ {c} : pc'[d] = pc[d] /\ reply'[d] = reply[d]
  BY OthersStay
<1>3. pc[c] \notin {"returned", "refused"}
  BY <1>1, StepsAreTaken
<1>4. pc[c] = "report" => Tool[c] = "finish"
  BY <1>1, ToolOf
<1>5. ASSUME NEW d \in Call, Tool[d] = "finish", pc'[d] \in {"complete", "release", "returned"}
      PROVE  reply'[d]["reasoned"] = reply'[d]["assessed"]
  <2>1. CASE d # c
    BY <2>1, <1>2, <1>5 DEF Reports
  <2>2. CASE d = c /\ pc[c] = "report"
    <3>1. \A f \in Field : derived[Target[c]][f] = Held(Target[c])
      BY <2>2 DEF HalvesAgree
    <3>2. reply'[c] = derived[Target[c]]
      BY <2>2, <1>1, ReportMoves
    <3> QED  BY <3>1, <3>2, <2>2 DEF Field
  <2>3. CASE d = c /\ pc[c] # "report"
    <3>1. pc[c] \in {"complete", "release"}
      BY <2>3, <1>1, <1>5, ReportMoves
    <3>2. reply'[c] = reply[c]
      BY <3>1, <2>3, <1>1, <1>5, ReportMoves
    <3> QED  BY <3>1, <3>2, <2>3, <1>5 DEF Reports
  <2> QED  BY <2>1, <2>2, <2>3
<1>6. ASSUME NEW d \in Call, pc'[d] = "complete"
      PROVE  reply'[d]["reasoned"] = Held(Target[d])'
  <2>1. Target[d] \in Session
    BY CallAssumption
  <2>2. CASE d # c
    <3>1. pc[d] = "complete" /\ reply'[d] = reply[d]
      BY <2>2, <1>2, <1>6
    <3>2. ~(pc[c] = "ingest" /\ Target[c] = Target[d])
      BY <3>1, <2>2, Alone DEF Working
    <3>3. Held(Target[d])' = Held(Target[d])
      BY <3>2, <2>1, <1>1, HeldGrows
    <3> QED  BY <3>1, <3>3 DEF Reports
  <2>3. CASE d = c
    <3>1. pc[c] = "report" /\ reply'[c] = derived[Target[c]]
      BY <2>3, <1>1, <1>6, ReportMoves
    <3>2. derived[Target[c]]["reasoned"] = Held(Target[c])
      BY <3>1 DEF HalvesAgree, Field
    <3>3. Held(Target[c])' = Held(Target[c])
      BY <3>1, <1>1, HeldGrows
    <3> QED  BY <3>1, <3>2, <3>3, <2>3
  <2> QED  BY <2>2, <2>3
<1>7. ASSUME NEW d \in Call, Tool[d] = "finish", Ended(d)', NEW f \in Field, NEW g \in Field
      PROVE  reply'[d][f] = reply'[d][g]
  <2>1. CASE pc'[d] = "returned"
    BY <2>1, <1>5, <1>7 DEF Field
  <2>2. CASE pc'[d] = "refused"
    <3>1. OnPath'
      BY PathNext
    <3> QED  BY <3>1, <2>2, <1>7 DEF OnPath, WellPlaced
  <2> QED  BY <2>1, <2>2, <1>7 DEF Ended
<1>8. ASSUME NEW d \in Call, NEW E, Tool[d] = "finish", pc[d] \in {"release", "returned"},
             reply[d]["reasoned"] = E
      PROVE  pc'[d] \in {"release", "returned"} /\ reply'[d]["reasoned"] = E
  <2>1. CASE d # c
    BY <2>1, <1>2, <1>8
  <2>2. CASE d = c
    BY <2>2, <1>1, <1>3, <1>8, ReportMoves
  <2> QED  BY <2>1, <2>2
<1>9. ASSUME NEW t \in Session, NEW E \in archive'[t]
      PROVE  \E d \in Call : /\ Tool[d] = "finish" /\ Target[d] = t
                             /\ pc'[d] \in {"release", "returned"}
                             /\ reply'[d]["reasoned"] = E
  <2>1. CASE E \in archive[t]
    <3>1. PICK d \in Call : /\ Tool[d] = "finish" /\ Target[d] = t
                            /\ pc[d] \in {"release", "returned"}
                            /\ reply[d]["reasoned"] = E
      BY <2>1 DEF Reports, ReportMatchesArchive
    <3>2. pc'[d] \in {"release", "returned"} /\ reply'[d]["reasoned"] = E
      BY <3>1, <1>8
    <3> QED  BY <3>1, <3>2
  <2>2. CASE E \notin archive[t]
    <3>1. /\ pc[c] = "complete" /\ Tool[c] = "finish" /\ t = Target[c]
          /\ E = Held(Target[c])
      BY <2>2, <1>1, <1>9, ReportMoves
    <3>2. pc'[c] \in {"release", "returned"} /\ reply'[c] = reply[c]
      BY <3>1, <1>1, ReportMoves
    <3>3. reply[c]["reasoned"] = E
      BY <3>1 DEF Reports
    <3> QED  BY <3>1, <3>2, <3>3
  <2> QED  BY <2>1, <2>2
<1>10. ReportMatchesArchive'
  BY <1>7, <1>9 DEF ReportMatchesArchive
<1> QED  BY <1>5, <1>6, <1>10 DEF Reports

-----------------------------------------------------------------------------
(* The invariant is inductive.                                             *)
LEMMA InvInit == Init => IInv
<1> SUFFICES ASSUME Init PROVE IInv
  OBVIOUS
<1>1. \A s \in Session, i \in Item : evidence[s][i] = 0
  BY DEF Init
<1>2. \A s \in Session : Held(s) = {} /\ events[s] = << >> /\ archive[s] = {}
  BY <1>1 DEF Init, Held
<1>3. \A c \in Call : pc[c] = "idle" /\ at[c] = 1
  BY DEF Init
<1>4. Kinds
  <2>1. pc \in [Call -> Label] /\ holder \in Call \union {NoCall} /\ at \in [Call -> Nat]
    BY DEF Init, Label
  <2>2. /\ opened \subseteq Session
        /\ evidence \in [Session -> [Item -> Nat]]
        /\ derived \in [Session -> [Field -> SUBSET Item]]
        /\ completed \in [Session -> BOOLEAN]
    BY DEF Init
  <2>3. verdicts \in [Session -> Seq(Call)] /\ events \in [Session -> Seq(Event)]
    BY DEF Init
  <2>4. /\ archive \in [Session -> SUBSET SUBSET Item]
        /\ seen \in [Call -> SUBSET Item] /\ basis \in [Call -> SUBSET Item]
    BY DEF Init
  <2>5. /\ reply \in [Call -> [Field -> SUBSET Item]]
        /\ floor \in [Call -> [Field -> SUBSET Item]]
    BY DEF Init
  <2> QED  BY <2>1, <2>2, <2>3, <2>4, <2>5 DEF Kinds
<1>5. OnPath
  BY <1>3, CallAssumption DEF OnPath, WellPlaced, ToolName
<1>6. OneInside
  BY <1>3, CallAssumption DEF OneInside, Inside, Locked, Init
<1>7. StartsFirst
  BY <1>3 DEF StartsFirst, Unborn, Init
<1>8. BornEmpty
  BY <1>2, CallAssumption DEF BornEmpty, Init
<1>9. BasisHeld /\ SeenHeld
  BY <1>3 DEF BasisHeld, SeenHeld
<1>10. HalvesAgree
  <2>1. \A s \in Session, f \in Field : derived[s][f] = {}
    BY DEF Init
  <2>2. \A s \in Session : derived[s]["reasoned"] = derived[s]["assessed"]
    BY <2>1 DEF Field
  <2> QED  BY <1>3, <2>1, <2>2 DEF HalvesAgree, HalfWritten
<1>11. NoItemTwice
  BY <1>1 DEF NoItemTwice
<1>12. Announcements
  <2>1. \A s \in Session : Len(events[s]) = 0
    BY <1>2
  <2>2. \A s \in Session : ~Announced(s)
    BY <2>1 DEF Announced
  <2>3. CompletionAnnouncedLast
    BY <2>1 DEF CompletionAnnouncedLast
  <2> QED  BY <2>2, <2>3, <1>3, CallAssumption DEF Announcements, MayAnnounce
<1>13. Expectations
  <2>1. \A c \in Call : ReadSoFar(c) = {} /\ Ingested(c) = {}
    BY <1>3 DEF ReadSoFar, Ingested
  <2> QED  BY <2>1, <1>3 DEF Expectations
<1>14. Reports
  BY <1>2, <1>3 DEF Reports, ReportMatchesArchive, Ended
<1> QED  BY <1>4, <1>5, <1>6, <1>7, <1>8, <1>9, <1>10, <1>11, <1>12, <1>13, <1>14 DEF IInv

LEMMA InvStep ==
  ASSUME IInv, NEW c \in Call, Arrive(c) \/ Step(c)
  PROVE  IInv'
<1>1. /\ Kinds /\ OnPath /\ OneInside /\ StartsFirst /\ BornEmpty /\ BasisHeld
      /\ HalvesAgree /\ SeenHeld /\ NoItemTwice /\ Announcements /\ Expectations /\ Reports
  BY DEF IInv
<1>2. Kinds'
  BY <1>1, KindsNext DEF OnPath
<1>3. OnPath' /\ OneInside' /\ StartsFirst'
  BY <1>1, PathNext, InsideNext, StartsFirstNext
<1>4. BornEmpty' /\ BasisHeld' /\ SeenHeld'
  BY <1>1, BornEmptyNext, BasisNext, SeenNext
<1>5. HalvesAgree' /\ NoItemTwice'
  BY <1>1, HalvesNext, OnceNext
<1>6. Announcements' /\ Expectations' /\ Reports'
  BY <1>1, AnnouncementsNext, ExpectationsNext, ReportsNext
<1> QED  BY <1>2, <1>3, <1>4, <1>5, <1>6 DEF IInv

LEMMA InvIdle == ASSUME IInv, UNCHANGED vars PROVE IInv'
<1> USE DEF vars, store, local
<1>1. \A s : (Held(s)' = Held(s)) /\ (Announced(s)' <=> Announced(s))
  BY DEF Held, Announced
<1>2. \A c : /\ Inside(c)' <=> Inside(c)
             /\ Unborn(c)' <=> Unborn(c)
             /\ HalfWritten(c)' <=> HalfWritten(c)
             /\ MayAnnounce(c)' <=> MayAnnounce(c)
  BY DEF Inside, Unborn, HalfWritten, MayAnnounce
<1>3. \A c : (ReadSoFar(c)' = ReadSoFar(c)) /\ (Ingested(c)' = Ingested(c))
  BY DEF ReadSoFar, Ingested, ReadFields, Reads, BatchItems
<1>4. Kinds' /\ OnPath' /\ OneInside'
  BY <1>2 DEF IInv, Kinds, OnPath, WellPlaced, OneInside, Reads
<1>5. StartsFirst' /\ BornEmpty' /\ BasisHeld' /\ SeenHeld' /\ NoItemTwice'
  BY <1>1, <1>2 DEF IInv, StartsFirst, BornEmpty, BasisHeld, SeenHeld, NoItemTwice
<1>6. HalvesAgree'
  BY <1>1, <1>2 DEF IInv, HalvesAgree
<1>7. Announcements'
  BY <1>1, <1>2 DEF IInv, Announcements, CompletionAnnouncedLast
<1>8. Expectations'
  BY <1>1, <1>3 DEF IInv, Expectations, BatchItems
<1>9. Reports'
  BY <1>1 DEF IInv, Reports, ReportMatchesArchive, Ended
<1> QED  BY <1>4, <1>5, <1>6, <1>7, <1>8, <1>9 DEF IInv

LEMMA InvNext == IInv /\ [Next]_vars => IInv'
BY InvStep, InvIdle DEF Next

LEMMA InvAlways == Spec => []IInv
BY InvInit, InvNext, PTL DEF Spec

-----------------------------------------------------------------------------
(* No tool call leaves a variable out of its kind, indexes past the end of *)
(* the list it works through, or reaches a step of another tool.           *)
THEOREM TypesKept == Spec => []TypeOK
<1>1. IInv => TypeOK
  BY TypeHalves DEF IInv
<1> QED  BY <1>1, InvAlways, PTL

(* WithSession excludes: nobody is inside but the holder of the mutex, with *)
(* any number of clients and sessions and however long a host takes.       *)
THEOREM Exclusion == Spec => []OneInside
<1>1. IInv => OneInside
  BY DEF IInv
<1> QED  BY <1>1, InvAlways, PTL

(* Between two calls the parts of every session fit together: recompute    *)
(* leaves nothing half rewritten.                                          *)
THEOREM WholeBetweenCalls == Spec => []WholeWhenFree
<1>1. ASSUME IInv, NEW t \in opened, Free, NEW f \in Field, NEW g \in Field
      PROVE  derived[t][f] = derived[t][g] /\ derived[t][f] \subseteq Held(t)
  <2>1. t \in Session
    BY <1>1 DEF IInv, Kinds
  <2>2. \A c \in Call : ~Inside(c)
    BY <1>1, CallAssumption DEF IInv, OneInside, Free
  <2>3. derived[t]["reasoned"] = derived[t]["assessed"]
    BY <2>1, <2>2, <1>1 DEF IInv, HalvesAgree
  <2>4. derived[t][f] \subseteq Held(t)
    BY <2>1, <1>1 DEF IInv, HalvesAgree
  <2> QED  BY <2>3, <2>4, <1>1 DEF Field
<1>2. IInv => WholeWhenFree
  BY <1>1 DEF WholeWhenFree
<1> QED  BY <1>2, InvAlways, PTL

(* A submission that is sent again, while the first still runs or later,   *)
(* adds no item a second time.                                             *)
THEOREM ItemsOnce == Spec => []NoItemTwice
<1>1. IInv => NoItemTwice
  BY DEF IInv
<1> QED  BY <1>1, InvAlways, PTL

(* Responses are never older than the call, and a submission's response    *)
(* rests on all it submitted, although it is read after the unlock.        *)
THEOREM FreshReplies == Spec => []RepliesFresh
<1>1. ASSUME IInv, NEW c \in Call, pc[c] = "returned", NEW f \in ReadFields(c)
      PROVE  /\ floor[c][f] \subseteq reply[c][f]
             /\ Tool[c] = "submit" => BatchItems(c) \subseteq reply[c][f]
  <2>1. f \in ReadSoFar(c)
    BY <1>1 DEF ReadSoFar
  <2>2. f \in Field
    BY <1>1, ReadsShape DEF ReadFields
  <2> QED  BY <2>1, <2>2, <1>1 DEF IInv, Expectations
<1>2. IInv => RepliesFresh
  BY <1>1 DEF RepliesFresh
<1> QED  BY <1>2, InvAlways, PTL

(* Finish archives exactly what a report was derived from.                 *)
THEOREM ArchiveOfReports == Spec => []ReportMatchesArchive
<1>1. IInv => ReportMatchesArchive
  BY DEF IInv, Reports
<1> QED  BY <1>1, InvAlways, PTL

(* Nothing is announced on an investigation after its completion.          *)
THEOREM CompletionLast == Spec => []CompletionAnnouncedLast
<1>1. IInv => CompletionAnnouncedLast
  BY DEF IInv, Announcements
<1> QED  BY <1>1, InvAlways, PTL

-----------------------------------------------------------------------------
(* The tool calls implement the case file: each session, with any number   *)
(* of calls on it under way, changes as if the calls came one by one.      *)

(* What a call may rely on that has passed the check of the completion.    *)
OpenWork ==
  \A c \in Call : pc[c] \in {"ingest", "verdict"} => ~completed[Target[c]]

(* Only a completed session is in the archive.                             *)
ArchivedClosed == \A s \in Session : archive[s] = {} \/ completed[s]

CaseInv == IInv /\ OpenWork /\ ArchivedClosed

-----------------------------------------------------------------------------
(* The steps a client could notice in the case file.                       *)
LEMMA CaseSteps ==
  ASSUME NEW c \in Call, Arrive(c) \/ Step(c)
  PROVE  \/ Ingest(c) \/ Rewrite(c) \/ RecordVerdict(c) \/ Complete(c) \/ Create(c)
         \/ UNCHANGED <<opened, evidence, completed, verdicts, archive>>
<1>1. CASE Arrive(c)
  BY <1>1 DEF Arrive, store
<1>2. CASE Acquire(c)
  BY <1>2 DEF Acquire, store
<1>3. CASE Ingest(c)
  BY <1>3 DEF Ingest, store
<1>4. CASE Collect(c)
  BY <1>4 DEF Collect, store
<1>5. CASE SamplingEnds(c)
  BY <1>5 DEF SamplingEnds, store
<1>6. CASE Rewrite(c)
  BY <1>6 DEF Rewrite, store
<1>7. CASE RecordVerdict(c)
  BY <1>7 DEF RecordVerdict, store
<1>8. CASE Publish(c)
  BY <1>8 DEF Publish, store
<1>9. CASE Report(c)
  BY <1>9 DEF Report, store
<1>10. CASE Complete(c)
  BY <1>10 DEF Complete, store
<1>11. CASE Refuse(c)
  BY <1>11 DEF Refuse, store
<1>12. CASE Release(c)
  BY <1>12 DEF Release, store
<1>13. CASE Create(c)
  BY <1>13 DEF Create, store
<1>14. CASE Lookup(c)
  BY <1>14 DEF Lookup, store
<1>15. CASE ReadField(c)
  BY <1>15 DEF ReadField, store
<1> QED  BY <1>1, <1>2, <1>3, <1>4, <1>5, <1>6, <1>7, <1>8, <1>9, <1>10, <1>11, <1>12, <1>13, <1>14, <1>15 DEF Step

(* Work on an open session begins under the check, and goes on.            *)
LEMMA WorkBegins ==
  ASSUME pc \in [Call -> Label], NEW c \in Call, WellPlaced(c), Arrive(c) \/ Step(c),
         pc'[c] \in {"ingest", "verdict"}
  PROVE  completed' = completed /\ (pc[c] = "ingest" \/ ~completed[Target[c]])
<1>1. CASE Arrive(c)
  BY <1>1, ToolOf DEF Arrive, Goto, store, AfterRecompute, WellPlaced
<1>2. CASE Acquire(c)
  BY <1>2, ToolOf DEF Acquire, Goto, store, AfterRecompute, WellPlaced
<1>3. CASE Ingest(c)
  BY <1>3, ToolOf DEF Ingest, Goto, store, AfterRecompute, WellPlaced
<1>4. CASE Collect(c)
  BY <1>4, ToolOf DEF Collect, Goto, store, AfterRecompute, WellPlaced
<1>5. CASE SamplingEnds(c)
  BY <1>5, ToolOf DEF SamplingEnds, Goto, store, AfterRecompute, WellPlaced
<1>6. CASE Rewrite(c)
  BY <1>6, ToolOf DEF Rewrite, Goto, store, AfterRecompute, WellPlaced
<1>7. CASE RecordVerdict(c)
  BY <1>7, ToolOf DEF RecordVerdict, Goto, store, AfterRecompute, WellPlaced
<1>8. CASE Publish(c)
  BY <1>8, ToolOf DEF Publish, Goto, store, AfterRecompute, WellPlaced
<1>9. CASE Report(c)
  BY <1>9, ToolOf DEF Report, Goto, store, AfterRecompute, WellPlaced
<1>10. CASE Complete(c)
  BY <1>10, ToolOf DEF Complete, Goto, store, AfterRecompute, WellPlaced
<1>11. CASE Refuse(c)
  BY <1>11, ToolOf DEF Refuse, Goto, store, AfterRecompute, WellPlaced
<1>12. CASE Release(c)
  BY <1>12, ToolOf DEF Release, Goto, store, AfterRecompute, WellPlaced
<1>13. CASE Create(c)
  BY <1>13, ToolOf DEF Create, Goto, store, AfterRecompute, WellPlaced
<1>14. CASE Lookup(c)
  BY <1>14, ToolOf DEF Lookup, Goto, store, AfterRecompute, WellPlaced
<1>15. CASE ReadField(c)
  BY <1>15, ToolOf DEF ReadField, Goto, store, AfterRecompute, WellPlaced
<1> QED  BY <1>1, <1>2, <1>3, <1>4, <1>5, <1>6, <1>7, <1>8, <1>9, <1>10, <1>11, <1>12, <1>13, <1>14, <1>15 DEF Step

(* While one call works on an open session, no other completes it.         *)
LEMMA NoneCompletes ==
  ASSUME Kinds, OnPath, OneInside, StartsFirst, NEW c \in Call, NEW d \in Call, c # d,
         Arrive(c) \/ Step(c), pc[d] \in {"ingest", "verdict"}
  PROVE  completed'[Target[d]] = completed[Target[d]]
<1>1. WellPlaced(c) /\ WellPlaced(d) /\ Target[c] \in Session /\ Target[d] \in Session
  BY CallAssumption DEF OnPath
<1>2. holder = d /\ Tool[d] \in {"submit", "resolve"} /\ Target[d] \in opened
  BY <1>1, ToolOf DEF OneInside, Inside, Locked, StartsFirst
<1>3. ~Inside(c)
  BY <1>2 DEF OneInside
<1>4. CASE completed' = completed
  BY <1>4
<1>5. CASE /\ completed' = [completed EXCEPT ![Target[c]] = TRUE]
           /\ pc[c] \in {"complete", "rewrite"}
  <2>1. Tool[c] = "start" /\ pc[c] = "rewrite"
    BY <1>3, <1>5 DEF Inside, Locked
  <2>2. Target[c] \notin opened
    BY <2>1 DEF StartsFirst, Unborn
  <2> QED  BY <1>1, <1>2, <1>5, <2>2 DEF Kinds
<1> QED  BY <1>4, <1>5, CompletedMoves DEF Kinds

LEMMA OpenWorkNext ==
  ASSUME Kinds, OnPath, OneInside, StartsFirst, OpenWork, NEW c \in Call, Arrive(c) \/ Step(c)
  PROVE  OpenWork'
<1>1. ASSUME NEW d \in Call, pc'[d] \in {"ingest", "verdict"}
      PROVE  ~completed'[Target[d]]
  <2>1. CASE d = c
    <3>1. completed' = completed /\ (pc[c] = "ingest" \/ ~completed[Target[c]])
      BY <1>1, <2>1, WorkBegins DEF Kinds, OnPath
    <3> QED  BY <2>1, <3>1 DEF OpenWork
  <2>2. CASE d # c
    <3>1. pc'[d] = pc[d]
      BY <2>2, OthersStay
    <3> QED  BY <1>1, <2>2, <3>1, NoneCompletes DEF OpenWork
  <2> QED  BY <2>1, <2>2
<1> QED  BY <1>1 DEF OpenWork

LEMMA ArchivedClosedNext ==
  ASSUME Kinds, OnPath, ArchivedClosed, NEW c \in Call, Arrive(c) \/ Step(c)
  PROVE  ArchivedClosed'
<1>1. Target[c] \in Session /\ WellPlaced(c)
  BY CallAssumption DEF OnPath
<1>2. \A s \in Session : completed[s] => completed'[s]
  BY <1>1, CompletedMoves DEF Kinds
<1>3. CASE archive' = archive
  BY <1>2, <1>3 DEF ArchivedClosed
<1>4. CASE Complete(c)
  <2>1. completed'[Target[c]]
    BY <1>1, <1>4 DEF Complete, Kinds
  <2>2. \A s \in Session \ {Target[c]} : archive'[s] = archive[s]
    BY <1>4 DEF Complete, Kinds
  <2> QED  BY <1>2, <2>1, <2>2 DEF ArchivedClosed
<1>5. archive' = archive \/ Complete(c)
  BY CaseSteps DEF Ingest, Rewrite, RecordVerdict, Create
<1> QED  BY <1>3, <1>4, <1>5

LEMMA CaseInvInit == Init => CaseInv
<1> SUFFICES ASSUME Init PROVE CaseInv
  OBVIOUS
<1>1. OpenWork /\ ArchivedClosed
  BY DEF Init, OpenWork, ArchivedClosed
<1> QED  BY <1>1, InvInit DEF CaseInv

LEMMA CaseInvNext == CaseInv /\ [Next]_vars => CaseInv'
<1> SUFFICES ASSUME CaseInv, [Next]_vars PROVE CaseInv'
  OBVIOUS
<1>1. IInv'
  BY InvNext DEF CaseInv
<1>2. ASSUME NEW c \in Call, Arrive(c) \/ Step(c)
      PROVE  OpenWork' /\ ArchivedClosed'
  BY <1>2, OpenWorkNext, ArchivedClosedNext DEF CaseInv, IInv
<1>3. ASSUME UNCHANGED vars
      PROVE  OpenWork' /\ ArchivedClosed'
  BY <1>3 DEF CaseInv, OpenWork, ArchivedClosed, vars, store
<1>4. OpenWork' /\ ArchivedClosed'
  BY <1>2, <1>3 DEF Next
<1> QED  BY <1>1, <1>4 DEF CaseInv

-----------------------------------------------------------------------------
(* One step of a call is a step of each session's case file, or none.      *)
LEMMA Unnoticed ==
  ASSUME NEW s \in Session, opened' = opened, Held(s)' = Held(s), completed'[s] = completed[s],
         verdicts'[s] = verdicts[s], archive'[s] = archive[s]
  PROVE  UNCHANGED Case(s)!caseVars
<1>1. Phase(s)' = Phase(s)
  BY DEF Phase
<1> QED  BY <1>1 DEF Case!caseVars

LEMMA IngestNoted ==
  ASSUME CaseInv, NEW c \in Call, Ingest(c), NEW s \in Session
  PROVE  [Case(s)!CaseNext]_(Case(s)!caseVars)
<1>1. /\ opened' = opened /\ completed' = completed /\ verdicts' = verdicts
      /\ archive' = archive /\ pc[c] = "ingest"
  BY DEF Ingest
<1>2. Kinds /\ WellPlaced(c) /\ StartsFirst
  BY DEF CaseInv, IInv, OnPath
<1>3. Arrive(c) \/ Step(c)
  BY DEF Step
<1>4. CASE Held(s)' = Held(s)
  BY <1>1, <1>4, Unnoticed
<1>5. CASE s = Target[c] /\ Held(s) \subseteq Held(s)'
  <2>1. Phase(s) = "open" /\ Phase(s)' = "open"
    BY <1>1, <1>2, <1>5, ToolOf DEF Phase, CaseInv, OpenWork, StartsFirst
  <2>2. Held(s)' \subseteq Item
    BY DEF Held
  <2>3. Case(s)!FirstVerdicts
    BY <1>1 DEF Case!FirstVerdicts
  <2>4. Case(s)!AddItems
    BY <1>1, <1>5, <2>1, <2>2, <2>3 DEF Case!AddItems
  <2> QED  BY <2>4 DEF Case!CaseNext
<1>6. Held(s)' = Held(s) \/ (s = Target[c] /\ Held(s) \subseteq Held(s)')
  BY <1>2, <1>3, HeldMoves
<1> QED  BY <1>4, <1>5, <1>6

LEMMA RewriteNoted ==
  ASSUME CaseInv, NEW c \in Call, Rewrite(c), NEW s \in Session
  PROVE  [Case(s)!CaseNext]_(Case(s)!caseVars)
<1>1. /\ opened' = opened /\ Held(s)' = Held(s) /\ verdicts' = verdicts
      /\ archive' = archive /\ pc[c] = "rewrite"
  BY DEF Rewrite, Held
<1>2. Kinds /\ WellPlaced(c) /\ StartsFirst /\ BornEmpty /\ BasisHeld /\ Target[c] \in Session
  BY CallAssumption DEF CaseInv, IInv, OnPath
<1>3. CASE completed'[s] = completed[s]
  BY <1>1, <1>3, Unnoticed
<1>4. CASE completed'[s] # completed[s]
  <2>1. s = Target[c] /\ basis[c] # {} /\ ~completed[s] /\ completed'[s]
    BY <1>2, <1>4 DEF Rewrite, Kinds
  <2>2. Held(s) # {}
    BY <1>1, <1>2, <2>1 DEF BasisHeld
  <2>3. s \in opened
    BY <2>2 DEF CaseInv, IInv, BornEmpty
  <2>4. Phase(s) = "open" /\ Phase(s)' = "completed"
    BY <1>1, <2>1, <2>3 DEF Phase
  <2>5. Case(s)!FirstVerdicts
    BY <1>1 DEF Case!FirstVerdicts
  <2>6. Held(s) \subseteq Item
    BY DEF Held
  <2>7. Case(s)!AddItems
    BY <1>1, <2>4, <2>5, <2>6 DEF Case!AddItems
  <2> QED  BY <2>7 DEF Case!CaseNext
<1> QED  BY <1>3, <1>4

LEMMA VerdictNoted ==
  ASSUME CaseInv, NEW c \in Call, RecordVerdict(c), NEW s \in Session
  PROVE  [Case(s)!CaseNext]_(Case(s)!caseVars)
<1>1. /\ opened' = opened /\ Held(s)' = Held(s) /\ completed' = completed
      /\ archive' = archive /\ pc[c] = "verdict"
      /\ verdicts' = [verdicts EXCEPT ![Target[c]] = Append(@, c)]
  BY DEF RecordVerdict, Held
<1>2. Kinds /\ WellPlaced(c) /\ StartsFirst /\ Target[c] \in Session
  BY CallAssumption DEF CaseInv, IInv, OnPath
<1>3. CASE s # Target[c]
  <2>1. verdicts'[s] = verdicts[s]
    BY <1>1, <1>2, <1>3 DEF Kinds
  <2> QED  BY <1>1, <2>1, Unnoticed
<1>4. CASE s = Target[c]
  <2>1. Phase(s) = "open" /\ Phase(s)' = "open"
    BY <1>1, <1>2, <1>4, ToolOf DEF Phase, CaseInv, OpenWork, StartsFirst
  <2>2. verdicts'[s] = Append(verdicts[s], c)
    BY <1>1, <1>2, <1>4 DEF Kinds
  <2>3. [q \in {"any"} |-> verdicts'[s]]
          = [[q \in {"any"} |-> verdicts[s]] EXCEPT !["any"] = Append(@, c)]
    BY <2>2
  <2>4. Case(s)!Correct
    BY <1>1, <2>1, <2>3 DEF Case!Correct
  <2> QED  BY <2>4 DEF Case!CaseNext
<1> QED  BY <1>3, <1>4

LEMMA CompleteNoted ==
  ASSUME CaseInv, NEW c \in Call, Complete(c), NEW s \in Session
  PROVE  [Case(s)!CaseNext]_(Case(s)!caseVars)
<1>1. /\ opened' = opened /\ Held(s)' = Held(s) /\ verdicts' = verdicts /\ pc[c] = "complete"
      /\ completed' = [completed EXCEPT ![Target[c]] = TRUE]
      /\ archive' = [archive EXCEPT ![Target[c]] = @ \union {Held(Target[c])}]
  BY DEF Complete, Held
<1>2. Kinds /\ WellPlaced(c) /\ StartsFirst /\ Announcements /\ Target[c] \in Session
  BY CallAssumption DEF CaseInv, IInv, OnPath
<1>3. CASE s # Target[c]
  <2>1. completed'[s] = completed[s] /\ archive'[s] = archive[s]
    BY <1>1, <1>2, <1>3 DEF Kinds
  <2> QED  BY <1>1, <2>1, Unnoticed
<1>4. CASE s = Target[c]
  <2>1. ~completed[s] /\ completed'[s] /\ s \in opened
    BY <1>1, <1>2, <1>4, ToolOf DEF Kinds, Announcements, StartsFirst
  <2>2. Phase(s) = "open" /\ Phase(s)' = "completed"
    BY <1>1, <2>1 DEF Phase
  <2>3. archive[s] = {}
    BY <2>1 DEF CaseInv, ArchivedClosed
  <2>4. archive'[s] = {Held(s)}
    BY <1>1, <1>2, <1>4, <2>3 DEF Kinds
  <2>5. Case(s)!FirstVerdicts
    BY <1>1 DEF Case!FirstVerdicts
  <2>6. Case(s)!Complete
    BY <1>1, <2>2, <2>4, <2>5 DEF Case!Complete
  <2> QED  BY <2>6 DEF Case!CaseNext
<1> QED  BY <1>3, <1>4

LEMMA CreateNoted ==
  ASSUME CaseInv, NEW c \in Call, Create(c), NEW s \in Session
  PROVE  [Case(s)!CaseNext]_(Case(s)!caseVars)
<1>1. /\ opened' = opened \union {Target[c]} /\ Held(s)' = Held(s) /\ verdicts' = verdicts
      /\ completed' = completed /\ archive' = archive /\ pc[c] = "create"
  BY DEF Create, Held
<1>2. WellPlaced(c) /\ StartsFirst /\ BornEmpty
  BY DEF CaseInv, IInv, OnPath
<1>3. CASE s # Target[c]
  <2>1. Phase(s)' = Phase(s)
    BY <1>1, <1>3 DEF Phase
  <2> QED  BY <1>1, <2>1 DEF Case!caseVars
<1>4. CASE s = Target[c]
  <2>1. s \notin opened /\ ~completed[s]
    BY <1>1, <1>2, <1>4, ToolOf DEF StartsFirst, Unborn, BornEmpty
  <2>2. Phase(s) = "absent" /\ Phase(s)' = "open"
    BY <1>1, <1>4, <2>1 DEF Phase
  <2>3. Case(s)!FirstVerdicts
    BY <1>1 DEF Case!FirstVerdicts
  <2>4. Case(s)!OpenCase
    BY <1>1, <2>2, <2>3 DEF Case!OpenCase
  <2> QED  BY <2>4 DEF Case!CaseNext
<1> QED  BY <1>3, <1>4

LEMMA StepNoted ==
  ASSUME CaseInv, [Next]_vars, NEW s \in Session
  PROVE  [Case(s)!CaseNext]_(Case(s)!caseVars)
<1>1. CASE UNCHANGED <<opened, evidence, completed, verdicts, archive>>
  <2>1. Held(s)' = Held(s)
    BY <1>1 DEF Held
  <2>2. UNCHANGED Case(s)!caseVars
    BY <1>1, <2>1, Unnoticed
  <2> QED  BY <2>2
<1>2. ASSUME NEW c \in Call, Arrive(c) \/ Step(c)
      PROVE  [Case(s)!CaseNext]_(Case(s)!caseVars)
  BY <1>1, <1>2, CaseSteps, IngestNoted, RewriteNoted, VerdictNoted, CompleteNoted, CreateNoted
<1>3. CASE UNCHANGED vars
  BY <1>1, <1>3 DEF vars, store
<1> QED  BY <1>2, <1>3 DEF Next

LEMMA CasesBegin == ASSUME Init, NEW s \in Session PROVE Case(s)!CaseInit
<1>1. Held(s) = {} /\ Phase(s) = "absent"
  BY DEF Init, Held, Phase
<1> QED  BY <1>1 DEF Init, Case!CaseInit

(* Calls that overlap in time act on every session as on a case file: items *)
(* and verdicts come in while it is open, and the snapshot is taken once,  *)
(* of what it ends with (Submit, ResolveQuestion, Finish under WithSession). *)
THEOREM CallsImplementCaseFile == Spec => ImplementsCaseFile
<1>1. Init => \A s \in Session : Case(s)!CaseInit
  BY CasesBegin
<1>2. CaseInv /\ [Next]_vars => \A s \in Session : [Case(s)!CaseNext]_(Case(s)!caseVars)
  BY StepNoted
<1> QED  BY <1>1, <1>2, CaseInvInit, CaseInvNext, PTL DEF Spec, ImplementsCaseFile

=============================================================================

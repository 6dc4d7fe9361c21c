----------------------------- MODULE ToolCalls -----------------------------
(***************************************************************************)
(* MCP tool calls that run side by side on the sessions of the store: the  *)
(* handlers of internal/mcpserver, each on a goroutine of its own, down to *)
(* the steps between which another call can run.                           *)
(*                                                                         *)
(*   - WithSession holds the store's one mutex, whatever the session, over *)
(*     validation, recompute and the events it publishes;                  *)
(*   - the recompute may wait there for the client's host model;           *)
(*   - WithSession returns the live session, and the handlers read it      *)
(*     field by field when the mutex is released already;                  *)
(*   - the graph and intelligence tools only look the session up under the *)
(*     read lock and never recompute.                                      *)
(*                                                                         *)
(* A derived field is represented by the evidence it was derived from: its *)
(* content, and the plan's and the reasoners' steps, are the subject of    *)
(* InvestigationRuntime.  A field is read and written as a whole.  Calls   *)
(* with blank arguments return before their first step and are left out.   *)
(***************************************************************************)
EXTENDS Naturals, Sequences, FiniteSets

CONSTANTS
  Session,   (* session ids                                                *)
  Item,      (* evidence ids                                               *)
  Call,      (* the tool calls the clients make                            *)
  Tool,      (* Tool[c]: which tool a call is of                           *)
  Target,    (* Target[c]: the session it is about                         *)
  Batch,     (* Batch[c]: the evidence ids a submit_evidence carries       *)
  Samples,   (* calls of clients that advertised sampling                  *)
  NoCall     (* holder of a free mutex                                     *)

(* "get" stands for the tools behind Runtime.Get, "view" for those on the  *)
(* graph, "similar" for those on the intelligence API.                     *)
ToolName == {"start", "submit", "get", "resolve", "finish", "view", "similar"}

ASSUME CallAssumption ==
  /\ Tool \in [Call -> ToolName]
  /\ Target \in [Call -> Session]
  /\ Batch \in [Call -> Seq(Item)]
  /\ \A c \in Call : Tool[c] = "submit" => Len(Batch[c]) > 0
  /\ \A c, d \in Call : Tool[c] = "start" /\ Tool[d] = "start"
                        /\ Target[c] = Target[d] => c = d
  /\ Samples \subseteq Call
  /\ NoCall \notin Call

VARIABLES
  opened,     (* sessions in the store's map                               *)
  evidence,   (* evidence[s][i]: how often s.Evidence lists the id i       *)
  derived,    (* derived[s][f]: the evidence field f was derived from      *)
  completed,  (* completed[s]: s.Status is "completed"                     *)
  verdicts,   (* verdicts[s]: resolve_question calls in s.Plan's history   *)
  archive,    (* archive[s]: the evidence of the snapshots stored of s     *)
  events,     (* events[s]: lifecycle events published, oldest first       *)
  holder,     (* the call that holds the store's mutex                     *)
  pc,         (* pc[c]: where call c is                                    *)
  at,         (* at[c]: index of the next item, field or read of c         *)
  seen,       (* seen[c]: Submit's map of evidence ids                     *)
  basis,      (* basis[c]: the evidence c's reasoners looked at            *)
  reply,      (* reply[c][f]: field f as c's response has it               *)
  floor       (* floor[c]: derived[Target[c]] when c came in (history)     *)

store == <<opened, evidence, derived, completed, verdicts, archive, events>>
local == <<at, seen, basis, reply, floor>>
vars  == <<store, holder, pc, local>>

(* A recompute writes the session in two halves: "reasoned", the           *)
(* hypotheses, graph and coverage its reasoning cycle applies, then        *)
(* "assessed", what the protocol run and the assessment leave in plan,     *)
(* confidence, sufficiency, state and status.                              *)
Field  == {"reasoned", "assessed"}
Writes == <<"reasoned", "assessed">>

(* The halves a response is built of, in the order the handler reads them. *)
Reads(c) ==
  CASE Tool[c] \in {"start", "submit", "get", "similar"} -> <<"assessed", "reasoned">>
    [] Tool[c] = "resolve" -> <<"assessed">>
    [] Tool[c] = "view"    -> <<"reasoned">>
    [] Tool[c] = "finish"  -> << >>

ReadFields(c) == {Reads(c)[i] : i \in 1 .. Len(Reads(c))}
BatchItems(c) == {Batch[c][i] : i \in 1 .. Len(Batch[c])}

Held(s) == {i \in Item : evidence[s][i] > 0}

Goto(c, label) == pc' = [pc EXCEPT ![c] = label]
Free == holder = NoCall

-----------------------------------------------------------------------------
Init ==
  /\ opened = {}
  /\ evidence = [s \in Session |-> [i \in Item |-> 0]]
  /\ derived = [s \in Session |-> [f \in Field |-> {}]]
  /\ completed = [s \in Session |-> FALSE]
  /\ verdicts = [s \in Session |-> << >>]
  /\ archive = [s \in Session |-> {}]
  /\ events = [s \in Session |-> << >>]
  /\ holder = NoCall
  /\ pc = [c \in Call |-> "idle"]
  /\ at = [c \in Call |-> 1]
  /\ seen = [c \in Call |-> {}]
  /\ basis = [c \in Call |-> {}]
  /\ reply = [c \in Call |-> [f \in Field |-> {}]]
  /\ floor = [c \in Call |-> [f \in Field |-> {}]]

(* A client makes a call.  It knows a session's id from the response of    *)
(* start_investigation.                                                    *)
Arrive(c) ==
  /\ pc[c] = "idle"
  /\ Tool[c] # "start" =>
       \E d \in Call : Tool[d] = "start" /\ Target[d] = Target[c] /\ pc[d] = "returned"
  /\ floor' = [floor EXCEPT ![c] = derived[Target[c]]]
  /\ Goto(c, CASE Tool[c] = "start"               -> "collect"
               [] Tool[c] \in {"view", "similar"} -> "lookup"
               [] OTHER                           -> "waiting")
  /\ UNCHANGED <<store, holder, at, seen, basis, reply>>

(* Slip: the tool checks that the mutex is there, not that it is free.     *)
AcquireShared(c) ==
  LET s == Target[c] IN
  /\ pc[c] = "waiting"
  /\ holder' = c
  /\ seen' = [seen EXCEPT ![c] = Held(s)]
  /\ at' = [at EXCEPT ![c] = 1]
  /\ Goto(c, CASE Tool[c] \in {"submit", "resolve"} /\ completed[s] -> "refuse"
               [] Tool[c] = "submit" /\ ~completed[s]  -> "ingest"
               [] Tool[c] = "resolve" /\ ~completed[s] -> "verdict"
               [] Tool[c] \in {"get", "finish"}        -> "collect")
  /\ UNCHANGED <<store, basis, reply, floor>>

(* Slip: the session's completion is checked before the mutex is taken.    *)
AcquireUnchecked(c) ==
  /\ pc[c] = "waiting"
  /\ Free
  /\ holder' = c
  /\ seen' = [seen EXCEPT ![c] = Held(Target[c])]
  /\ at' = [at EXCEPT ![c] = 1]
  /\ Goto(c, CASE Tool[c] = "submit"  -> "ingest"
               [] Tool[c] = "resolve" -> "verdict"
               [] Tool[c] \in {"get", "finish"} -> "collect")
  /\ UNCHANGED <<store, basis, reply, floor>>

(* WithSession: Lock, then the callback's completion check and, in Submit, *)
(* the ids the session has.                                                *)
Acquire(c) ==
  LET s == Target[c] IN
  /\ pc[c] = "waiting"
  /\ Free
  /\ holder' = c
  /\ seen' = [seen EXCEPT ![c] = Held(s)]
  /\ at' = [at EXCEPT ![c] = 1]
  /\ Goto(c, CASE Tool[c] \in {"submit", "resolve"} /\ completed[s] -> "refuse"
               [] Tool[c] = "submit" /\ ~completed[s]  -> "ingest"
               [] Tool[c] = "resolve" /\ ~completed[s] -> "verdict"
               [] Tool[c] \in {"get", "finish"}        -> "collect")
  /\ UNCHANGED <<store, basis, reply, floor>>

(* Slip: the loop over the items is not followed by a recompute.           *)
IngestUnderived(c) ==
  LET s == Target[c]
      i == Batch[c][at[c]] IN
  /\ pc[c] = "ingest"
  /\ IF i \in seen[c]
       THEN Goto(c, "refuse") /\ UNCHANGED <<evidence, seen, at>>
       ELSE /\ evidence' = [evidence EXCEPT ![s][i] = @ + 1]
            /\ seen' = [seen EXCEPT ![c] = @ \union {i}]
            /\ at' = [at EXCEPT ![c] = IF at[c] = Len(Batch[c]) THEN 1 ELSE @ + 1]
            /\ Goto(c, IF at[c] = Len(Batch[c]) THEN "publish" ELSE "ingest")
  /\ UNCHANGED <<opened, derived, completed, verdicts, archive, events,
                 holder, basis, reply, floor>>

(* Submit's loop: one item is checked against the ids and appended.  A     *)
(* duplicate ends the call; what was appended before it stays.             *)
Ingest(c) ==
  LET s == Target[c]
      i == Batch[c][at[c]] IN
  /\ pc[c] = "ingest"
  /\ IF i \in seen[c]
       THEN Goto(c, "refuse") /\ UNCHANGED <<evidence, seen, at>>
       ELSE /\ evidence' = [evidence EXCEPT ![s][i] = @ + 1]
            /\ seen' = [seen EXCEPT ![c] = @ \union {i}]
            /\ at' = [at EXCEPT ![c] = @ + 1]
            /\ Goto(c, IF at[c] = Len(Batch[c]) THEN "collect" ELSE "ingest")
  /\ UNCHANGED <<opened, derived, completed, verdicts, archive, events,
                 holder, basis, reply, floor>>

(* Slip: the loop's index is carried over into the recompute.              *)
CollectUnreset(c) ==
  /\ pc[c] = "collect"
  /\ basis' = [basis EXCEPT ![c] = Held(Target[c])]
  /\ Goto(c, IF c \in Samples /\ Held(Target[c]) # {} THEN "sampling" ELSE "rewrite")
  /\ UNCHANGED <<store, holder, at, seen, reply, floor>>

(* Recompute starts: signals and reasoners look at the evidence.  With a   *)
(* sampling client and evidence the semantic reasoner asks the host.       *)
Collect(c) ==
  /\ pc[c] = "collect"
  /\ basis' = [basis EXCEPT ![c] = Held(Target[c])]
  /\ at' = [at EXCEPT ![c] = 1]
  /\ Goto(c, IF c \in Samples /\ Held(Target[c]) # {} THEN "sampling" ELSE "rewrite")
  /\ UNCHANGED <<store, holder, seen, reply, floor>>

(* sampling/createMessage comes back: answered, failed, or cut off because *)
(* the client cancelled the call.  The recompute goes on in every case.    *)
SamplingEnds(c) ==
  /\ pc[c] = "sampling"
  /\ Goto(c, "rewrite")
  /\ UNCHANGED <<store, holder, local>>

AfterRecompute(c) ==
  CASE Tool[c] = "start"  -> "create"
    [] Tool[c] = "submit" -> "publish"
    [] Tool[c] = "get"    -> "release"
    [] Tool[c] = "finish" -> "report"

(* Recompute writes one half: the first is applied from what the reasoners *)
(* saw before the host was asked, the second is made from the session.     *)
(* A host's answer may mark the investigation complete.                    *)
Rewrite(c) ==
  LET s == Target[c]
      f == Writes[at[c]] IN
  /\ pc[c] = "rewrite"
  /\ derived' = [derived EXCEPT ![s][f] =
                   IF f = "reasoned" THEN basis[c] ELSE Held(s)]
  /\ completed' \in {completed} \union
       IF f = "assessed" /\ c \in Samples /\ basis[c] # {}
         THEN {[completed EXCEPT ![s] = TRUE]} ELSE {}
  /\ at' = [at EXCEPT ![c] = IF f = "assessed" THEN 1 ELSE @ + 1]
  /\ Goto(c, IF f = "assessed" THEN AfterRecompute(c) ELSE "rewrite")
  /\ UNCHANGED <<opened, evidence, verdicts, archive, events, holder, seen,
                 basis, reply, floor>>

(* ResolveQuestion: the verdict is recorded in the plan.                   *)
RecordVerdict(c) ==
  /\ pc[c] = "verdict"
  /\ verdicts' = [verdicts EXCEPT ![Target[c]] = Append(@, c)]
  /\ Goto(c, "publish")
  /\ UNCHANGED <<opened, evidence, derived, completed, archive, events, holder, local>>

EventOf(c) == CASE Tool[c] = "start"   -> "QuestionCreated"
                [] Tool[c] = "submit"  -> "EvidenceAdded"
                [] Tool[c] = "resolve" -> "QuestionResolved"

(* Bus.Publish: the handlers run here, one after the other, on the calling *)
(* goroutine.  The repository subscribes none; they are taken to return.   *)
(* The ReasoningCompleted notice of every recompute is left out.           *)
Publish(c) ==
  /\ pc[c] = "publish"
  /\ events' = [events EXCEPT ![Target[c]] = Append(@, EventOf(c))]
  /\ Goto(c, IF Tool[c] = "start" THEN "respond" ELSE "release")
  /\ UNCHANGED <<opened, evidence, derived, completed, verdicts, archive, holder, local>>

(* Finish: the report is built from the session, all under the mutex.      *)
Report(c) ==
  /\ pc[c] = "report"
  /\ reply' = [reply EXCEPT ![c] = derived[Target[c]]]
  /\ Goto(c, IF completed[Target[c]] THEN "release" ELSE "complete")
  /\ UNCHANGED <<store, holder, at, seen, basis, floor>>

(* Finish of an open session: completed, archived, announced.              *)
Complete(c) ==
  LET s == Target[c] IN
  /\ pc[c] = "complete"
  /\ completed' = [completed EXCEPT ![s] = TRUE]
  /\ archive' = [archive EXCEPT ![s] = @ \union {Held(s)}]
  /\ events' = [events EXCEPT ![s] = Append(@, "InvestigationCompleted")]
  /\ Goto(c, "release")
  /\ UNCHANGED <<opened, evidence, derived, verdicts, holder, local>>

(* The callback's variables go out of scope.                               *)
ScopeEnds(c) ==
  /\ at' = [at EXCEPT ![c] = 1]
  /\ seen' = [seen EXCEPT ![c] = {}]
  /\ basis' = [basis EXCEPT ![c] = {}]
  /\ UNCHANGED <<reply, floor>>

(* Slip: the error return skips the unlock.                                *)
RefuseLeaky(c) ==
  /\ pc[c] = "refuse"
  /\ ScopeEnds(c)
  /\ Goto(c, "refused")
  /\ UNCHANGED <<store, holder>>

(* The callback's error and its success both unlock.                       *)
Refuse(c) ==
  /\ pc[c] = "refuse"
  /\ holder' = NoCall
  /\ ScopeEnds(c)
  /\ Goto(c, "refused")
  /\ UNCHANGED store

Release(c) ==
  /\ pc[c] = "release"
  /\ holder' = NoCall
  /\ ScopeEnds(c)
  /\ Goto(c, IF Tool[c] = "finish" THEN "returned" ELSE "respond")
  /\ UNCHANGED store

(* Start recomputed its session before anyone else could see it.           *)
Create(c) ==
  /\ pc[c] = "create"
  /\ Free
  /\ opened' = opened \union {Target[c]}
  /\ Goto(c, "publish")
  /\ UNCHANGED <<evidence, derived, completed, verdicts, archive, events, holder, local>>

(* Store.Get: RLock for the lookup, which is over before the reading.      *)
Lookup(c) ==
  /\ pc[c] = "lookup"
  /\ Free
  /\ Goto(c, "respond")
  /\ UNCHANGED <<store, holder, local>>

(* The handler reads one more field of the live session, without a lock.   *)
ReadField(c) ==
  LET f == Reads(c)[at[c]] IN
  /\ pc[c] = "respond"
  /\ reply' = [reply EXCEPT ![c][f] = derived[Target[c]][f]]
  /\ at' = [at EXCEPT ![c] = IF @ = Len(Reads(c)) THEN 1 ELSE @ + 1]
  /\ Goto(c, IF at[c] = Len(Reads(c)) THEN "returned" ELSE "respond")
  /\ UNCHANGED <<store, holder, seen, basis, floor>>

(* One step of a call that was made.                                       *)
Step(c) ==
  \/ Acquire(c)
  \/ Ingest(c)
  \/ Collect(c)
  \/ SamplingEnds(c)
  \/ Rewrite(c)
  \/ RecordVerdict(c)
  \/ Publish(c)
  \/ Report(c)
  \/ Complete(c)
  \/ Refuse(c)
  \/ Release(c)
  \/ Create(c)
  \/ Lookup(c)
  \/ ReadField(c)

Next == \E c \in Call : Arrive(c) \/ Step(c)

Spec == Init /\ [][Next]_vars

(* The scheduler runs every goroutine, a mutex that stays free is taken,   *)
(* and a host answers, fails or is cut off by its client in the end.  No   *)
(* client owes a call.  That Go starves no waiter is not needed: a client  *)
(* makes each call of Call once.                                           *)
FairSpec == Spec /\ \A c \in Call : WF_vars(Step(c))

-----------------------------------------------------------------------------
(* Properties.                                                             *)

Locked   == {"ingest", "verdict", "report", "complete", "refuse", "release"}
Label    == Locked \union {"idle", "waiting", "lookup", "collect", "sampling",
                           "rewrite", "create", "publish", "respond", "returned",
                           "refused"}
(* c runs WithSession's callback.  Start runs its recompute and publishes  *)
(* without the mutex.                                                      *)
Inside(c) == \/ pc[c] \in Locked
             \/ pc[c] \in {"collect", "sampling", "rewrite", "publish"} /\ Tool[c] # "start"

(* Every variable holds a value of its kind, an index points into the list *)
(* its call is working through, and a call is only at labels of its tool.  *)
TypeOK ==
  /\ opened \subseteq Session
  /\ evidence \in [Session -> [Item -> Nat]]
  /\ derived \in [Session -> [Field -> SUBSET Item]]
  /\ completed \in [Session -> BOOLEAN]
  /\ verdicts \in [Session -> Seq(Call)]
  /\ archive \in [Session -> SUBSET SUBSET Item]
  /\ events \in [Session -> Seq({"QuestionCreated", "EvidenceAdded", "QuestionResolved",
                                 "InvestigationCompleted"})]
  /\ holder \in Call \union {NoCall}
  /\ pc \in [Call -> Label]
  /\ at \in [Call -> Nat]
  /\ seen \in [Call -> SUBSET Item]
  /\ basis \in [Call -> SUBSET Item]
  /\ reply \in [Call -> [Field -> SUBSET Item]]
  /\ floor \in [Call -> [Field -> SUBSET Item]]
  /\ \A c \in Call :
       /\ pc[c] = "ingest"  => Tool[c] = "submit" /\ at[c] \in 1 .. Len(Batch[c])
       /\ pc[c] = "rewrite" => at[c] \in 1 .. Len(Writes)
       /\ pc[c] = "respond" => at[c] \in 1 .. Len(Reads(c))
       /\ pc[c] \in {"collect", "sampling", "rewrite"} =>
            Tool[c] \in {"start", "submit", "get", "finish"}
       /\ pc[c] = "publish" => Tool[c] \in {"start", "submit", "resolve"}
       /\ pc[c] = "create" => Tool[c] = "start"

Ended(c) == pc[c] \in {"returned", "refused"}

(* Nobody is inside WithSession but the holder of the mutex, and the       *)
(* holder is inside: no step of another call falls into a read-modify-     *)
(* write, although it may wait for the host in the middle (WithSession).   *)
OneInside == \A c \in Call : Inside(c) <=> holder = c

(* As long as nobody is inside, the parts of a session fit together: all   *)
(* were derived from the same evidence, however the calls interleaved and  *)
(* however long the host took in between (recompute under WithSession).    *)
WholeWhenFree ==
  \A s \in opened : Free =>
    \A f, g \in Field : derived[s][f] = derived[s][g] /\ derived[s][f] \subseteq Held(s)

(* A client that cancelled or lost a submission and sends it again, even   *)
(* while the first call is still running, never gets an item in twice      *)
(* (Submit's ids, read and extended under the mutex).                      *)
NoItemTwice == \A s \in Session, i \in Item : evidence[s][i] <= 1

(* A response never shows a field as it was before the call was made, and  *)
(* a submission's response rests on the whole batch, although it is read   *)
(* when other calls may already be rewriting the session.                  *)
RepliesFresh ==
  \A c \in Call : pc[c] = "returned" =>
    \A f \in ReadFields(c) :
      /\ floor[c][f] \subseteq reply[c][f]
      /\ Tool[c] = "submit" => BatchItems(c) \subseteq reply[c][f]

(* The final report is whole, and what is archived is the evidence that    *)
(* a report was derived from: nothing arrives between the two (Finish).    *)
ReportMatchesArchive ==
  /\ \A c \in Call : Tool[c] = "finish" /\ Ended(c) =>
       \A f, g \in Field : reply[c][f] = reply[c][g]
  /\ \A s \in Session : \A E \in archive[s] :
       \E c \in Call : /\ Tool[c] = "finish" /\ Target[c] = s
                      /\ pc[c] \in {"release", "returned"}
                      /\ reply[c]["reasoned"] = E

(* To a subscriber of the bus a completed investigation is over: it is     *)
(* announced once, however many finish_investigation calls run, and no     *)
(* evidence or verdict is announced after it (publish under the mutex).    *)
CompletionAnnouncedLast ==
  \A s \in Session : \A i, j \in 1 .. Len(events[s]) :
    i < j => events[s][i] # "InvestigationCompleted"

(* No call is forgotten on any path: whichever calls are refused, find a   *)
(* duplicate or lose their host, the others get the mutex, and every call  *)
(* that was made comes to its end (the unlock on each path of WithSession, *)
(* the recompute that goes on without the host's answer).                  *)
AllCallsEnd == []<>(\A c \in Call : pc[c] = "idle" \/ Ended(c))

-----------------------------------------------------------------------------
Phase(s) ==
  CASE s \notin opened                 -> "absent"
    [] s \in opened /\ ~completed[s] -> "open"
    [] s \in opened /\ completed[s]  -> "completed"

(* Each session is a case file to its clients: calls that overlap in time  *)
(* act on it as if they had come one by one.                               *)
Case(s) == INSTANCE CaseFile WITH
  Item     <- Item,
  Question <- {"any"},
  Outcome  <- Call,
  phase    <- Phase(s),
  items    <- Held(s),
  log      <- [q \in {"any"} |-> verdicts[s]],
  archived <- archive[s]

(* Evidence and verdicts come in only while the session is open, and the   *)
(* one snapshot is of exactly the evidence it ends with, with any number   *)
(* of calls under way (Submit, ResolveQuestion, Finish).                   *)
ImplementsCaseFile ==
  /\ \A s \in Session : Case(s)!CaseInit
  /\ [][\A s \in Session : [Case(s)!CaseNext]_(Case(s)!caseVars)]_vars

=============================================================================

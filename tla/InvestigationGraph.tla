-------------------------- MODULE InvestigationGraph --------------------------
(***************************************************************************)
(* The investigation graph of a session, as HeuristicGraphBuilder builds   *)
(* it (internal/engine/graph.go) and InferenceEngine extends it, and the   *)
(* store's operations on it (internal/graph).                              *)
(*                                                                         *)
(* A node is a kind and a name, an edge <<from, to, type>>: the store      *)
(* keys an edge by just these, so adding one twice leaves one.  Labels,    *)
(* weights and reasons are left out, and so are the CONTRADICTS edges of   *)
(* conflicting evidence, which nothing reads.                              *)
(***************************************************************************)
EXTENDS QuestionProtocol, Signals

CONSTANT Service   (* the service the client named, "" for none            *)

Inv     == <<"inv", "">>
Svc(n)  == <<"svc", n>>
Ev(e)   == <<"ev", e>>
Hyp(id) == <<"hyp", id>>
Qn(q)   == <<"q", q>>
Req(q)  == <<"req", q>>

NewInvestigationGraph == [nodes |-> {}, edges |-> {}]

Named(E) == {EntityOf[e] : e \in E}

NodesOf(E, hyps, plan) ==
  {Inv} \union {Svc(n) : n \in (Named(E) \union {Service}) \ {""}}
        \union {Ev(e) : e \in E}
        \union {Hyp(h.id) : h \in ToSet(hyps)}
        \union {Qn(q) : q \in Asked(plan)}
        \union {Req(r.question) : r \in plan.requests}

(* Each item precedes the next one in time.                                *)
OccurredBefore(E) ==
  LET ordered == SortedByTime(E)
  IN  {<<Ev(ordered[i]), Ev(ordered[i + 1]), "occurred_before">> : i \in 1 .. Len(ordered) - 1}

EvidenceEdges(E) ==
  {<<Inv, Svc(n), "belongs_to">> : n \in {Service} \ {""}}
  \union {<<Inv, Ev(e), "generated">> : e \in E}
  \union {<<Ev(e), Svc(EntityOf[e]), "observed_on">> : e \in {x \in E : EntityOf[x] # ""}}
  \union OccurredBefore(E)
  \union {<<Ev(d), Ev(s), "causes">> :
            d \in IF DeployBeforeIncident(E) THEN FirstOfKind(Deployments(E)) ELSE {},
            s \in FirstOfKind(Symptoms(E))}
  \union {<<Ev(r), Ev(s), "recovered_by">> :
            r \in FirstOfKind(Recoveries(E)), s \in FirstOfKind(Symptoms(E))}

HypothesisEdges(E, hyps) ==
  UNION {{<<Ev(e), Hyp(h.id), "supports">> : e \in h.support \intersect E} : h \in ToSet(hyps)}

(* addProtocolNodes.                                                       *)
ProtocolEdges(plan) ==
  {<<Inv, Qn(q), "generated">> : q \in Asked(plan)}
  \union (UNION {{<<Qn(d), Qn(q), "depends_on">> : d \in DependsOn[q]} : q \in Asked(plan)})
  \union {<<Qn(r.question), Req(r.question), "requests">> : r \in plan.requests}

(* InferenceEngine.Apply.                                                  *)
InferredEdges(E, hyps) ==
  {<<edge[1], edge[2], "correlates_with">> : edge \in OccurredBefore(E)}
  \union {<<Ev(e), Hyp(h.id), "correlates_with">> :
            e \in IF "database" \in Keywords(E) THEN OfCategory(E, "database_events") ELSE {},
            h \in ToSet(hyps)}

Build(E, hyps, plan) ==
  [nodes |-> NodesOf(E, hyps, plan),
   edges |-> EvidenceEdges(E) \union HypothesisEdges(E, hyps)
               \union ProtocolEdges(plan) \union InferredEdges(E, hyps)]

(* AddEdge does not look at the nodes.                                     *)
AddEdges(g, edges) == [g EXCEPT !.edges = @ \union edges]

(* ConsistencyChecker: edges that refer to a node the graph does not have. *)
Dangling(g) == {edge \in g.edges : ~({edge[1], edge[2]} \subseteq g.nodes)}

=============================================================================

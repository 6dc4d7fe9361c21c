----------------------------- MODULE MCGeneric -----------------------------
(***************************************************************************)
(* A three-question playbook with every shape the protocol distinguishes:  *)
(*   root   static, no dependency; later evidence turns its verdict around *)
(*   child  static, depends on root, and is also generated by dyn          *)
(*   dyn    triggered by evidence of the second category                   *)
(* Item e1, of the first category, speaks for every question; e3, of the   *)
(* second, against every question; e2 is like e3 but settles nothing.      *)
(***************************************************************************)
EXTENDS InvestigationRuntime

CONSTANTS e1, e2, e3, c1, c2, root, child, dyn

(* The liveness run takes all three items; the safety runs, whose reasoner *)
(* and assessments multiply the states, the two that decide something.     *)
ThreeItems == {e1, e2, e3}
TwoItems   == {e1, e3}

MCCategory   == {c1, c2}
MCCategoryOf == [e \in Evidence |-> IF e = e1 THEN c1 ELSE c2]

MCQuestion  == {root, child, dyn}
MCRequires  == [q \in MCQuestion |-> CASE q = root  -> {c1}
                                       [] q = child -> {c1, c2}
                                       [] q = dyn   -> {c2}]
MCPriority  == [q \in MCQuestion |-> CASE q = root  -> 85
                                       [] q = child -> 50
                                       [] q = dyn   -> 50]
MCDependsOn == [q \in MCQuestion |-> IF q = child THEN {root} ELSE {}]
MCGenerates == [q \in MCQuestion |-> IF q = dyn THEN {child} ELSE {}]
MCDynamic   == {dyn}
MCFires     == [q \in MCDynamic |-> [E \in SUBSET Evidence |-> E \intersect {e2, e3} # {}]]

MCVerdict ==
  [q \in MCQuestion |-> [E \in SUBSET Evidence |->
     CASE e3 \in E                -> "rejected"
       [] e3 \notin E /\ e1 \in E -> "confirmed"
       [] OTHER                   -> "insufficient"]]

(* root's verdict can be corrected after it was given, the others' cannot. *)
MCMaxResolutions == [q \in MCQuestion |-> IF q = root THEN 2 ELSE 1]

AnyAssessment == Assessment
OneAssessment == {Unremarkable}
AllProposals == ProposalKind
NoProposals  == {}

=============================================================================

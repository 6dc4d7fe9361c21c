--------------------------- MODULE MCSharedArchive ---------------------------
(***************************************************************************)
(* Three clients, of which any may name one of two services, none, or      *)
(* another goal.  The evidence of a failed release and that of a lock      *)
(* queue each make their cause certain; a client has one of them.  Without *)
(* evidence a recompute finds the unknown cause at 28 percent.             *)
(***************************************************************************)
EXTENDS SharedArchive, TLC

Categories4 ==
  [release |-> "deployment_events", failing |-> "application_logs",
   waiter  |-> "database_events",   slow    |-> "metrics"]

MCEvidence   == DOMAIN Categories4
MCCategory   == {"deployment_events", "application_logs", "database_events", "metrics"}
MCCategoryOf == Categories4

Release   == {"release", "failing"}
LockQueue == {"failing", "waiter", "slow"}
MCBatches == {Release, LockQueue}

Profile(goal, service, tokens) ==
  [goal |-> goal, service |-> service, tokens |-> tokens, spoken |-> {}]

MCProfiles == {Profile("root_cause", "checkout", {"why", "checkout", "slow"}),
               Profile("root_cause", "billing",  {"why", "billing", "slow"}),
               Profile("root_cause", "",         {"why", "slow"}),
               Profile("impact",     "checkout", {"who", "noticed"})}

SessionsAlike == Permutations(Session)

View(field, raw, canAnswer, blocked, percent, edges, timeline, labels) ==
  [field |-> field, confidence |-> raw, canAnswer |-> canAnswer, blocked |-> blocked,
   percent |-> percent, edges |-> edges, timeline |-> timeline, labels |-> labels,
   asked |-> {field[1]}]

Asking3 == {"generated", "requests", "depends_on"}
Linked  == Asking3 \union {"occurred_before", "supports", "correlates_with"}

MCOutlook ==
  [E \in {{}, Release, LockQueue} |->
     CASE E = {} ->
            View(<<"unknown">>, 280, FALSE, TRUE, 60, Asking3, << >>, {})
       [] E = Release ->
            View(<<"deployment-caused", "unknown">>, 820, TRUE, TRUE, 740,
                 Linked \union {"causes", "observed_on"},
                 <<"deployment_events", "application_logs">>, {"deploy", "error"})
       [] E = LockQueue ->
            View(<<"lock-contention", "database-saturation", "unknown">>, 740, FALSE, FALSE, 720,
                 Linked, <<"application_logs", "database_events", "metrics">>, {"database", "lock", "latency"})]

=============================================================================

------------------------------ MODULE CaseFile ------------------------------
(***************************************************************************)
(* What an investigation session promises its clients, without recompute,  *)
(* reasoners, dependencies or requests: a case file that collects items    *)
(* while it is open and a log of verdicts per question.                    *)
(*                                                                         *)
(*   - items are only ever added, and only while the case is open;         *)
(*   - a question gets its first verdict at any time, even on a completed  *)
(*     case that is read again, but a further one only while it is open    *)
(*     and one question at a time;                                         *)
(*   - the snapshot is taken at most once, in the step that completes the  *)
(*     case, of exactly the items the case ends with.                      *)
(***************************************************************************)
EXTENDS Sequences

CONSTANTS Item, Question, Outcome

VARIABLES
  phase,      (* "absent", "open" or "completed"                           *)
  items,      (* the evidence of the case                                  *)
  log,        (* log[q]: the verdicts recorded on q, oldest first          *)
  archived    (* the set of archived item sets: none or one                *)

caseVars == <<phase, items, log, archived>>

CaseInit == /\ phase = "absent"
            /\ items = {}
            /\ log = [q \in Question |-> << >>]
            /\ archived = {}

(* First verdicts on any questions that have none yet.                     *)
FirstVerdicts ==
  \A q \in Question : \/ log'[q] = log[q]
                      \/ /\ log[q] = << >>
                         /\ \E outcome \in Outcome : log'[q] = <<outcome>>

OpenCase == /\ phase = "absent" /\ phase' = "open"
            /\ FirstVerdicts
            /\ UNCHANGED <<items, archived>>

(* The new items may settle questions, and may be the last of the case.    *)
AddItems == /\ phase = "open" /\ phase' \in {"open", "completed"}
            /\ items \subseteq items' /\ items' \subseteq Item
            /\ FirstVerdicts
            /\ UNCHANGED archived

(* Reading derives verdicts from the items already there.                  *)
Read == /\ phase # "absent"
        /\ FirstVerdicts
        /\ UNCHANGED <<phase, items, archived>>

Correct == /\ phase = "open"
           /\ \E q \in Question, outcome \in Outcome :
                log' = [log EXCEPT ![q] = Append(@, outcome)]
           /\ UNCHANGED <<phase, items, archived>>

(* Completion, with or without a snapshot.                                 *)
Complete == /\ phase = "open" /\ phase' = "completed"
            /\ FirstVerdicts
            /\ archived' \in {{}, {items}}
            /\ UNCHANGED items

CaseNext == OpenCase \/ AddItems \/ Read \/ Correct \/ Complete

CaseSpec == CaseInit /\ [][CaseNext]_caseVars

=============================================================================

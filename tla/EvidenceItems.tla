--------------------------- MODULE EvidenceItems ---------------------------
(***************************************************************************)
(* The vocabulary every other module shares: evidence items, which the     *)
(* runtime only ever appends, and the category each item carries.          *)
(*                                                                         *)
(* An item is a model value standing for its id; two submissions with the  *)
(* same id are the same item, which is what the duplicate check compares.  *)
(***************************************************************************)

CONSTANTS
  Evidence,     (* the evidence ids clients may ever submit                *)
  Category,     (* the evidence categories                                 *)
  CategoryOf    (* the category of each item, after normalizeEvidence      *)

ASSUME EvidenceAssumption == CategoryOf \in [Evidence -> Category]

(* Session.HasCategory, as the set of categories it answers TRUE for.      *)
HeldCategories(E) == {CategoryOf[e] : e \in E}

=============================================================================

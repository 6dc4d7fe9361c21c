------------------------------- MODULE Sorting -------------------------------
(***************************************************************************)
(* sort.SliceStable, by what it promises: an element stands behind those   *)
(* that are ahead of it, and equal ones stay as they were.                 *)
(*                                                                         *)
(* A key is given for each of the positions that are kept.                 *)
(***************************************************************************)
EXTENDS Integers, FiniteSets

(* How many of the positions have keys that belong ahead of the i-th.      *)
Place(key, i) ==
  Cardinality({j \in DOMAIN key : key[j] > key[i] \/ (key[j] = key[i] /\ j < i)})

(* The positions, those with the highest keys first.                       *)
Descending(key) ==
  LET place == [i \in DOMAIN key |-> Place(key, i)]
  IN  [rank \in 1 .. Cardinality(DOMAIN key) |-> CHOOSE i \in DOMAIN key : place[i] = rank - 1]

SortedBy(seq, key) ==
  LET order == Descending(key) IN [rank \in DOMAIN order |-> seq[order[rank]]]

(* The elements at some positions, in the order they have.                 *)
Selected(seq, positions) == SortedBy(seq, [i \in positions |-> 0])

=============================================================================

------------------------------- MODULE Sorting --------------------------------
(***************************************************************************)
(* Sorting, as the sorts of the program use it: of finitely many elements, *)
(* by an order in which no two of them are equal (a stable sort orders     *)
(* elements of one key by their places).  less is the set of the pairs     *)
(* whose first one comes before the second.                                *)
(***************************************************************************)
EXTENDS Integers, FiniteSets

(* An element's place is one more than the number of those before it.      *)
InOrder(set, less) ==
    [n \in 1..Cardinality(set) |->
        CHOOSE a \in set : Cardinality({b \in set : <<b, a>> \in less}) = n - 1]
=============================================================================

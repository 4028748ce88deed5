----------------------------- MODULE LinkedList -----------------------------
(***************************************************************************)
(* Removal from the linked lists of src/src/infra/infra_list.h: a walk     *)
(* (list_for_each_entry_safe of infra_compat.h) that unlinks (list_del)    *)
(* every node that satisfies a condition and leaves the others in their    *)
(* order.  It is SelectSeq, stated without recursion so that proofs can    *)
(* use it.                                                                 *)
(***************************************************************************)
EXTENDS Integers, Sequences, FiniteSets

\* The members of a finite set of numbers in ascending order.
Ascending(I) ==
    CHOOSE f \in [1..Cardinality(I) -> I] :
        /\ \A j, k \in 1..Cardinality(I) : j < k => f[j] < f[k]
        /\ \A i \in I : \E k \in 1..Cardinality(I) : f[k] = i

\* The list s after the nodes in S were unlinked.
Without(s, S) ==
    LET I == {i \in DOMAIN s : s[i] \notin S}
    IN  [k \in 1..Cardinality(I) |-> s[Ascending(I)[k]]]

=============================================================================

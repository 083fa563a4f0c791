---------------------------- MODULE MCAuthority ----------------------------
(***************************************************************************)
(* Small rings for TLC: node i has token i, so range i belongs to the      *)
(* first member at or after position i.                                    *)
(***************************************************************************)
EXTENDS Authority

CONSTANTS a1, b1, b2, c1

OneToken == [n \in Nodes |-> {n}]

(* The first member met walking the ring from position i. *)
FirstFrom(i, M) ==
    LET at(k) == ((i + k - 1) % Cardinality(Nodes)) + 1
        first == CHOOSE k \in 0..(Cardinality(Nodes) - 1) :
                    at(k) \in M /\ \A j \in 0..(k - 1) : at(j) \notin M
    IN  at(first)

RingOwner == [i \in Ranges |-> [M \in MemberSets |-> FirstFrom(i, M)]]

ProcessNode ==
    [p \in Procs |-> CASE p = a1 -> 1 [] p \in {b1, b2} -> 2 [] p = c1 -> 3]
=============================================================================

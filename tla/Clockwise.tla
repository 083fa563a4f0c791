------------------------------ MODULE Clockwise ------------------------------
(***************************************************************************)
(* What the hash ring promises: a token belongs to the member whose        *)
(* nearest virtual node is met first going clockwise.  Ring computes       *)
(* placements the way the code does; this is the definition they are       *)
(* checked against, and the one the assumptions of Authority about its     *)
(* ring are proved for.                                                    *)
(***************************************************************************)
EXTENDS Integers

CONSTANTS
    Nodes,      \* node ids; their order is the order of the id strings
    TokenOf,    \* [Nodes -> sets of tokens], the hashes of the virtual nodes
    MaxToken    \* u64::MAX

Tokens == 0..MaxToken

MemberSets == (SUBSET Nodes) \ {{}}

ASSUME RingConstants ==
    /\ Nodes \subseteq Nat
    /\ MaxToken \in Nat
    /\ TokenOf \in [Nodes -> (SUBSET Tokens) \ {{}}]

(* How far clockwise x is from t. *)
Distance(t, x) == (x - t) % (MaxToken + 1)

(* n's virtual node at x is met before m's at y; virtual nodes at the same
   token are met in the order of the ids. *)
MetBefore(t, n, x, m, y) ==
    \/ Distance(t, x) < Distance(t, y)
    \/ Distance(t, x) = Distance(t, y) /\ n <= m

(* n is the first member of M met from t. *)
FirstMet(M, t, n) ==
    \E x \in TokenOf[n] : \A m \in M : \A y \in TokenOf[m] :
        MetBefore(t, n, x, m, y)

ClockwiseOwner(M, t) == CHOOSE n \in M : FirstMet(M, t, n)
=============================================================================

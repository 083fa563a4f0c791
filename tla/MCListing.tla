------------------------------ MODULE MCListing ------------------------------
EXTENDS Listing

(* Node 1 is joined by node 2, with two virtual nodes, and then leaves.  Keys 1 and 2
   share a token; key 4 is in the part that wraps around. *)
MCTokenOf == [k \in Keys |-> CASE k = 1 -> 1 [] k = 2 -> 1 [] k = 3 -> 4 [] OTHER -> 5]
MCAssignments == << {<<2, 1>>}, {<<0, 2>>, <<2, 1>>, <<4, 2>>}, {<<0, 2>>, <<4, 2>>} >>
MCInitially == {Keys, {1}}
=============================================================================

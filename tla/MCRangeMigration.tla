-------------------------- MODULE MCRangeMigration --------------------------
(***************************************************************************)
(* Two keys, of which the first takes two of three mutations.              *)
(***************************************************************************)
EXTENDS RangeMigration

CONSTANTS k1, k2, m1, m2, m3

FirstKeyTwice == [m \in Mutations |-> IF m = m2 THEN k2 ELSE k1]
=============================================================================

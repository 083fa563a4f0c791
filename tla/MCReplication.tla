---------------------------- MODULE MCReplication ----------------------------
(***************************************************************************)
(* One follower and mutations of one key.                                  *)
(***************************************************************************)
EXTENDS Replication

CONSTANTS f1, k1, m1, m2

OneKey == [m \in Mutations |-> k1]
Once == [m \in Mutations |-> 1]
FirstTwice == [m \in Mutations |-> IF m = m1 THEN 2 ELSE 1]
=============================================================================

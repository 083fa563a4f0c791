------------------------------ MODULE MCClient ------------------------------
EXTENDS Client

(* A write that expects absence, and another client's delete of its version. *)
MCRequest ==
    [put |-> [id |-> 1, key |-> 1, kind |-> "put", exp |-> 0, cond |-> 0],
     delete |-> [id |-> 2, key |-> 1, kind |-> "delete", exp |-> 0, cond |-> 1]]
MCAttempts == [put |-> 2, delete |-> 1]
=============================================================================

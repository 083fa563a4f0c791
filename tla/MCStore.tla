------------------------------ MODULE MCStore ------------------------------
EXTENDS Store

Request(i, k, kind, e, c) == [id |-> i, key |-> k, kind |-> kind, exp |-> e, cond |-> c]

(* A write that expects absence and sets a deadline, together with: its own retry, a
   rewrite that keeps the deadline, a write of another key, a delete of the version it
   gets, an expiry-only write, and a call that reuses its id. *)
First == Request(1, 1, "put", 2, 0)
MCOthers ==
    {First, Request(2, 1, "put", Keep, Always), Request(2, 2, "put", 3, Always),
     Request(2, 1, "delete", 0, 1), Request(2, 1, "expire", 3, Always),
     Request(1, 1, "delete", 0, Always)}
MCWorkloads == {<<First, other>> : other \in MCOthers}
MCTokenOf == <<<<1, 2>>, <<2, 2>>, <<2, 3>>>>
MCOwned == [s \in 1..3 |-> {1, 2}]
MCFollowers == <<"f1", "f2">>
=============================================================================

----------------------------- MODULE AtomicStore -----------------------------
(***************************************************************************)
(* What an owner promises for put, delete and set_expiry, whatever its     *)
(* handlers, indices and sweeps do in between: a call takes effect in one  *)
(* step, on the record a get would have returned, at most once per         *)
(* mutation id while the receipt of that id is retained; and every answer  *)
(* is true when it is given.                                               *)
(***************************************************************************)
EXTENDS Integers

CONSTANTS
    Keys,       \* numbers, as are mutation ids
    Calls,      \* calls to the owner: several may carry one mutation id
    Requests,   \* what a call may ask for: [id, key, kind, exp, cond]
    Retention   \* receipt_retention

Ids == {r.id : r \in Requests}

Keep == -1    \* no expiry in the request
Always == -1  \* no precondition
NoVersion == 0

Missing == [ver |-> NoVersion, val |-> NoVersion, exp |-> 0]
NoReceipt == [req |-> [id |-> 0, key |-> 0, kind |-> "none", exp |-> 0, cond |-> 0],
              ver |-> NoVersion, until |-> 0]

VARIABLES
    req,      \* what each call asks for
    now,
    view,     \* what a get of a key returns
    seq,      \* versions given so far
    receipt,  \* the retained receipt of a mutation id
    vers,     \* all versions a mutation id ever got
    call      \* "idle", "open", "bound" to a version it took effect as, or the answer

avars == <<req, now, view, seq, receipt, vers, call>>

Answer(tag, v) == [tag |-> tag, ver |-> v]
Idle == Answer("idle", NoVersion)
Open == Answer("open", NoVersion)
Bound(v) == Answer("bound", v)

Init ==
    /\ req \in [Calls -> Requests]
    /\ now = 1 /\ seq = 0
    /\ view = [k \in Keys |-> Missing]
    /\ receipt = [i \in Ids |-> NoReceipt]
    /\ vers = [i \in Ids |-> {}]
    /\ call = [c \in Calls |-> Idle]

(* An absent key has version 0, so "expects absence" and "expects version v" are
   the same comparison. *)
Holds(cond, v) == cond \in {Always, v}

(* The visible record after a request that got version v. *)
Outcome(r, old, v) ==
    LET exp == IF r.exp = Keep THEN old.exp ELSE r.exp
        new == [ver |-> v, val |-> IF r.kind = "expire" THEN old.val ELSE v, exp |-> exp]
    IN  IF r.kind = "delete" \/ (exp # 0 /\ exp <= now) THEN Missing ELSE new

Start(c) ==
    /\ call[c] = Idle
    /\ call' = [call EXCEPT ![c] = Open]
    /\ UNCHANGED <<req, now, view, seq, receipt, vers>>

TakeEffect(c) ==
    LET r == req[c]
    IN  /\ call[c] = Open
        /\ seq' = seq + 1
        /\ receipt[r.id] = NoReceipt
        /\ Holds(r.cond, view[r.key].ver)
        /\ r.kind = "expire" => view[r.key] # Missing
        /\ view' = [view EXCEPT ![r.key] = Outcome(r, @, seq')]
        /\ receipt' = [receipt EXCEPT ![r.id] =
                          [req |-> r, ver |-> seq', until |-> now + Retention]]
        /\ vers' = [vers EXCEPT ![r.id] = @ \cup {seq'}]
        /\ call' = [call EXCEPT ![c] = Bound(seq')]
        /\ UNCHANGED <<req, now>>

(* The receipt of an earlier attempt answers for this one. *)
Recall(c) ==
    /\ call[c] \in {Idle, Open}
    /\ receipt[req[c].id].req = req[c]
    /\ call' = [call EXCEPT ![c] = Bound(receipt[req[c].id].ver)]
    /\ UNCHANGED <<req, now, view, seq, receipt, vers>>

(* A call that took effect is answered with its version, or not at all clearly.  Any
   other answer is given by a call that had no effect, and is true when it is given. *)
Truthful(c) ==
    LET r == req[c]
        retained == receipt[r.id] # NoReceipt
    IN  IF call[c].tag = "bound"
        THEN {Answer("applied", call[c].ver), Answer("unknown", NoVersion)}
        ELSE {Answer(tag, NoVersion) : tag \in
                {"refused"}
                \cup {t \in {"condition"} : ~ retained /\ ~ Holds(r.cond, view[r.key].ver)}
                \cup {t \in {"missing"} : ~ retained /\ r.kind = "expire"
                                                     /\ view[r.key] = Missing}
                \cup {t \in {"conflict"} : retained /\ receipt[r.id].req # r}}

Reply(c) ==
    /\ call[c].tag \in {"idle", "open", "bound"}
    /\ \E a \in Truthful(c) : call' = [call EXCEPT ![c] = a]
    /\ UNCHANGED <<req, now, view, seq, receipt, vers>>

(* Time passes: deadlines hide records, and receipts are retained no longer. *)
Pass ==
    /\ now' = now + 1
    /\ view' = [k \in Keys |-> IF view[k].exp # 0 /\ view[k].exp <= now' THEN Missing
                               ELSE view[k]]
    /\ receipt' = [i \in Ids |-> IF receipt[i].until <= now' THEN NoReceipt
                                 ELSE receipt[i]]
    /\ UNCHANGED <<req, seq, vers, call>>

Next ==
    \/ \E c \in Calls : Start(c) \/ TakeEffect(c) \/ Recall(c) \/ Reply(c)
    \/ Pass

Spec == Init /\ [][Next]_avars
=============================================================================

------------------------------- MODULE Gateway -------------------------------
(***************************************************************************)
(* The Redis gateway: connections that run their commands in order, and    *)
(* commands that read a key, compute, and write on condition that the key  *)
(* is still as it was read.  Several connections, at one gateway or at     *)
(* several, work on the same keys.                                         *)
(*                                                                         *)
(* The cluster is what Client shows it to be to its caller: a write takes  *)
(* effect once or is rejected or fails; a failure may leave open whether   *)
(* it takes effect, and then it may do so later.                           *)
(*                                                                         *)
(* A value is the sequence of commands that made it, and a flag that says  *)
(* whether it reads as an integer.                                         *)
(***************************************************************************)
EXTENDS Integers, Sequences

CONSTANTS
    Conns,
    GatewayOf,     \* [Conns -> gateways]
    Keys,
    StripeOf,      \* [Keys -> stripes]: stripe of KeyLocks
    Scenarios,     \* the requests that connections may send: [Conns -> Seq(request)]
    RequiresAuth,  \* is a password set?
    MaxValue,      \* max_bulk_bytes, in contributions
    MaxNow,        \* bound on the clock
    MaxFaults      \* bound on failed calls and passed deadlines

Gateways == {GatewayOf[c] : c \in Conns}
Stripes == {StripeOf[k] : k \in Keys}

VARIABLES
    script,     \* the requests of each connection
    now,
    rec,        \* the cluster's records
    late,       \* writes whose outcome a caller does not know
    conn,       \* Connection: authenticated, reply_mode, and the next request
    part,       \* the running command: one part per key it reaches at once
    connected,  \* gateways whose shared client is built
    lock,       \* KeyLocks: [Gateways -> [Stripes -> holder]]
    faults,
    answers,    \* history: the result of each request, whether or not it was written
    sent,       \* history: the requests whose reply was written to the socket
    ideal,      \* history: the records if every command ran at one instant
    wrote,      \* history: the requests one of whose writes took effect
    lost        \* history: values that a RENAME deleted without copying them

history == <<answers, sent, ideal, wrote, lost>>
vars == <<script, now, rec, late, conn, part, connected, lock, faults, history>>

Never == 0        \* no deadline
Keep == -1        \* Expiry::Keep

(* Commands that the connection answers by itself, the ones allowed before AUTH, and
   the ones that only read, that move a key, and that compute from what they read *)
Local == {"auth", "reset", "quit", "ping", "on", "off", "skip"}
PreAuth == {"auth", "reset", "quit"}
Reads == {"get", "mget", "strlen", "exists", "ttl"}
Renames == {"rename", "renamenx"}
Updates == {"getdel", "getex", "set", "setnx", "getset", "append", "incr", "expire", "persist", "del"}
Ops == Local \cup Reads \cup Renames \cup Updates \cup {"mset", "msetnx"}

Requests ==
    [op : Ops, keys : Seq(Keys), int : BOOLEAN, cond : {"none", "nx", "xx", "gt", "lt"},
     get : BOOLEAN, ttl : Nat \cup {Keep}]

(* The table of commands: RENAME takes two keys, and only these take any number of
   them; MSETNX is declined for more than one. *)
Arity(q) ==
    /\ q.op \in Renames => Len(q.keys) = 2
    /\ q.op \notin Local \cup Renames \cup {"mget", "exists", "mset", "del"} => Len(q.keys) = 1

ASSUME GatewayAssumption ==
    /\ RequiresAuth \in BOOLEAN /\ MaxNow \in Nat \ {0} /\ MaxValue \in Nat \ {0}
    /\ Scenarios \subseteq [Conns -> Seq(Requests)]
    /\ \A s \in Scenarios : \A c \in Conns : \A n \in DOMAIN s[c] : Arity(s[c][n])

-----------------------------------------------------------------------------
(* Records and writes. *)

NoValue == [int |-> FALSE, by |-> <<>>]
Missing == [live |-> FALSE, val |-> NoValue, ttl |-> 0, ver |-> 1]
AnyVersion == -1  \* no precondition
IfAbsent == 0     \* Precondition::Absent

(* A record past its deadline is no record. *)
Seen(r) == IF r.live /\ (r.ttl = Never \/ r.ttl > now) THEN r ELSE [Missing EXCEPT !.ver = r.ver]
View(k) == Seen(rec[k])

Holds(w) ==
    \/ w.expect = AnyVersion
    \/ w.expect = IfAbsent /\ ~ View(w.key).live
    \/ View(w.key).live /\ View(w.key).ver = w.expect

(* The record r after a change *)
Changed(r, change) ==
    CASE change.do = "put" ->
            [live |-> TRUE, val |-> change.val, ver |-> r.ver + 1,
             ttl |-> IF change.ttl = Keep THEN Seen(r).ttl ELSE change.ttl]
      [] change.do = "expire" -> [r EXCEPT !.ttl = change.ttl, !.ver = @ + 1]
      [] change.do = "delete" -> [Missing EXCEPT !.ver = r.ver + 1]

-----------------------------------------------------------------------------
(* What a command decides from what it read.  q is the request, by the command. *)

Nil == <<"nil">>
Ok == <<"ok">>
Number(n) == <<"int", n>>
Bulk(cur) == IF cur.live THEN <<"bulk", cur.val>> ELSE Nil

Nothing(reply) == [do |-> "nothing", val |-> NoValue, ttl |-> Never, reply |-> reply]
Refuse == [do |-> "fail", val |-> NoValue, ttl |-> Never, reply |-> Nil]
Put(val, ttl, reply) == [do |-> "put", val |-> val, ttl |-> ttl, reply |-> reply]
Expire(ttl, reply) == [do |-> "expire", val |-> NoValue, ttl |-> ttl, reply |-> reply]
Delete(reply) == [do |-> "delete", val |-> NoValue, ttl |-> Never, reply |-> reply]

Fresh(q, by) == [int |-> q.int, by |-> <<by>>]
Kept(cur) == IF cur.live THEN cur.ttl ELSE Never

GetDel(q, by, cur) == IF cur.live THEN Delete(Bulk(cur)) ELSE Nothing(Nil)

GetEx(q, by, cur) ==
    IF cur.live /\ q.ttl # Keep /\ q.ttl # cur.ttl THEN Expire(q.ttl, Bulk(cur))
    ELSE Nothing(Bulk(cur))

SetAllows(q, cur) == CASE q.cond = "nx" -> ~ cur.live [] q.cond = "xx" -> cur.live [] OTHER -> TRUE
SetDeadline(q, cur) == IF q.ttl = Keep THEN Kept(cur) ELSE q.ttl

(* SET with NX, XX or GET *)
Set(q, by, cur) ==
    LET reply == IF q.get THEN Bulk(cur) ELSE Ok
    IN  IF SetAllows(q, cur) THEN Put(Fresh(q, by), SetDeadline(q, cur), reply)
        ELSE Nothing(IF q.get THEN reply ELSE Nil)

SetNx(q, by, cur) == IF cur.live THEN Nothing(Number(0)) ELSE Put(Fresh(q, by), Never, Number(1))

GetSet(q, by, cur) == Put(Fresh(q, by), Never, Bulk(cur))

(* APPEND *)
AppendTo(q, by, cur) ==
    LET val == [int |-> FALSE, by |-> Append(cur.val.by, by)]
    IN  IF Len(val.by) > MaxValue THEN Refuse
        ELSE Put(val, Kept(cur), Number(Len(val.by)))

(* INCR and its kin; checked_add refuses to overflow. *)
IncrBy(q, by, cur) ==
    LET val == [int |-> TRUE, by |-> Append(cur.val.by, by)]
    IN  IF (cur.live /\ ~ cur.val.int) \/ Len(val.by) > MaxValue THEN Refuse
        ELSE Put(val, Kept(cur), Number(Len(val.by)))

GuardAllows(q, cur) ==
    CASE q.cond = "nx" -> cur.ttl = Never
      [] q.cond = "xx" -> cur.ttl # Never
      [] q.cond = "gt" -> cur.ttl # Never /\ q.ttl > cur.ttl
      [] q.cond = "lt" -> cur.ttl = Never \/ q.ttl < cur.ttl
      [] OTHER -> TRUE

(* EXPIRE: a deadline that is not in the future deletes. *)
ExpireKey(q, by, cur) ==
    IF ~ cur.live \/ ~ GuardAllows(q, cur) THEN Nothing(Number(0))
    ELSE IF q.ttl > now THEN Expire(q.ttl, Number(1)) ELSE Delete(Number(1))

Persist(q, by, cur) ==
    IF cur.live /\ cur.ttl # Never THEN Expire(Never, Number(1)) ELSE Nothing(Number(0))

(* One key of DEL *)
Del(q, by, cur) == IF cur.live THEN Delete(Number(1)) ELSE Nothing(Number(0))

Decide(q, by, cur) ==
    CASE q.op = "getdel" -> GetDel(q, by, cur)
      [] q.op = "getex" -> GetEx(q, by, cur)
      [] q.op = "set" -> Set(q, by, cur)
      [] q.op = "setnx" -> SetNx(q, by, cur)
      [] q.op = "getset" -> GetSet(q, by, cur)
      [] q.op = "append" -> AppendTo(q, by, cur)
      [] q.op = "incr" -> IncrBy(q, by, cur)
      [] q.op = "expire" -> ExpireKey(q, by, cur)
      [] q.op = "persist" -> Persist(q, by, cur)
      [] q.op = "del" -> Del(q, by, cur)

(* -2 is no key at all, -1 a key with no deadline. *)
Ttl(cur) == IF ~ cur.live THEN -2 ELSE IF cur.ttl = Never THEN -1 ELSE cur.ttl - now

(* GET, MGET, STRLEN, EXISTS, TTL *)
ReadReply(q, cur) ==
    CASE q.op \in {"get", "mget"} -> Bulk(cur)
      [] q.op = "strlen" -> Number(Len(cur.val.by))
      [] q.op = "exists" -> Number(IF cur.live THEN 1 ELSE 0)
      [] q.op = "ttl" -> Number(Ttl(cur))

(* How a command reaches the cluster: by reading alone, by one unconditional write,
   by put_if_absent, by a copy and a delete, or by update *)
Way(q) ==
    CASE q.op \in Reads -> "read"
      [] q.op = "mset" \/ (q.op = "set" /\ q.cond = "none" /\ ~ q.get) -> "put"
      [] q.op = "msetnx" -> "absent"
      [] q.op \in Renames -> "rename"
      [] OTHER -> "update"

-----------------------------------------------------------------------------

(* What a request, or one of its parts, is answered *)
Results == {"ok", "err", "noauth", "tryagain", "unknown"}
NoResult == [code |-> "none", reply |-> Nil, should |-> Nil]
NewPart(pc) == [pc |-> pc, cur |-> Missing, change |-> Nothing(Nil), res |-> NoResult]
NoHolder == <<>>

Init ==
    /\ script \in Scenarios
    /\ now = 1
    /\ rec = [k \in Keys |-> Missing] /\ ideal = rec
    /\ late = {} /\ wrote = {} /\ lost = {}
    /\ conn = [c \in Conns |-> [open |-> TRUE, auth |-> ~ RequiresAuth, mode |-> "on",
                                next |-> 1, running |-> FALSE]]
    /\ part = [c \in Conns |-> <<>>]
    /\ connected = {}
    /\ lock = [g \in Gateways |-> [s \in Stripes |-> NoHolder]]
    /\ faults = 0
    /\ answers = [c \in Conns |-> <<>>] /\ sent = [c \in Conns |-> <<>>]

Request(c) == script[c][conn[c].next]
Command(c) == <<c, conn[c].next>>

-----------------------------------------------------------------------------
(* The connection. *)

(* Mistake: SKIP while replies are off turns them on after the next command. *)
SwitchTo_Always(mode, to) == to

(* CLIENT REPLY: SKIP while replies are off changes nothing. *)
SwitchTo(mode, to) == IF to = "skip" /\ mode = "off" THEN mode ELSE to

Switches(q, result) == q.op \in {"on", "off", "skip"} /\ result = "ok"

(* visible: only a reply that the mode lets through is written. *)
Visible(q, mode, result) == IF Switches(q, result) THEN q.op = "on" ELSE mode = "on"

ModeAfter(q, mode, result) ==
    IF Switches(q, result) THEN SwitchTo(mode, q.op) ELSE IF mode = "skip" THEN "on" ELSE mode

(* settle: what a settled request does to the connection *)
Settle(c, cn, result) ==
    /\ conn' = [conn EXCEPT ![c] = [cn EXCEPT
          !.mode = ModeAfter(Request(c), @, result), !.open = Request(c).op # "quit" /\ @,
          !.next = @ + 1, !.running = FALSE]]
    /\ sent' = [sent EXCEPT ![c] =
          IF Visible(Request(c), cn.mode, result) THEN Append(@, cn.next) ELSE @]
    /\ answers' = [answers EXCEPT ![c] = Append(@, result)]
    /\ part' = [part EXCEPT ![c] = <<>>]

(* The next complete command of what the connection has read *)
Ready(c) == conn[c].open /\ ~ conn[c].running /\ conn[c].next <= Len(script[c])

(* execute: a command that needs authentication is refused without it. *)
Refused(c) ==
    /\ Ready(c) /\ ~ conn[c].auth /\ Request(c).op \notin PreAuth
    /\ Settle(c, conn[c], "noauth")
    /\ UNCHANGED <<script, now, rec, late, connected, lock, faults, ideal, wrote, lost>>

(* local: AUTH or HELLO, RESET, QUIT, PING, CLIENT REPLY *)
RunLocal(c) ==
    LET op == Request(c).op
        cn == CASE op = "auth" -> [conn[c] EXCEPT !.auth = RequiresAuth \/ @]
                [] op = "reset" -> [conn[c] EXCEPT !.auth = ~ RequiresAuth, !.mode = "on"]
                [] OTHER -> conn[c]
    IN  /\ Ready(c) /\ op \in Local /\ (conn[c].auth \/ op \in PreAuth)
        /\ Settle(c, cn, IF op = "auth" /\ ~ RequiresAuth THEN "err" ELSE "ok")
        /\ UNCHANGED <<script, now, rec, late, connected, lock, faults, ideal, wrote, lost>>

FirstStep(q) ==
    CASE Way(q) \in {"read", "rename"} -> "read"
      [] Way(q) \in {"put", "absent"} -> "write"
      [] OTHER -> "lock"

(* cluster: a part for each key; a RENAME is one part for both of its keys. *)
Parts(q) == IF q.op \in Renames THEN 1 ELSE Len(q.keys)

Run(c) ==
    LET q == Request(c)
        first == [NewPart(FirstStep(q)) EXCEPT
                    !.change = IF FirstStep(q) = "write"
                               THEN Put(Fresh(q, Command(c)), q.ttl,
                                        IF q.op = "msetnx" THEN Number(1) ELSE Ok)
                               ELSE @]
    IN  /\ Ready(c) /\ q.op \notin Local /\ conn[c].auth
        /\ conn' = [conn EXCEPT ![c].running = TRUE]
        /\ part' = [part EXCEPT ![c] = [i \in 1..Parts(q) |-> first]]
        /\ UNCHANGED <<script, now, rec, late, connected, lock, faults, history>>

(* SharedClient::get: the client is built on first use and shared. *)
Connect(g) ==
    /\ g \notin connected
    /\ connected' = connected \cup {g}
    /\ UNCHANGED <<script, now, rec, late, conn, part, lock, faults, history>>

-----------------------------------------------------------------------------
(* The parts of a command. *)

KeyOf(c, i) == Request(c).keys[i]
Stripe(c, i) == StripeOf[KeyOf(c, i)]
Unlocked(held, c) ==
    [held EXCEPT ![GatewayOf[c]] = [s \in Stripes |-> IF @[s] # NoHolder /\ Head(@[s]) = c THEN NoHolder ELSE @[s]]]
Released(held, c, i) ==
    [held EXCEPT ![GatewayOf[c]] = [s \in Stripes |-> IF @[s] = <<c, i>> THEN NoHolder ELSE @[s]]]

Result(code, reply, should) == [code |-> code, reply |-> reply, should |-> should]

(* A part that is done lets its stripe go. *)
Done(c, i, result) ==
    /\ part' = [part EXCEPT ![c][i] = [NewPart("done") EXCEPT !.res = result]]
    /\ lock' = Released(lock, c, i)

Goto(c, i, p) == part' = [part EXCEPT ![c][i] = p] /\ lock' = lock

At(c, i, pc) == conn[c].running /\ part[c][i].pc = pc

(* KeyLocks::lock *)
Lock(c, i) ==
    /\ At(c, i, "lock") /\ lock[GatewayOf[c]][Stripe(c, i)] = NoHolder
    /\ lock' = [lock EXCEPT ![GatewayOf[c]][Stripe(c, i)] = <<c, i>>]
    /\ part' = [part EXCEPT ![c][i].pc = "read"]
    /\ UNCHANGED <<script, now, rec, late, conn, connected, faults, history>>

(* read_with, and what the command makes of it *)
Read(c, i) ==
    LET q == Request(c)
        cur == View(KeyOf(c, i))
        d == Decide(q, Command(c), cur)
    IN  /\ At(c, i, "read") /\ GatewayOf[c] \in connected
        /\ CASE Way(q) = "read" ->
                  Done(c, i, Result("ok", ReadReply(q, cur), ReadReply(q, cur)))
             [] Way(q) = "rename" /\ ~ cur.live -> Done(c, i, Result("err", Nil, Nil))
             [] Way(q) = "rename" /\ cur.live /\ q.keys[1] = q.keys[2] ->
                  Done(c, i, Result("ok", Nil, Nil))
             [] Way(q) = "rename" /\ cur.live /\ q.keys[1] # q.keys[2] ->
                  Goto(c, i, [NewPart("write") EXCEPT
                      !.cur = cur, !.change = Put(cur.val, cur.ttl, Ok)])
             [] Way(q) = "update" /\ d.do = "fail" -> Done(c, i, Result("err", Nil, Nil))
             [] Way(q) = "update" /\ d.do = "nothing" ->
                  Done(c, i, Result("ok", d.reply, d.reply))
             [] OTHER -> Goto(c, i, [NewPart("write") EXCEPT !.cur = cur, !.change = d])
        /\ UNCHANGED <<script, now, rec, late, conn, connected, faults, history>>

(* Mistake: what was computed is written over whatever is there by now. *)
Expected_Any(q, p) == IF q.op \in {"msetnx", "renamenx"} THEN IfAbsent ELSE AnyVersion

(* The precondition of a part's write *)
Expected(q, p) ==
    CASE q.op \in {"msetnx", "renamenx"} -> IfAbsent
      [] Way(q) = "update" -> IF p.cur.live THEN p.cur.ver ELSE IfAbsent
      [] OTHER -> AnyVersion

(* Mistake: RENAME deletes its source, whatever it holds by now. *)
ExpectedOfDelete_Any(p) == AnyVersion

(* ... and of the delete that ends a RENAME *)
ExpectedOfDelete(p) == p.cur.ver

(* The write that part p is about to send, the i-th of command by *)
WriteFor(q, by, i, p) ==
    IF p.pc = "delete"
    THEN [key |-> q.keys[1], change |-> Delete(Ok), expect |-> ExpectedOfDelete(p),
          cmd |-> by, copied |-> p.cur.val]
    ELSE [key |-> IF q.op \in Renames THEN q.keys[2] ELSE q.keys[i], change |-> p.change,
          expect |-> Expected(q, p), cmd |-> by, copied |-> NoValue]

WriteOf(c, i) == WriteFor(Request(c), Command(c), i, part[c][i])

RequestOf(w) == script[w.cmd[1]][w.cmd[2]]

(* What the command would decide at this instant *)
Ideal(w) ==
    IF Way(RequestOf(w)) = "update" THEN Decide(RequestOf(w), w.cmd, Seen(ideal[w.key]))
    ELSE w.change

TakeEffect(w) ==
    /\ rec' = [rec EXCEPT ![w.key] = Changed(@, w.change)]
    /\ ideal' = [ideal EXCEPT ![w.key] =
          IF Ideal(w).do \in {"nothing", "fail"} THEN @ ELSE Changed(@, Ideal(w))]
    /\ wrote' = wrote \cup {w.cmd}
    /\ lost' = IF w.copied # NoValue /\ View(w.key).live /\ View(w.key).val # w.copied
               THEN lost \cup {View(w.key).val} ELSE lost

Writing(c, i) == (At(c, i, "write") \/ At(c, i, "delete")) /\ GatewayOf[c] \in connected

(* A write takes effect and its caller is told; a RENAME goes on to the delete. *)
WriteApplies(c, i) ==
    LET p == part[c][i]
        w == WriteOf(c, i)
    IN  /\ Writing(c, i) /\ Holds(w)
        /\ TakeEffect(w)
        /\ IF Request(c).op \in Renames /\ p.pc = "write"
           THEN Goto(c, i, [p EXCEPT !.pc = "delete"])
           ELSE Done(c, i, Result("ok", w.change.reply, Ideal(w).reply))
        /\ UNCHANGED <<script, now, late, conn, connected, faults, answers, sent>>

(* The precondition fails: update reads again, put_if_absent and RENAMENX answer zero,
   and a RENAME whose source changed reports an error. *)
WriteRejected(c, i) ==
    LET q == Request(c)
        p == part[c][i]
    IN  /\ Writing(c, i) /\ ~ Holds(WriteOf(c, i))
        /\ CASE Way(q) = "update" -> Goto(c, i, NewPart("read"))
             [] p.pc = "delete" -> Done(c, i, Result("err", Nil, Nil))
             [] OTHER -> Done(c, i, Result("ok", Number(0), Number(0)))
        /\ UNCHANGED <<script, now, rec, late, conn, connected, faults, history>>

(* A call fails: a read, a connection or a write that was not applied asks the caller
   to try again; a write that may have been applied says so.  The failures that are
   definite and permanent (OOM, CLUSTERDOWN, ERR) answer less than TRYAGAIN does, which
   invites the caller to send the command again, and stand under it. *)
CallFails(c, i) ==
    /\ faults < MaxFaults /\ faults' = faults + 1
    /\ \/ /\ Writing(c, i) /\ late' = late \cup {WriteOf(c, i)}
          /\ Done(c, i, Result("unknown", Nil, Nil))
       \/ /\ At(c, i, "read") \/ At(c, i, "write") \/ At(c, i, "delete")
          /\ Done(c, i, Result("tryagain", Nil, Nil))
          /\ late' = late
    /\ UNCHANGED <<script, now, rec, conn, connected, history>>

(* A write that nobody waits for any more takes effect, if its precondition holds. *)
LateWrite(w) ==
    /\ w \in late /\ late' = late \ {w}
    /\ Holds(w) /\ TakeEffect(w)
    /\ UNCHANGED <<script, now, conn, part, connected, lock, faults, answers, sent>>

Codes(c) == {part[c][i].res.code : i \in DOMAIN part[c]}

(* Mistake: a failed multi-key write answers with its first key's error. *)
PartialWriteOutcome_First(c, first) == first

(* partial_write_outcome: a retryable error only if no key was written *)
PartialWriteOutcome(c, first) == IF {"ok", "unknown"} \cap Codes(c) # {} THEN "unknown" ELSE first

(* each and each_write: the first failing key in argument order fails the command. *)
Outcome(c, result) ==
    LET failed == {i \in DOMAIN part[c] : part[c][i].res.code # "ok"}
    IN  \/ failed = {} /\ result = "ok"
        \/ \E i \in failed :
              /\ \A j \in failed : i <= j
              /\ result = IF Request(c).op \in {"mset", "del"}
                          THEN PartialWriteOutcome(c, part[c][i].res.code)
                          ELSE part[c][i].res.code

Finish(c) ==
    /\ conn[c].running /\ \A i \in DOMAIN part[c] : part[c][i].pc = "done"
    /\ \E result \in Results : Outcome(c, result) /\ Settle(c, conn[c], result)
    /\ UNCHANGED <<script, now, rec, late, connected, lock, faults, ideal, wrote, lost>>

(* Mistake: a command that is cut off keeps its stripes. *)
CutOff_KeepsLocks(c) == lock

(* The guards of a future that is dropped are dropped with it. *)
CutOff(c) == Unlocked(lock, c)

(* execute: the command deadline cuts the command off wherever it is; a write that it
   had sent may still take effect. *)
Deadline(c) ==
    /\ conn[c].running /\ faults < MaxFaults /\ faults' = faults + 1
    /\ late' = late \cup {WriteOf(c, i) : i \in {i \in DOMAIN part[c] : Writing(c, i)}}
    /\ lock' = CutOff(c)
    /\ Settle(c, conn[c], IF Request(c).op \in Reads THEN "tryagain" ELSE "unknown")
    /\ UNCHANGED <<script, now, rec, connected, ideal, wrote, lost>>

(* The clock, which only requests with deadlines look at *)
Tick ==
    /\ now < MaxNow /\ now' = now + 1
    /\ \E c \in Conns : \E n \in DOMAIN script[c] : script[c][n].ttl > 0
    /\ UNCHANGED <<script, rec, late, conn, part, connected, lock, faults, history>>

PartStep(c) ==
    \E i \in DOMAIN part[c] :
        Lock(c, i) \/ Read(c, i) \/ WriteApplies(c, i) \/ WriteRejected(c, i)

Progress(c) == Refused(c) \/ RunLocal(c) \/ Run(c) \/ PartStep(c) \/ Finish(c)

Work == (\E c \in Conns : Progress(c)) \/ (\E g \in Gateways : Connect(g))

Next ==
    \/ Work
    \/ \E c \in Conns : Deadline(c) \/ \E i \in DOMAIN part[c] : CallFails(c, i)
    \/ \E w \in late : LateWrite(w)
    \/ Tick

Spec == Init /\ [][Next]_vars

(* As long as a connection's task can go on, some task does. *)
FairSpec == Spec /\ WF_vars(Work)

-----------------------------------------------------------------------------
(* Properties. *)

TypeOK ==
    /\ now \in 1..MaxNow /\ \A cmd \in wrote : cmd[2] \in DOMAIN script[cmd[1]]
    /\ \A c \in Conns :
          /\ conn[c].mode \in {"on", "off", "skip"}
          /\ \A n \in DOMAIN answers[c] : answers[c][n] \in Results
    /\ \A k \in Keys : Len(rec[k].val.by) <= MaxValue

(* Every command that computes from what it read is atomic against every writer: each
   key holds, and each such command answers, what it would if the command had run
   alone at the instant its write took effect, through whatever gateways and retries. *)
CommandsAreAtomic ==
    /\ \A k \in Keys : Seen(rec[k]) = Seen(ideal[k])
    /\ \A c \in Conns : \A i \in DOMAIN part[c] :
          part[c][i].res.reply = part[c][i].res.should

(* A command on several keys that is answered with TRYAGAIN has written none of them,
   and no write of it takes effect later: it can be sent again. *)
MultiKeyRetryIsSafe ==
    \A c \in Conns : \A n \in DOMAIN answers[c] :
        answers[c][n] = "tryagain" /\ script[c][n].op \notin Renames => <<c, n>> \notin wrote

(* The same of every command, RENAME included, as the compatibility document has it:
   a command that failed after writing a key is never answered with TRYAGAIN. *)
RetryIsSafe ==
    \A c \in Conns : \A n \in DOMAIN answers[c] :
        answers[c][n] = "tryagain" => <<c, n>> \notin wrote

(* A RENAME deletes no value but the one it has copied, whoever writes the source in
   between and however late its delete arrives. *)
RenameLosesNothing == lost = {}

(* Which replies a pipeline of requests gets, by what CLIENT REPLY promises: OFF is
   silent until ON or RESET; SKIP silences itself and one command. *)
TookOff(c, n) == script[c][n].op = "off" /\ answers[c][n] = "ok"
TookSkip(c, n) == script[c][n].op = "skip" /\ answers[c][n] = "ok"
TookOn(c, n) == script[c][n].op \in {"on", "reset"} /\ answers[c][n] = "ok"
TurnedOff(c, n) ==
    \E m \in 1..(n - 1) : TookOff(c, m) /\ \A j \in (m + 1)..(n - 1) : ~ TookOn(c, j)
Skipped(c, n) == n > 1 /\ TookSkip(c, n - 1)
Silent(c, n) ==
    \/ TookOff(c, n) \/ TookSkip(c, n)
    \/ (TurnedOff(c, n) \/ Skipped(c, n)) /\ ~ TookOn(c, n)

Increasing(s) == \A i, j \in DOMAIN s : i < j => s[i] < s[j]
Elements(s) == {s[i] : i \in DOMAIN s}
InOrder(c) ==
    Increasing(sent[c]) /\ Elements(sent[c]) = {n \in DOMAIN answers[c] : ~ Silent(c, n)}

(* Every request is answered once and in order, unless CLIENT REPLY silenced it.
   All variables keep their types. *)
RepliesFollowRequests == TypeOK /\ \A c \in Conns : InOrder(c)

(* Every command of a pipeline is answered: no command waits forever for a stripe or
   goes on retrying against others, and what a deadline cut off holds nobody up. *)
CommandsReturn == <>(\A c \in Conns : conn[c].next > Len(script[c]) \/ ~ conn[c].open)

-----------------------------------------------------------------------------
(* The inductive invariants of GatewayProofs. *)

ConnType ==
    [open : BOOLEAN, auth : BOOLEAN, mode : {"on", "off", "skip"}, next : Nat, running : BOOLEAN]

ConnInv ==
    /\ script \in Scenarios /\ now \in 1..MaxNow /\ conn \in [Conns -> ConnType]
    /\ answers \in [Conns -> Seq(Results)] /\ sent \in [Conns -> Seq(Nat)]
    /\ \A c \in Conns :
          /\ conn[c].next = Len(answers[c]) + 1 /\ Len(answers[c]) <= Len(script[c])
          /\ conn[c].running => conn[c].next <= Len(script[c]) /\ Request(c).op \notin Local

(* The mode is what the requests answered so far have made it. *)
ReplyInv ==
    \A c \in Conns :
        /\ InOrder(c)
        /\ conn[c].mode = IF TurnedOff(c, conn[c].next) THEN "off"
                          ELSE IF Skipped(c, conn[c].next) THEN "skip" ELSE "on"

IsValue(v) == v \in [int : BOOLEAN, by : Seq(Conns \X Nat)] /\ Len(v.by) <= MaxValue
IsRecord(r) ==
    /\ DOMAIN r = {"live", "val", "ttl", "ver"}
    /\ r.live \in BOOLEAN /\ IsValue(r.val) /\ r.ttl \in Int /\ r.ver \in Nat \ {0}

(* What was decided earlier does what deciding it now would: an expiry whose time has
   come deletes. *)
Agrees(change, d) ==
    \/ change = d
    \/ /\ change.do = "expire" /\ change.ttl # Never /\ change.ttl <= now
       /\ d = Delete(change.reply)

(* A write of update goes through only where it is what the command decides now. *)
Decided(w) ==
    \/ w.expect = IfAbsent /\ Agrees(w.change, Decide(RequestOf(w), w.cmd, Missing))
    \/ /\ w.expect \in 1..rec[w.key].ver
       /\ w.expect = rec[w.key].ver /\ View(w.key).live =>
             Agrees(w.change, Decide(RequestOf(w), w.cmd, View(w.key)))

(* Version ver of key k holds val, if it is still there. *)
Held(k, ver, val) == ver \in 1..rec[k].ver /\ (rec[k].ver = ver => rec[k].val = val)

IsCommand(cmd) == \E c \in Conns : \E n \in DOMAIN script[c] : cmd = <<c, n>>

WriteOK(w) ==
    /\ w.key \in Keys /\ IsCommand(w.cmd) /\ RequestOf(w).op \notin Local \cup Reads
    /\ w.change.do \in {"put", "expire", "delete"}
    /\ IsValue(w.change.val) /\ w.change.ttl \in Int
    /\ IF Way(RequestOf(w)) = "update" THEN Decided(w) ELSE w.change.do # "expire"
    /\ w.copied # NoValue => Held(w.key, w.expect, w.copied)

PartOK(q, by, i, p) ==
    /\ DOMAIN p = {"pc", "cur", "change", "res"}
    /\ p.pc \in {"lock", "read", "write", "delete", "done"}
    /\ p.res.reply = p.res.should
    /\ p.res.code \in IF p.pc = "done" THEN Results ELSE {"none"}
    /\ p.pc = "lock" => Way(q) = "update"
    /\ p.pc = "read" => Way(q) \in {"read", "rename", "update"}
    /\ p.pc = "delete" => q.op \in Renames
    /\ p.pc \in {"write", "delete"} =>
          /\ WriteOK(WriteFor(q, by, i, p))
          /\ q.op \in Renames => Held(q.keys[1], p.cur.ver, p.cur.val)

PartInv ==
    /\ DOMAIN part = Conns
    /\ \A c \in Conns : \A i \in DOMAIN part[c] :
          /\ conn[c].running /\ i \in 1..Parts(Request(c))
          /\ PartOK(Request(c), Command(c), i, part[c][i])

RecordInv ==
    /\ DOMAIN rec = Keys /\ DOMAIN ideal = Keys /\ lost = {}
    /\ \A k \in Keys : IsRecord(rec[k]) /\ IsRecord(ideal[k]) /\ Seen(rec[k]) = Seen(ideal[k])
    /\ \A w \in late : WriteOK(w)

(* The writes of a command that have taken effect, or still may, are known to it. *)
Reached(cmd) == cmd \in wrote \/ \E w \in late : w.cmd = cmd
Known(c, n) ==
    /\ script[c][n].op \notin Local \cup Reads
    /\ \/ script[c][n].op \in Renames
       \/ n < conn[c].next /\ answers[c][n] # "tryagain"
       \/ /\ n = conn[c].next
          /\ \E i \in DOMAIN part[c] : part[c][i].res.code \in {"ok", "unknown"}
RetryInv ==
    /\ \A cmd \in wrote : IsCommand(cmd)
    /\ \A c \in Conns : \A n \in DOMAIN script[c] : Reached(<<c, n>>) => Known(c, n)

GatewayInv == ConnInv /\ ReplyInv /\ RecordInv /\ PartInv /\ RetryInv
=============================================================================

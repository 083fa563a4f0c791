------------------------------- MODULE Store -------------------------------
(***************************************************************************)
(* The record and receipt store of one owner during one epoch: put, delete *)
(* and set_expiry as the two locked sections their handlers are, the wait  *)
(* for acknowledgements, the token and expiry indices, the byte budget of  *)
(* the receipts, the stream sequences a refused reservation takes back,    *)
(* the sweep of expired records, and a range the node is moving out.       *)
(*                                                                         *)
(* A version is its owner_sequence and a value is the version that first   *)
(* carried it.  One clock stands for the node's Instant and wall clock.    *)
(***************************************************************************)
EXTENDS Integers, Sequences, FiniteSetsExt

CONSTANTS
    Keys,          \* numbers
    Calls,
    Requests,      \* [id, key, kind, exp, cond]; equal requests fingerprint equally
    Workloads,     \* [Calls -> Requests]: what calls that overlap may ask for
    Retention,     \* receipt_retention
    Seeds,         \* hash seeds
    TokenOf,       \* [Seeds -> [Keys -> token]]
    Owned,         \* [Seeds -> tokens this node owns]
    MovingRange,   \* tokens of the range a source migration moves
    Followers,     \* a sequence: the placement without the owner
    Required,      \* followers the write_ack_policy names
    ReceiptBytes,  \* dedup_retained_bytes
    AckBytes,      \* required_ack_entry_bytes
    MaxDedupBytes,
    MaxJournal,    \* entries max_journal_bytes has room for
    QueueCap,      \* replication_stream_queue_capacity
    MaxKeysPerToken,
    SweepLimit,    \* EXPIRY_SWEEP_LIMIT
    MaxNow,        \* bound on the clock
    MaxMoves       \* bound on reseeds, source migrations and fences

ASSUME StoreAssumption ==
    /\ Keys \subseteq Nat \ {0}
    /\ Required \subseteq {Followers[i] : i \in DOMAIN Followers}
    /\ Retention \in Nat \ {0} /\ SweepLimit \in Nat \ {0}
    /\ ReceiptBytes \in Nat /\ AckBytes \in Nat /\ MaxDedupBytes \in Nat
    /\ IsFiniteSet(Requests) /\ IsFiniteSet(Required)
    /\ QueueCap \in Nat /\ MaxNow \in Nat \ {0} /\ Min(Seeds) \in Seeds
    /\ Workloads \subseteq [Calls -> Requests]
    /\ \A r \in Requests : r.key \in Keys /\ r.exp \in Int

VARIABLES
    now,
    seed,      \* hash_seed of the installed topology
    mode,      \* may the owner write: "open", "fenced", or "leaseless"
    rec,       \* records
    byToken,   \* records_by_token
    expiring,  \* record_expirations
    source,    \* the source migration, if any; current: no reseed since it was prepared
    next,      \* next_sequence
    dedup,     \* receipts by mutation id
    dedupByToken,
    heap,      \* dedup_expirations
    bytes,     \* dedup_bytes
    stream,    \* owner_stream_sequences
    queue,     \* stream sequences dispatched and not yet acknowledged
    acked,     \* ack_progress
    req,       \* what each call asks for
    call,      \* the handler of each call
    vers,      \* history: the versions a mutation id got
    moves

records == <<rec, byToken, expiring>>
receipts == <<dedup, dedupByToken, heap, bytes>>
streams == <<stream, queue, acked>>
vars == <<now, seed, mode, rec, byToken, expiring, source, next, dedup, dedupByToken,
          heap, bytes, stream, queue, acked, req, call, vers, moves>>

FollowerSet == {Followers[i] : i \in DOMAIN Followers}
Ids == {r.id : r \in Requests}
Keep == -1
Always == -1

NoRecord == [ver |-> 0, val |-> 0, del |-> FALSE, exp |-> 0]
NoEntry == [req |-> [id |-> 0, key |-> 0, kind |-> "none", exp |-> 0, cond |-> 0],
            ver |-> 0, until |-> 0, bytes |-> 0, acks |-> {}]
NoSource == [on |-> FALSE, paused |-> FALSE, copy |-> [k \in Keys |-> 0],
             journal |-> 0, deferred |-> {}, current |-> TRUE]
(* pc: idle, ready (followers were checked under the read lock), wait, done *)
Handler(pc, tag, v, need) == [pc |-> pc, tag |-> tag, ver |-> v, need |-> need, seed |-> seed]
Answered(tag, v) == Handler("done", tag, v, {})

Init ==
    /\ now = 1 /\ seed = Min(Seeds) /\ mode = "open"
    /\ rec = [k \in Keys |-> NoRecord] /\ byToken = {} /\ expiring = {}
    /\ source = NoSource /\ next = 0
    /\ dedup = [i \in Ids |-> NoEntry] /\ dedupByToken = {} /\ heap = {} /\ bytes = 0
    /\ stream = [f \in FollowerSet |-> 0]
    /\ queue = [f \in FollowerSet |-> <<>>]
    /\ acked = [f \in FollowerSet |-> 0]
    /\ req \in Workloads
    /\ call = [c \in Calls |-> Handler("idle", "none", 0, {})]
    /\ vers = [i \in Ids |-> {}] /\ moves = 0

-----------------------------------------------------------------------------
(* Records and their indices. *)

token_of(k) == TokenOf[seed][k]
Present(k) == rec[k].ver # 0

(* is_expired, and what a read, a precondition or KEEPTTL may see *)
Lapsed(k) == rec[k].exp # 0 /\ rec[k].exp <= now
Live(k) == Present(k) /\ ~ rec[k].del /\ ~ Lapsed(k)
LiveVersion(k) == IF Live(k) THEN rec[k].ver ELSE 0

Schedule(k, exp) == IF exp = 0 THEN {} ELSE {<<exp, k>>}

(* Mistake: only the index is searched. *)
Forget_IndexOnly(k) == [index |-> expiring \ Schedule(k, rec[k].exp),
                        deferred |-> source.deferred]
(* forget_expiration: the entry waits in the index or with the migration that
   deferred it. *)
Forget(k) == [index |-> expiring \ Schedule(k, rec[k].exp),
              deferred |-> source.deferred \ Schedule(k, rec[k].exp)]

(* insert_record, and the journal of a source that covers the key's token. *)
InsertRecord(k, new, token) ==
    LET moving == source.on /\ token \in MovingRange
        left == Forget(k)
    IN  /\ rec' = [rec EXCEPT ![k] = new]
        /\ byToken' = byToken \cup {<<token_of(k), k>>}
        /\ expiring' = left.index \cup Schedule(k, new.exp)
        /\ source' = [source EXCEPT
              !.deferred = left.deferred,
              !.copy[k] = IF moving THEN new.ver ELSE @,
              !.journal = IF moving THEN @ + 1 ELSE @]

(* sweep_expired_records: up to SweepLimit due entries, the earliest first.  A
   record of a moving range is deferred, any other is removed. *)
DueEntries == {e \in expiring : e[1] <= now}
SweepBatch(S) ==
    /\ S \subseteq DueEntries /\ S # {}
    /\ Cardinality(S) = Min({SweepLimit, Cardinality(DueEntries)})
    /\ \A e \in S, o \in DueEntries \ S : e[1] <= o[1]

Sweep(S) ==
    LET moving(k) == source.on /\ token_of(k) \in MovingRange
        gone == {e[2] : e \in {e \in S : ~ moving(e[2])}}
    IN  /\ SweepBatch(S)
        /\ expiring' = expiring \ S
        /\ source' = [source EXCEPT !.deferred = @ \cup {e \in S : moving(e[2])}]
        /\ rec' = [k \in Keys |-> IF k \in gone THEN NoRecord ELSE rec[k]]
        /\ byToken' = byToken \ {<<token_of(k), k>> : k \in gone}
        /\ UNCHANGED <<req, now, seed, mode, next, receipts, streams, call, vers, moves>>

-----------------------------------------------------------------------------
(* Receipts. *)

(* purge_expired_dedup pops the heap; an id goes only if its receipt is due. *)
Popped == {e \in heap : e[1] <= now}
Purged == {e[2] : e \in {e \in Popped : dedup[e[2]].ver # 0 /\ dedup[e[2]].until <= now}}

(* What the receipts of S are charged: their bytes, counted. *)
Charged(d, S) == UNION {{i} \X (1..d[i].bytes) : i \in S}
SumBytes(d, S) == Cardinality(Charged(d, S))

KeptReceipts == [i \in Ids |-> IF i \in Purged THEN NoEntry ELSE dedup[i]]
KeptIndex == dedupByToken \ {<<token_of(dedup[i].req.key), i>> : i \in Purged}
KeptBytes == bytes - SumBytes(dedup, Purged)

Purge ==
    /\ dedup' = KeptReceipts /\ dedupByToken' = KeptIndex
    /\ heap' = heap \ Popped /\ bytes' = KeptBytes

(* insert_dedup after the purge, with the acknowledgements charged to it. *)
InsertReceipt(r, v, need) ==
    LET cost == ReceiptBytes + AckBytes * Cardinality(need)
        kept == KeptReceipts[r.id]
    IN  /\ dedup' = [KeptReceipts EXCEPT ![r.id] =
              [req |-> r, ver |-> v, until |-> now + Retention, bytes |-> cost,
               acks |-> need]]
        /\ dedupByToken' = KeptIndex \cup {<<token_of(r.key), r.id>>}
        /\ heap' = (heap \ Popped) \cup {<<now + Retention, r.id>>}
        /\ bytes' = KeptBytes - kept.bytes + cost

(* Mistake: the charge a waiter knows of is given back by each of the waiters. *)
CompleteAcks_EachWaiter(i, v) ==
    LET cost == AckBytes * Cardinality(Required)
    IN  /\ dedup' = IF dedup[i].ver = v THEN [dedup EXCEPT ![i].acks = {}] ELSE dedup
        /\ bytes' = IF dedup[i].ver = v THEN bytes - cost ELSE bytes
        /\ UNCHANGED <<dedupByToken, heap>>
(* complete_required_acks: once, and only for the receipt that was waited for. *)
CompleteAcks(i, v) ==
    LET e == dedup[i]
        due == e.ver = v /\ e.acks # {}
        cost == AckBytes * Cardinality(e.acks)
    IN  /\ dedup' = IF due THEN [dedup EXCEPT ![i].acks = {}, ![i].bytes = @ - cost]
                    ELSE dedup
        /\ bytes' = IF due THEN bytes - cost ELSE bytes
        /\ UNCHANGED <<dedupByToken, heap>>

-----------------------------------------------------------------------------
(* put, delete and set_expiry. *)

(* owner_error and lease_error for a token *)
Refuses(token) == token \notin Owned[seed] \/ mode = "leaseless"

(* The first locked section: ownership, then a receipt that is not yet due, then
   the followers the write will wait for (ready_followers may also refuse). *)
BeginCall(c) ==
    LET r == req[c]
        e == dedup[r.id]
        hit == e.ver # 0 /\ e.until > now
        outcomes ==
            IF Refuses(token_of(r.key)) THEN {Answered("refused", 0)}
            ELSE IF hit /\ e.req # r THEN {Answered("conflict", 0)}
            ELSE IF hit THEN {Handler("wait", "none", e.ver, e.acks)}
            ELSE {Answered("refused", 0), Handler("ready", "none", 0, {})}
    IN  /\ call[c].pc = "idle"
        /\ \E h \in outcomes : call' = [call EXCEPT ![c] = h]
        /\ UNCHANGED <<req, now, seed, mode, records, source, next, receipts, streams, vers,
                       moves>>

(* The deadline the new record carries: a write that names none keeps the one of
   the live record it replaces. *)
NewDeadline(r) ==
    IF r.kind = "delete" THEN 0
    ELSE IF r.exp # Keep THEN r.exp
    ELSE IF Live(r.key) THEN rec[r.key].exp ELSE 0

NewRecord(r) ==
    [ver |-> next + 1,
     val |-> IF r.kind = "expire" THEN rec[r.key].val ELSE next + 1,
     del |-> r.kind = "delete", exp |-> NewDeadline(r)]

(* Mistake: the token computed under the read lock is trusted. *)
Rerouted_Never(h) == FALSE

(* A reseed since the first section: the token h was routed by is another ring's. *)
Rerouted(h) == h.seed # seed

(* Mistake: receipts are looked up under the read lock only. *)
Retained_Unseen(i) == FALSE

(* A receipt that an overlapping attempt left since the first section. *)
Retained(i) == KeptReceipts[i].ver # 0

BucketSize(token) == Cardinality({e \in byToken : e[1] = token})

(* What refuses a write before it reaches the streams, in the handler's order;
   "none" when nothing does.  h is the call's handler.  The mode "fenced" is a policy
   fence, or a destination range whose writes are not activated yet. *)
Refusal(r, h) ==
    LET token == TokenOf[h.seed][r.key]
        cost == ReceiptBytes + AckBytes * Cardinality(Required)
    IN  IF Refuses(token) \/ Rerouted(h) THEN "refused"
        ELSE IF Retained(r.id) /\ KeptReceipts[r.id].req # r THEN "conflict"
        ELSE IF r.cond \notin {Always, LiveVersion(r.key)} THEN "condition"
        ELSE IF r.kind # "delete" /\ ~ Present(r.key)
                /\ BucketSize(token_of(r.key)) >= MaxKeysPerToken THEN "refused"
        ELSE IF r.kind = "expire" /\ ~ Live(r.key) THEN "missing"
        ELSE IF \/ KeptBytes + cost > MaxDedupBytes
                \/ mode = "fenced"
                \/ source.on /\ token \in MovingRange
                      /\ (source.paused \/ source.journal >= MaxJournal) THEN "refused"
        ELSE "none"

(* reserve asks the streams in order and stops at the first without room. *)
Reserved == \A f \in FollowerSet : Len(queue[f]) < QueueCap

(* prepare_replication_entries numbers the entry for every follower;
   rollback_replication_sequences takes all of the numbers back. *)
Prepared == [f \in FollowerSet |-> stream[f] + 1]
(* Mistake: only the streams that were asked are taken back. *)
RolledBack_AskedOnly ==
    LET asked == {i \in DOMAIN Followers :
                    \A j \in 1..(i - 1) : Len(queue[Followers[j]]) < QueueCap}
    IN  [f \in FollowerSet |-> IF \E i \in asked : Followers[i] = f THEN stream[f]
                               ELSE Prepared[f]]
RolledBack == [f \in FollowerSet |-> Prepared[f] - 1]

FindReceipt(c) ==
    LET r == req[c]
        e == KeptReceipts[r.id]
    IN  /\ call[c].pc = "ready"
        /\ ~ Refuses(TokenOf[call[c].seed][r.key]) /\ ~ Rerouted(call[c])
        /\ Retained(r.id) /\ e.req = r
        /\ call' = [call EXCEPT ![c] = Handler("wait", "none", e.ver, e.acks)]
        /\ Purge
        /\ UNCHANGED <<req, now, seed, mode, records, source, next, streams, vers, moves>>

(* The purge comes after the checks of ownership and seed. *)
RefuseWrite(c) ==
    LET r == req[c]
        why == Refusal(r, call[c])
        early == Refuses(TokenOf[call[c].seed][r.key]) \/ Rerouted(call[c])
    IN  /\ call[c].pc = "ready"
        /\ early \/ ~ Retained(r.id) \/ KeptReceipts[r.id].req # r
        /\ why # "none" \/ ~ Reserved
        /\ call' = [call EXCEPT ![c] = Answered(IF why = "none" THEN "refused" ELSE why, 0)]
        /\ stream' = IF why = "none" THEN RolledBack ELSE stream
        /\ IF early THEN UNCHANGED receipts ELSE Purge
        /\ UNCHANGED <<req, now, seed, mode, records, source, next, queue, acked, vers, moves>>

Apply(c) ==
    LET r == req[c]
        need == {<<f, Prepared[f]>> : f \in Required}
    IN  /\ call[c].pc = "ready"
        /\ ~ Retained(r.id)
        /\ Refusal(r, call[c]) = "none" /\ Reserved
        /\ InsertRecord(r.key, NewRecord(r), TokenOf[call[c].seed][r.key])
        /\ InsertReceipt(r, next + 1, need)
        /\ next' = next + 1
        /\ stream' = Prepared
        /\ queue' = [f \in FollowerSet |-> Append(queue[f], Prepared[f])]
        /\ vers' = [vers EXCEPT ![r.id] = @ \cup {next + 1}]
        /\ call' = [call EXCEPT ![c] = Handler("wait", "none", next + 1, need)]
        /\ UNCHANGED <<req, now, seed, mode, acked, moves>>

(* wait_required_acks *)
AckCall(c) ==
    LET h == call[c]
    IN  /\ h.pc = "wait" /\ mode # "leaseless"
        /\ \A need \in h.need : acked[need[1]] >= need[2]
        /\ call' = [call EXCEPT ![c] = Answered("applied", h.ver)]
        /\ IF h.need = {} THEN UNCHANGED receipts ELSE CompleteAcks(req[c].id, h.ver)
        /\ UNCHANGED <<req, now, seed, mode, records, source, next, streams, vers, moves>>

(* The timeout, a lost lease, or a follower that is no longer admitted. *)
AckFails(c) ==
    /\ call[c].pc = "wait" /\ (call[c].need # {} \/ mode = "leaseless")
    /\ call' = [call EXCEPT ![c] = Answered("unknown", 0)]
    /\ UNCHANGED <<req, now, seed, mode, records, source, next, receipts, streams, vers, moves>>

-----------------------------------------------------------------------------
(* Around the handlers. *)

(* A stream delivers in order; a follower applies only the sequence it expects. *)
Acknowledge(f) ==
    /\ queue[f] # <<>> /\ Head(queue[f]) = acked[f] + 1
    /\ acked' = [acked EXCEPT ![f] = @ + 1]
    /\ queue' = [queue EXCEPT ![f] = Tail(@)]
    /\ UNCHANGED <<req, now, seed, mode, records, source, next, receipts, stream, call, vers,
                   moves>>

Tick ==
    /\ now < MaxNow /\ now' = now + 1
    /\ UNCHANGED <<req, seed, mode, records, source, next, receipts, streams, call, vers, moves>>

(* The lease lapses and is renewed; the policy fence is set and lifted. *)
SetMode(m) ==
    /\ m # mode
    /\ m # "open" => mode = "open" /\ moves < MaxMoves
    /\ mode' = m /\ moves' = IF m = "open" THEN moves ELSE moves + 1
    /\ UNCHANGED <<req, now, seed, records, source, next, receipts, streams, call, vers>>

(* set_topology with another hash seed at the same epoch, as a recreated coordinator
   hands out; a migration of the coordinator before is still there. *)
Reseed(s) ==
    /\ s # seed /\ moves < MaxMoves
    /\ seed' = s /\ moves' = moves + 1
    /\ byToken' = {<<TokenOf[s][k], k>> : k \in {k \in Keys : Present(k)}}
    /\ dedupByToken' = {<<TokenOf[s][dedup[i].req.key], i>> :
                          i \in {i \in Ids : dedup[i].ver # 0}}
    /\ source' = [source EXCEPT !.current = ~ source.on]
    /\ UNCHANGED <<req, now, mode, rec, expiring, next, dedup, heap, bytes, streams, call,
                   vers>>

(* prepare_source_range lists the range's records through the token index. *)
PrepareSource ==
    /\ ~ source.on /\ moves < MaxMoves
    /\ source' = [NoSource EXCEPT
          !.on = TRUE,
          !.copy = [k \in Keys |-> IF \E t \in MovingRange : <<t, k>> \in byToken
                                   THEN rec[k].ver ELSE 0]]
    /\ moves' = moves + 1
    /\ UNCHANGED <<req, now, seed, mode, records, next, receipts, streams, call, vers>>

PauseSource ==
    /\ source.on /\ ~ source.paused
    /\ source' = [source EXCEPT !.paused = TRUE]
    /\ UNCHANGED <<req, now, seed, mode, records, next, receipts, streams, call, vers, moves>>

(* remove_source hands the deferred entries back to the index. *)
RemoveSource ==
    /\ source.on
    /\ expiring' = expiring \cup source.deferred
    /\ source' = NoSource
    /\ UNCHANGED <<req, now, seed, mode, rec, byToken, next, receipts, streams, call, vers,
                   moves>>

Next ==
    \/ \E c \in Calls :
          \/ BeginCall(c) \/ FindReceipt(c) \/ RefuseWrite(c) \/ Apply(c)
          \/ AckCall(c) \/ AckFails(c)
    \/ \E S \in SUBSET DueEntries : Sweep(S)
    \/ \E f \in FollowerSet : Acknowledge(f)
    \/ \E m \in {"open", "fenced", "leaseless"} : SetMode(m)
    \/ \E s \in Seeds : Reseed(s)
    \/ Tick \/ PrepareSource \/ PauseSource \/ RemoveSource

Spec == Init /\ [][Next]_vars

-----------------------------------------------------------------------------
(* Properties. *)

TypeOK ==
    /\ now \in 1..MaxNow /\ seed \in Seeds /\ mode \in {"open", "fenced", "leaseless"}
    /\ \A k \in Keys : rec[k].ver \in 0..next /\ rec[k].val \in 0..next
    /\ source.deferred \cap expiring = {}
    /\ \A f \in FollowerSet : Len(queue[f]) <= QueueCap /\ acked[f] \in 0..next
    /\ \A c \in Calls : call[c].pc \in {"idle", "ready", "wait", "done"}

RecordsListed == byToken = {<<token_of(k), k>> : k \in {k \in Keys : Present(k)}}
ReceiptsListed ==
    dedupByToken = {<<token_of(dedup[i].req.key), i>> : i \in {i \in Ids : dedup[i].ver # 0}}
DeadlinesScheduled ==
    expiring \cup source.deferred = {<<rec[k].exp, k>> : k \in {k \in Keys : rec[k].exp # 0}}

(* The indices mirror the maps through rewrites, sweeps, deferrals and a reseed:
   every record and receipt is listed under its current token and nothing else is,
   and every record with a deadline is scheduled exactly once, in the expiry index or
   with the migration that deferred it.
   All variables keep their types. *)
IndicesMirrorStore ==
    /\ TypeOK
    /\ RecordsListed /\ ReceiptsListed /\ DeadlinesScheduled
    /\ \A i \in Ids : dedup[i].ver # 0 => <<dedup[i].until, i>> \in heap

(* The byte budget is the sum of what the receipts are charged, no receipt is charged
   for acknowledgements that are no longer waited for, and the budget is kept, however
   attempts with one id, purges and completions interleave. *)
BudgetIsExact ==
    /\ bytes = SumBytes(dedup, Ids) /\ bytes <= MaxDedupBytes
    /\ \A i \in Ids : dedup[i].ver # 0 =>
          dedup[i].bytes = ReceiptBytes + AckBytes * Cardinality(dedup[i].acks)

(* q holds the sequences after a, up to s. *)
Unbroken(q, a, s) == s = a + Len(q) /\ \A i \in 1..Len(q) : q[i] = a + i

(* A refused reservation leaves no gap: each follower's stream holds exactly the
   sequences after the last acknowledged one, up to the last one given out, so the
   follower never refuses an entry for good. *)
StreamsHaveNoGap == \A f \in FollowerSet : Unbroken(queue[f], acked[f], stream[f])

(* What a source migration has listed or journaled for a key of its range is the
   record the node holds, whenever the write began and whichever token it was routed
   by, until a reseed makes it another coordinator's range. *)
MovingRangeIsCovered ==
    source.on /\ source.current => \A k \in Keys :
        token_of(k) \in MovingRange /\ Present(k) => source.copy[k] = rec[k].ver

(* What a client can see of a record, of a receipt and of a call *)
VisibleRecord(k) ==
    IF Live(k) THEN [ver |-> rec[k].ver, val |-> rec[k].val, exp |-> rec[k].exp]
    ELSE [ver |-> 0, val |-> 0, exp |-> 0]
VisibleReceipt(i) ==
    IF dedup[i].ver # 0 /\ dedup[i].until > now
    THEN [req |-> dedup[i].req, ver |-> dedup[i].ver, until |-> dedup[i].until]
    ELSE [req |-> NoEntry.req, ver |-> 0, until |-> 0]
VisibleCall(c) ==
    CASE call[c].pc = "idle" -> [tag |-> "idle", ver |-> 0]
      [] call[c].pc = "wait" -> [tag |-> "bound", ver |-> call[c].ver]
      [] call[c].pc = "done" -> [tag |-> call[c].tag, ver |-> call[c].ver]
      [] OTHER -> [tag |-> "open", ver |-> 0]

Atomic == INSTANCE AtomicStore WITH
    seq <- next,
    view <- [k \in Keys |-> VisibleRecord(k)],
    receipt <- [i \in Ids |-> VisibleReceipt(i)],
    call <- [c \in Calls |-> VisibleCall(c)]

(* The node implements AtomicStore: put, delete and set_expiry take effect in one step
   on the record a get returns, once per retained mutation id; answers are true; and
   sweeps, purges, reseeds and migrations change nothing a client can see. *)
ImplementsAtomicStore == Atomic!Spec

-----------------------------------------------------------------------------
(* The inductive invariants of StoreProofs. *)

RecordType == [ver : Nat, val : Nat, del : BOOLEAN, exp : Int]
IsEntry(e) == e.ver \in Nat /\ e.until \in Nat /\ DOMAIN e = DOMAIN NoEntry
SourceType == [on : BOOLEAN, paused : BOOLEAN, copy : [Keys -> Nat], journal : Nat,
               deferred : SUBSET (Int \X Keys), current : BOOLEAN]

ShapeInv ==
    /\ now \in Nat /\ next \in Nat
    /\ req \in [Calls -> Requests] /\ DOMAIN call = Calls
    /\ rec \in [Keys -> RecordType] /\ DOMAIN dedup = Ids
    /\ \A i \in Ids : IsEntry(dedup[i])
    /\ source \in SourceType /\ expiring \in SUBSET (Int \X Keys)
    /\ stream \in [FollowerSet -> Int]

(* A scheduled entry is that of the record the node holds, in one of the two places;
   and the purge finds every receipt that is due. *)
ScheduleInv ==
    /\ \A e \in expiring \cup source.deferred : e[1] # 0 /\ e[1] = rec[e[2]].exp
    /\ expiring \cap source.deferred = {}
    /\ \A i \in Ids : dedup[i].ver # 0 => <<dedup[i].until, i>> \in heap

StoreInv == ShapeInv /\ ScheduleInv

(* Every write is numbered once for every follower. *)
QueueInv ==
    /\ queue \in [FollowerSet -> Seq(Int)] /\ acked \in [FollowerSet -> Nat]
    /\ \A f \in FollowerSet : stream[f] = next

(* A migration that is over has handed back what it deferred. *)
DeferredInv == source.on \/ source.deferred = {}

(* What is charged is a number, and nothing is charged for a receipt that is gone. *)
IsCharge(e) ==
    /\ e.bytes \in Nat /\ IsFiniteSet(e.acks)
    /\ e.ver = 0 => e.bytes = 0 /\ e.acks = {}
    /\ e.ver # 0 => e.bytes = ReceiptBytes + AckBytes * Cardinality(e.acks)

BudgetInv ==
    /\ \A e \in heap : e[2] \in Ids
    /\ \A i \in Ids : IsCharge(dedup[i])
    /\ bytes = SumBytes(dedup, Ids) /\ bytes <= MaxDedupBytes

MirrorInv ==
    /\ StoreInv /\ QueueInv /\ DeferredInv
    /\ StreamsHaveNoGap /\ IndicesMirrorStore /\ MovingRangeIsCovered
=============================================================================

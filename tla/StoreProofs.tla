---------------------------- MODULE StoreProofs ----------------------------
(***************************************************************************)
(* The invariants of Store, and that Store implements AtomicStore, for any *)
(* keys, calls, requests, followers, rings and limits.  StoreInv is        *)
(* inductive by itself: every scheduled expiry is that of the record the   *)
(* node holds, in the index or with a migration but not in both, and a     *)
(* purge finds every receipt that is due.  MirrorInv rests on it: streams  *)
(* without gaps, exact indices, and a moving range that is covered; and so *)
(* does BudgetInv: what every receipt is charged, and that the sum is kept.*)
(***************************************************************************)
EXTENDS Store, TLAPS, FiniteSetTheorems

LEMMA IdShape == ASSUME ShapeInv, NEW c \in Calls
                 PROVE  req[c] \in Requests /\ req[c].id \in Ids /\ req[c].key \in Keys
                        /\ req[c].exp \in Int
BY StoreAssumption, Zenon DEF ShapeInv, Ids

EntryFields == {"req", "ver", "until", "bytes", "acks"}

LEMMA NoEntryShape == IsEntry(NoEntry) /\ DOMAIN NoEntry = EntryFields
BY Zenon DEF NoEntry, IsEntry, EntryFields

LEMMA NoSourceShape == NoSource \in SourceType /\ NoSource.deferred = {}
BY Zenon DEF NoSource, SourceType

(* The receipts a purge keeps are those that are not due. *)
LEMMA Kept ==
    ASSUME StoreInv, NEW i \in Ids
    PROVE  /\ IsEntry(KeptReceipts[i])
           /\ KeptReceipts[i] = IF dedup[i].ver # 0 /\ dedup[i].until <= now THEN NoEntry
                                ELSE dedup[i]
           /\ KeptReceipts[i].ver # 0 =>
                 /\ dedup[i].ver # 0 /\ dedup[i].until > now /\ KeptReceipts[i] = dedup[i]
                 /\ <<dedup[i].until, i>> \in heap \ Popped
<1>1. IsEntry(dedup[i]) /\ dedup[i].until \in Nat /\ now \in Nat
  BY Zenon DEF StoreInv, ShapeInv, IsEntry
<1>2. i \in Purged <=> dedup[i].ver # 0 /\ dedup[i].until <= now
  <2>1. ASSUME i \in Purged PROVE dedup[i].ver # 0 /\ dedup[i].until <= now
    BY <2>1, Zenon DEF Purged
  <2>2. ASSUME dedup[i].ver # 0, dedup[i].until <= now PROVE i \in Purged
    <3> DEFINE e == <<dedup[i].until, i>>
    <3>1. e \in Popped /\ e[2] = i
      BY <2>2, Zenon DEF StoreInv, ScheduleInv, Popped
    <3> QED BY <2>2, <3>1, Zenon DEF Purged
  <2> QED BY <2>1, <2>2, Zenon
<1>3. KeptReceipts[i] = IF i \in Purged THEN NoEntry ELSE dedup[i]
  BY Zenon DEF KeptReceipts
<1>4. NoEntry.ver = 0
  BY Zenon DEF NoEntry
<1>5. ASSUME dedup[i].ver # 0, dedup[i].until > now
      PROVE  <<dedup[i].until, i>> \in heap \ Popped
  BY <1>1, <1>5 DEF StoreInv, ScheduleInv, Popped
<1> QED BY <1>1, <1>2, <1>3, <1>4, <1>5, NoEntryShape

LEMMA InvInit == Init => StoreInv
<1> SUFFICES ASSUME Init PROVE StoreInv
  BY Zenon
<1>1. NoRecord \in RecordType
  BY DEF NoRecord, RecordType
<1>2. rec \in [Keys -> RecordType] /\ DOMAIN dedup = Ids
      /\ \A i \in Ids : IsEntry(dedup[i])
  BY <1>1, NoEntryShape, Zenon DEF Init
<1>3. ShapeInv
  BY <1>2, StoreAssumption, NoSourceShape DEF Init, ShapeInv
<1>4. \A i \in Ids : dedup[i].ver = 0
  BY Zenon DEF Init, NoEntry
<1>5. ScheduleInv
  BY <1>4, NoSourceShape, Zenon DEF Init, ScheduleInv
<1> QED BY <1>3, <1>5, Zenon DEF StoreInv

(* Steps that touch no record, no schedule and no receipt *)
LEMMA InvKept ==
    ASSUME StoreInv, UNCHANGED <<next, req, rec, dedup, source, expiring, heap>>,
           now' \in Nat, DOMAIN call' = Calls, stream' \in [FollowerSet -> Int]
    PROVE  StoreInv'
BY Zenon DEF StoreInv, ShapeInv, ScheduleInv

LEMMA InvPurge ==
    ASSUME StoreInv, Purge, UNCHANGED <<now, next, req, rec, source, expiring>>,
           DOMAIN call' = Calls, stream' \in [FollowerSet -> Int]
    PROVE  StoreInv'
<1>1. dedup' = KeptReceipts /\ heap' = heap \ Popped
  BY Zenon DEF Purge
<1>2. DOMAIN dedup' = Ids /\ \A i \in Ids : IsEntry(dedup'[i])
  BY <1>1, Kept, Zenon DEF KeptReceipts
<1>3. \A i \in Ids : dedup'[i].ver # 0 => <<dedup'[i].until, i>> \in heap'
  BY <1>1, Kept, Zenon
<1> QED BY <1>2, <1>3, Zenon DEF StoreInv, ShapeInv, ScheduleInv

LEMMA InvComplete ==
    ASSUME StoreInv, NEW i \in Ids, NEW v, CompleteAcks(i, v),
           UNCHANGED <<now, next, req, rec, source, expiring, stream>>, DOMAIN call' = Calls
    PROVE  StoreInv' /\ \A j \in Ids : /\ dedup'[j].ver = dedup[j].ver
                                       /\ dedup'[j].until = dedup[j].until
                                       /\ dedup'[j].req = dedup[j].req
<1>1. DOMAIN dedup = Ids /\ \A j \in Ids : IsEntry(dedup[j]) /\ DOMAIN dedup[j] = EntryFields
  BY NoEntryShape, Zenon DEF StoreInv, ShapeInv, IsEntry
<1>2. PICK b : \/ dedup' = [dedup EXCEPT ![i].acks = {}, ![i].bytes = b]
               \/ dedup' = dedup
  BY Zenon DEF CompleteAcks
<1>3. /\ DOMAIN dedup' = Ids
      /\ \A j \in Ids : j # i => dedup'[j] = dedup[j]
      /\ DOMAIN dedup'[i] = EntryFields /\ dedup'[i].ver = dedup[i].ver
      /\ dedup'[i].until = dedup[i].until /\ dedup'[i].req = dedup[i].req
  BY <1>1, <1>2, ZenonT(30) DEF EntryFields
<1>4. \A j \in Ids : IsEntry(dedup'[j])
  BY <1>1, <1>3, NoEntryShape, Zenon DEF IsEntry
<1>5. heap' = heap
  BY Zenon DEF CompleteAcks
<1>6. \A j \in Ids : /\ dedup'[j].ver = dedup[j].ver /\ dedup'[j].until = dedup[j].until
                     /\ dedup'[j].req = dedup[j].req
  BY <1>3, Zenon
<1>7. StoreInv'
  BY <1>3, <1>4, <1>5, <1>6, Zenon DEF StoreInv, ShapeInv, ScheduleInv
<1> QED BY <1>6, <1>7, Zenon

LEMMA InvSweep ==
    ASSUME StoreInv, NEW S, Sweep(S)
    PROVE  StoreInv' /\ \A k \in Keys : rec'[k] = rec[k] \/ (Lapsed(k) /\ rec'[k] = NoRecord)
<1> DEFINE moving(k) == source.on /\ token_of(k) \in MovingRange
<1> DEFINE gone == {e[2] : e \in {e \in S : ~ moving(e[2])}}
<1> DEFINE put == {e \in S : moving(e[2])}
<1>1. /\ S \subseteq expiring /\ \A e \in S : e[1] <= now
      /\ expiring' = expiring \ S
      /\ source' = [source EXCEPT !.deferred = @ \cup put]
      /\ rec' = [k \in Keys |-> IF k \in gone THEN NoRecord ELSE rec[k]]
      /\ UNCHANGED <<req, now, next, dedup, heap, stream, call>>
  BY Zenon DEF Sweep, SweepBatch, DueEntries, receipts, streams
<1>2. source \in SourceType /\ expiring \in SUBSET (Int \X Keys) /\ rec \in [Keys -> RecordType]
  BY Zenon DEF StoreInv, ShapeInv
<1>3. put \subseteq S
  BY Zenon
<1>4. source' \in SourceType /\ source'.deferred = source.deferred \cup put
  <2> HIDE DEF put
  <2> QED BY <1>1, <1>2, <1>3, Zenon DEF SourceType
<1>5. \A k \in gone : /\ k \in Keys /\ <<rec[k].exp, k>> \in S
                      /\ rec[k].exp # 0 /\ rec[k].exp <= now
  <2> SUFFICES ASSUME NEW e \in S
               PROVE  /\ e[2] \in Keys /\ <<rec[e[2]].exp, e[2]>> \in S
                      /\ rec[e[2]].exp # 0 /\ rec[e[2]].exp <= now
    BY Zenon
  <2>1. e \in expiring /\ e[2] \in Keys /\ e = <<e[1], e[2]>>
    BY <1>1, <1>2
  <2>2. e[1] # 0 /\ e[1] = rec[e[2]].exp
    BY <2>1, Zenon DEF StoreInv, ScheduleInv
  <2> QED BY <1>1, <2>1, <2>2, Zenon
<1>6. NoRecord \in RecordType
  BY DEF NoRecord, RecordType
<1>7. rec' \in [Keys -> RecordType]
  <2> HIDE DEF gone
  <2> QED BY <1>1, <1>2, <1>6, Zenon
<1>8. ASSUME NEW e \in expiring' \cup source'.deferred
      PROVE  e[1] # 0 /\ e[1] = rec'[e[2]].exp
  <2>1. e \in expiring \cup source.deferred /\ e \in Int \X Keys
    BY <1>1, <1>2, <1>3, <1>4, Zenon DEF SourceType
  <2>2. e[2] \in Keys /\ e = <<e[1], e[2]>> /\ e[1] # 0 /\ e[1] = rec[e[2]].exp
    BY <2>1 DEF StoreInv, ScheduleInv
  <2>3. e \notin S \/ moving(e[2])
    <3>1. CASE e \in expiring'
      BY <1>1, <3>1, Zenon
    <3>2. CASE e \in put
      BY <3>2, Zenon
    <3>3. CASE e \in source.deferred
      BY <1>1, <3>3, Zenon DEF StoreInv, ScheduleInv
    <3> QED BY <1>4, <3>1, <3>2, <3>3, Zenon
  <2>4. e[2] \notin gone
    <3> SUFFICES ASSUME NEW d \in S, ~ moving(d[2]), d[2] = e[2] PROVE FALSE
      BY Zenon
    <3>1. d \in expiring /\ d = <<d[1], d[2]>>
      BY <1>1, <1>2
    <3>2. d[1] = rec[d[2]].exp
      BY <3>1, Zenon DEF StoreInv, ScheduleInv
    <3>3. d = e
      BY <2>2, <3>1, <3>2, Zenon
    <3> QED BY <2>3, <3>3, Zenon
  <2> HIDE DEF gone
  <2>5. rec'[e[2]] = rec[e[2]]
    BY <1>1, <2>2, <2>4, Zenon
  <2> QED BY <2>2, <2>5, Zenon
<1>9. expiring' \cap source'.deferred = {}
  BY <1>1, <1>3, <1>4, Zenon DEF StoreInv, ScheduleInv
<1>10. StoreInv'
  BY <1>1, <1>2, <1>4, <1>7, <1>8, <1>9, Zenon DEF StoreInv, ShapeInv, ScheduleInv
<1>11. \A k \in Keys : rec'[k] = rec[k] \/ (Lapsed(k) /\ rec'[k] = NoRecord)
  <2> HIDE DEF gone
  <2> QED BY <1>1, <1>5, Zenon DEF Lapsed
<1> QED BY <1>10, <1>11, Zenon

(* A reseed leaves the source migration as it is. *)
LEMMA ReseedSource ==
    ASSUME StoreInv, NEW s, Reseed(s)
    PROVE  /\ source' \in SourceType /\ source'.deferred = source.deferred
           /\ source'.on = source.on
           /\ source.on => ~ source'.current
<1>1. source \in SourceType /\ source.on \in BOOLEAN
  BY Zenon DEF StoreInv, ShapeInv, SourceType
<1>2. source' = [source EXCEPT !.current = ~ source.on]
  BY Zenon DEF Reseed
<1> QED BY <1>1, <1>2, Zenon DEF SourceType

(* The source migration comes, pauses and goes. *)
LEMMA InvSource ==
    ASSUME StoreInv, PrepareSource \/ PauseSource \/ RemoveSource
    PROVE  StoreInv'
<1>1. UNCHANGED <<now, next, req, rec, dedup, heap, stream, call>>
  BY Zenon DEF PrepareSource, PauseSource, RemoveSource, records, receipts, streams
<1>2. /\ source \in SourceType /\ expiring \in SUBSET (Int \X Keys)
      /\ source.deferred \in SUBSET (Int \X Keys) /\ rec \in [Keys -> RecordType]
  BY Zenon DEF StoreInv, ShapeInv, SourceType
<1>3. /\ source' \in SourceType /\ expiring' \in SUBSET (Int \X Keys)
      /\ expiring' \cup source'.deferred \subseteq expiring \cup source.deferred
      /\ expiring' \cap source'.deferred = {}
  <2>1. CASE PrepareSource
    <3> DEFINE listed == [k \in Keys |-> IF \E t \in MovingRange : <<t, k>> \in byToken
                                         THEN rec[k].ver ELSE 0]
    <3>1. source' = [NoSource EXCEPT !.on = TRUE, !.copy = listed] /\ expiring' = expiring
      BY <2>1, Zenon DEF PrepareSource, records
    <3>2. listed \in [Keys -> Nat]
      BY <1>2, Zenon DEF RecordType
    <3> HIDE DEF listed
    <3>3. source' \in SourceType /\ source'.deferred = {}
      BY <3>1, <3>2, NoSourceShape, Zenon DEF SourceType
    <3> QED BY <1>2, <3>1, <3>3, Zenon
  <2>2. CASE PauseSource
    <3>1. source' = [source EXCEPT !.paused = TRUE] /\ expiring' = expiring
      BY <2>2, Zenon DEF PauseSource, records
    <3>2. source' \in SourceType /\ source'.deferred = source.deferred
      BY <1>2, <3>1, Zenon DEF SourceType
    <3> QED BY <1>2, <3>1, <3>2, Zenon DEF StoreInv, ScheduleInv
  <2>3. CASE RemoveSource
    <3>1. source' = NoSource /\ expiring' = expiring \cup source.deferred
      BY <2>3, Zenon DEF RemoveSource
    <3> QED BY <1>2, <3>1, NoSourceShape, Zenon
  <2> QED BY <2>1, <2>2, <2>3, Zenon
<1> QED BY <1>1, <1>3, Zenon DEF StoreInv, ShapeInv, ScheduleInv

LEMMA NewRecordShape ==
    ASSUME StoreInv, NEW r \in Requests
    PROVE  NewRecord(r) \in RecordType /\ NewRecord(r).exp = NewDeadline(r)
           /\ NewDeadline(r) \in Int
<1>1. r.key \in Keys /\ r.exp \in Int
  BY StoreAssumption, Zenon
<1>2. rec[r.key] \in RecordType
  BY <1>1, Zenon DEF StoreInv, ShapeInv
<1>3. rec[r.key].val \in Nat /\ rec[r.key].exp \in Int
  BY <1>2, Zenon DEF RecordType
<1>4. NewDeadline(r) \in Int
  BY <1>1, <1>3 DEF NewDeadline
<1>5. next \in Nat
  BY Zenon DEF StoreInv, ShapeInv
<1> DEFINE val == IF r.kind = "expire" THEN rec[r.key].val ELSE next + 1
<1>6. val \in Nat /\ next + 1 \in Nat
  BY <1>3, <1>5
<1> HIDE DEF val
<1> QED BY <1>4, <1>6, Zenon DEF NewRecord, RecordType, val

(* A new record replaces the old one and its schedule. *)
LEMMA InvInsertRecord ==
    ASSUME StoreInv, NEW k \in Keys, NEW new \in RecordType, NEW t, InsertRecord(k, new, t)
    PROVE  /\ source' \in SourceType /\ expiring' \in SUBSET (Int \X Keys)
           /\ rec' \in [Keys -> RecordType]
           /\ \A e \in expiring' \cup source'.deferred : e[1] # 0 /\ e[1] = rec'[e[2]].exp
           /\ expiring' \cap source'.deferred = {}
           /\ source'.on = source.on /\ source'.current = source.current
           /\ source'.deferred = source.deferred \ Schedule(k, rec[k].exp)
           /\ source.on /\ t \in MovingRange => source'.copy[k] = new.ver
           /\ \A j \in Keys \ {k} : source'.copy[j] = source.copy[j]
<1> DEFINE old == Schedule(k, rec[k].exp)
<1> DEFINE moving == source.on /\ t \in MovingRange
<1>1. /\ source \in SourceType /\ expiring \in SUBSET (Int \X Keys)
      /\ source.deferred \in SUBSET (Int \X Keys) /\ rec \in [Keys -> RecordType]
      /\ source.copy \in [Keys -> Nat] /\ source.journal \in Nat
  BY Zenon DEF StoreInv, ShapeInv, SourceType
<1>2. rec' = [rec EXCEPT ![k] = new] /\ rec' \in [Keys -> RecordType]
  BY <1>1, Zenon DEF InsertRecord
<1>3. expiring' = (expiring \ old) \cup Schedule(k, new.exp)
  BY Zenon DEF InsertRecord, Forget
<1>4. new.exp \in Int /\ new.ver \in Nat /\ rec[k].exp \in Int
  BY <1>1, Zenon DEF RecordType
<1>5. Schedule(k, new.exp) \in SUBSET (Int \X Keys)
  BY <1>4 DEF Schedule
<1>6. /\ source' \in SourceType /\ source'.on = source.on /\ source'.current = source.current
      /\ source'.deferred = source.deferred \ old
      /\ moving => source'.copy[k] = new.ver
      /\ \A j \in Keys \ {k} : source'.copy[j] = source.copy[j]
  <2> DEFINE copy == [source.copy EXCEPT ![k] = IF moving THEN new.ver ELSE source.copy[k]]
  <2> DEFINE journal == IF moving THEN source.journal + 1 ELSE source.journal
  <2>1. copy \in [Keys -> Nat] /\ journal \in Nat
    BY <1>1, <1>4
  <2>2. source' = [source EXCEPT !.deferred = source.deferred \ old, !.copy = copy,
                                 !.journal = journal]
    BY <1>1, Zenon DEF InsertRecord, Forget, SourceType
  <2>3. source.deferred \ old \in SUBSET (Int \X Keys)
    BY <1>1, Zenon
  <2>4. /\ moving => copy[k] = new.ver
        /\ \A j \in Keys \ {k} : copy[j] = source.copy[j]
    BY <1>1, Zenon
  <2> HIDE DEF copy, journal, old, moving
  <2> QED BY <1>1, <2>1, <2>2, <2>3, <2>4, Zenon DEF SourceType
<1>7. ASSUME NEW e \in (expiring \cup source.deferred) \ old
      PROVE  e[2] \in Keys /\ e[2] # k /\ e[1] # 0 /\ e[1] = rec'[e[2]].exp
  <2>1. e \in Int \X Keys /\ e[2] \in Keys /\ e = <<e[1], e[2]>>
    BY <1>1
  <2>2. e[1] # 0 /\ e[1] = rec[e[2]].exp
    BY Zenon DEF StoreInv, ScheduleInv
  <2>3. e[2] # k
    BY <2>1, <2>2, <1>7, Zenon DEF Schedule
  <2> QED BY <1>1, <1>2, <2>1, <2>2, <2>3, Zenon
<1>8. ASSUME NEW e \in Schedule(k, new.exp)
      PROVE  e[2] = k /\ e[1] # 0 /\ e[1] = rec'[e[2]].exp
  BY <1>1, <1>2, <1>8 DEF Schedule
<1>9. expiring' \in SUBSET (Int \X Keys)
  BY <1>1, <1>3, <1>5, Zenon
<1> HIDE DEF old
<1>10. \A e \in expiring' \cup source'.deferred : e[1] # 0 /\ e[1] = rec'[e[2]].exp
  BY <1>3, <1>6, <1>7, <1>8, Zenon
<1>11. expiring' \cap source'.deferred = {}
  BY <1>3, <1>6, <1>7, <1>8, Zenon DEF StoreInv, ScheduleInv
<1> QED BY <1>2, <1>6, <1>9, <1>10, <1>11, Zenon DEF old

LEMMA InvInsertReceipt ==
    ASSUME StoreInv, NEW r \in Requests, NEW v \in Nat, NEW need, InsertReceipt(r, v, need)
    PROVE  /\ DOMAIN dedup' = Ids /\ \A i \in Ids : IsEntry(dedup'[i])
           /\ \A i \in Ids : dedup'[i].ver # 0 => <<dedup'[i].until, i>> \in heap'
           /\ dedup'[r.id].req = r /\ dedup'[r.id].ver = v
           /\ dedup'[r.id].until = now + Retention
           /\ \A i \in Ids : i # r.id => dedup'[i] = KeptReceipts[i]
<1>1. PICK cost : /\ dedup' = [KeptReceipts EXCEPT ![r.id] =
                       [req |-> r, ver |-> v, until |-> now + Retention, bytes |-> cost,
                        acks |-> need]]
                  /\ heap' = (heap \ Popped) \cup {<<now + Retention, r.id>>}
  BY Zenon DEF InsertReceipt
<1> DEFINE new == [req |-> r, ver |-> v, until |-> now + Retention, bytes |-> cost,
                   acks |-> need]
<1>2. r.id \in Ids /\ DOMAIN KeptReceipts = Ids
  BY Zenon DEF Ids, KeptReceipts
<1>3. now + Retention \in Nat
  BY StoreAssumption DEF StoreInv, ShapeInv
<1>4. IsEntry(new) /\ new.req = r /\ new.ver = v /\ new.until = now + Retention
  BY <1>3, NoEntryShape, Zenon DEF IsEntry, EntryFields
<1> HIDE DEF new
<1>5. /\ DOMAIN dedup' = Ids /\ dedup'[r.id] = new
      /\ \A i \in Ids : i # r.id => dedup'[i] = KeptReceipts[i]
  BY <1>1, <1>2, Zenon DEF new
<1>6. \A i \in Ids : IsEntry(dedup'[i])
  BY <1>4, <1>5, Kept, Zenon
<1>7. \A i \in Ids : dedup'[i].ver # 0 => <<dedup'[i].until, i>> \in heap'
  BY <1>1, <1>4, <1>5, Kept, ZenonT(30)
<1> QED BY <1>4, <1>5, <1>6, <1>7, Zenon

LEMMA InvApply ==
    ASSUME StoreInv, NEW c \in Calls, Apply(c)
    PROVE  StoreInv'
<1> DEFINE r == req[c]
<1>1. r \in Requests /\ r.key \in Keys /\ next \in Nat /\ next + 1 \in Nat
  BY IdShape DEF StoreInv, ShapeInv
<1> HIDE DEF r
<1>2. PICK need, t : /\ InsertRecord(r.key, NewRecord(r), t)
                     /\ InsertReceipt(r, next + 1, need)
                     /\ next' = next + 1 /\ stream' = Prepared
                     /\ UNCHANGED <<req, now>> /\ DOMAIN call' = DOMAIN call
  BY Zenon DEF Apply, r
<1>3. NewRecord(r) \in RecordType
  BY <1>1, NewRecordShape, Zenon
<1>4. /\ source' \in SourceType /\ expiring' \in SUBSET (Int \X Keys)
      /\ rec' \in [Keys -> RecordType]
      /\ \A e \in expiring' \cup source'.deferred : e[1] # 0 /\ e[1] = rec'[e[2]].exp
      /\ expiring' \cap source'.deferred = {}
  BY <1>1, <1>2, <1>3, InvInsertRecord, Zenon
<1>5. /\ DOMAIN dedup' = Ids /\ \A i \in Ids : IsEntry(dedup'[i])
      /\ \A i \in Ids : dedup'[i].ver # 0 => <<dedup'[i].until, i>> \in heap'
  BY <1>1, <1>2, InvInsertReceipt, Zenon
<1>6. stream' \in [FollowerSet -> Int]
  BY <1>2 DEF Prepared, StoreInv, ShapeInv
<1> QED BY <1>1, <1>2, <1>4, <1>5, <1>6, ZenonT(30) DEF StoreInv, ShapeInv, ScheduleInv

LEMMA InvStep == StoreInv /\ [Next]_vars => StoreInv'
<1> SUFFICES ASSUME StoreInv, [Next]_vars PROVE StoreInv'
  BY Zenon
<1>1. /\ DOMAIN call = Calls /\ now \in Nat /\ stream \in [FollowerSet -> Int]
  BY Zenon DEF StoreInv, ShapeInv
<1>2. ASSUME NEW c \in Calls, BeginCall(c) PROVE StoreInv'
  BY <1>1, <1>2, InvKept, Zenon DEF BeginCall, records, receipts, streams
<1>3. ASSUME NEW c \in Calls, FindReceipt(c) PROVE StoreInv'
  BY <1>1, <1>3, InvPurge, Zenon DEF FindReceipt, records, streams
<1>4. ASSUME NEW c \in Calls, RefuseWrite(c) PROVE StoreInv'
  <2>1. /\ DOMAIN call' = Calls /\ UNCHANGED <<now, next, req, rec, source, expiring>>
    BY <1>1, <1>4, Zenon DEF RefuseWrite, records
  <2>2. stream' \in [FollowerSet -> Int]
    BY <1>1, <1>4 DEF RefuseWrite, RolledBack, Prepared
  <2>3. Purge \/ UNCHANGED receipts
    BY <1>4, ZenonT(30) DEF RefuseWrite
  <2> QED BY <1>1, <2>1, <2>2, <2>3, InvPurge, InvKept, Zenon DEF receipts
<1>5. ASSUME NEW c \in Calls, AckCall(c) PROVE StoreInv'
  <2>1. /\ DOMAIN call' = Calls /\ UNCHANGED <<now, next, req, rec, source, expiring, stream>>
    BY <1>1, <1>5, ZenonT(30) DEF AckCall, records, streams
  <2>2. CASE CompleteAcks(req[c].id, call[c].ver)
    BY <2>1, <2>2, InvComplete, IdShape, Zenon DEF StoreInv
  <2>3. CASE UNCHANGED receipts
    BY <1>1, <2>1, <2>3, InvKept, Zenon DEF receipts
  <2> QED BY <1>5, <2>2, <2>3, ZenonT(30) DEF AckCall
<1>6. ASSUME NEW c \in Calls, AckFails(c) PROVE StoreInv'
  BY <1>1, <1>6, InvKept, Zenon DEF AckFails, records, receipts, streams
<1>7. ASSUME NEW f \in FollowerSet, Acknowledge(f) PROVE StoreInv'
  BY <1>1, <1>7, InvKept, Zenon DEF Acknowledge, records, receipts
<1>8. ASSUME NEW m, SetMode(m) PROVE StoreInv'
  BY <1>1, <1>8, InvKept, Zenon DEF SetMode, records, receipts, streams
<1>9. ASSUME NEW s, Reseed(s) PROVE StoreInv'
  <2>1. source' \in SourceType /\ source'.deferred = source.deferred
    BY <1>9, ReseedSource, Zenon
  <2> QED BY <1>9, <2>1, Zenon DEF Reseed, streams, StoreInv, ShapeInv, ScheduleInv
<1>10. CASE Tick
  BY <1>1, <1>10, InvKept DEF Tick, records, receipts, streams
<1>11. CASE UNCHANGED vars
  BY <1>1, <1>11, InvKept, Zenon DEF vars
<1> QED
  BY ZenonT(30), <1>2, <1>3, <1>4, <1>5, <1>6, <1>7, <1>8, <1>9, <1>10, <1>11, InvApply, InvSweep,
     InvSource DEF Next

-----------------------------------------------------------------------------
(* What each step does to the streams: nothing, one entry for every follower, or one
   acknowledgement. *)
LEMMA StreamsKept ==
    ASSUME StoreInv, QueueInv, StreamsHaveNoGap, UNCHANGED <<next, stream, queue, acked>>
    PROVE  QueueInv' /\ StreamsHaveNoGap'
BY Zenon DEF QueueInv, StreamsHaveNoGap

LEMMA RolledBackSame ==
    ASSUME ShapeInv
    PROVE  RolledBack = stream /\ \A f \in FollowerSet : Prepared[f] = stream[f] + 1
<1>1. stream \in [FollowerSet -> Int]
  BY Zenon DEF ShapeInv
<1>2. \A f \in FollowerSet : Prepared[f] = stream[f] + 1
  BY Zenon DEF Prepared
<1>3. \A f \in FollowerSet : Prepared[f] - 1 = stream[f]
  BY <1>1, <1>2
<1> QED BY <1>1, <1>2, <1>3, Zenon DEF RolledBack

(* A stream stays unbroken when the next sequence is queued and when its head was
   acknowledged. *)
LEMMA AppendUnbroken ==
    ASSUME NEW q \in Seq(Int), NEW a \in Nat, NEW s \in Int, Unbroken(q, a, s)
    PROVE  Append(q, s + 1) \in Seq(Int) /\ Unbroken(Append(q, s + 1), a, s + 1)
<1> DEFINE p == Append(q, s + 1)
<1>1. /\ p \in Seq(Int) /\ Len(p) = Len(q) + 1 /\ Len(q) \in Nat
      /\ p[Len(q) + 1] = s + 1 /\ \A i \in 1..Len(q) : p[i] = q[i]
  OBVIOUS
<1> HIDE DEF p
<1>2. s = a + Len(q) /\ \A i \in 1..Len(q) : q[i] = a + i
  BY Zenon DEF Unbroken
<1>3. ASSUME NEW i \in 1..Len(p) PROVE p[i] = a + i
  <2>1. CASE i \in 1..Len(q)
    BY <1>1, <1>2, <2>1, Zenon
  <2>2. CASE i = Len(q) + 1
    BY <1>1, <1>2, <2>2
  <2> QED BY <1>1, <2>1, <2>2
<1>4. s + 1 = a + Len(p)
  BY <1>1, <1>2
<1> QED BY <1>1, <1>3, <1>4, Zenon DEF Unbroken, p

LEMMA TailUnbroken ==
    ASSUME NEW q \in Seq(Int), q # <<>>, NEW a \in Nat, NEW s \in Int, Unbroken(q, a, s)
    PROVE  Tail(q) \in Seq(Int) /\ Unbroken(Tail(q), a + 1, s)
<1>1. Tail(q) \in Seq(Int) /\ Len(Tail(q)) = Len(q) - 1 /\ Len(q) \in Nat
  OBVIOUS
<1>2. s = a + Len(q) /\ \A i \in 1..Len(q) : q[i] = a + i
  BY Zenon DEF Unbroken
<1>3. ASSUME NEW i \in 1..Len(Tail(q)) PROVE Tail(q)[i] = (a + 1) + i
  <2>1. Tail(q)[i] = q[i + 1] /\ i + 1 \in 1..Len(q) /\ i \in Int
    BY <1>1
  <2>2. Tail(q)[i] = a + (i + 1)
    BY <1>2, <2>1, Zenon
  <2> QED BY <2>1, <2>2
<1>4. s = (a + 1) + Len(Tail(q))
  BY <1>1, <1>2
<1> QED BY <1>1, <1>3, <1>4, Zenon DEF Unbroken

LEMMA StreamsApply ==
    ASSUME StoreInv, QueueInv, StreamsHaveNoGap, NEW c \in Calls, Apply(c)
    PROVE  QueueInv' /\ StreamsHaveNoGap'
<1>1. /\ next' = next + 1 /\ stream' = Prepared /\ acked' = acked
      /\ queue' = [f \in FollowerSet |-> Append(queue[f], Prepared[f])]
  BY ZenonT(20) DEF Apply
<1>2. ASSUME NEW f \in FollowerSet
      PROVE  /\ queue'[f] \in Seq(Int) /\ stream'[f] = next'
             /\ Unbroken(queue'[f], acked'[f], stream'[f])
  <2>1. /\ queue[f] \in Seq(Int) /\ acked[f] \in Nat /\ stream[f] = next /\ stream[f] \in Int
        /\ Unbroken(queue[f], acked[f], stream[f])
    BY Zenon DEF QueueInv, StreamsHaveNoGap, StoreInv, ShapeInv
  <2>2. queue'[f] = Append(queue[f], stream[f] + 1) /\ stream'[f] = stream[f] + 1
    BY <1>1, RolledBackSame, Zenon DEF StoreInv
  <2> QED BY <1>1, <2>1, <2>2, AppendUnbroken, Zenon
<1>3. queue' \in [FollowerSet -> Seq(Int)]
  BY <1>1, <1>2, Zenon
<1> QED BY <1>1, <1>2, <1>3, Zenon DEF QueueInv, StreamsHaveNoGap

LEMMA StreamsAcknowledge ==
    ASSUME StoreInv, QueueInv, StreamsHaveNoGap, NEW f \in FollowerSet, Acknowledge(f)
    PROVE  QueueInv' /\ StreamsHaveNoGap'
<1>1. /\ next' = next /\ stream' = stream
      /\ acked' = [acked EXCEPT ![f] = acked[f] + 1]
      /\ queue' = [queue EXCEPT ![f] = Tail(queue[f])]
      /\ queue[f] # <<>>
  BY Zenon DEF Acknowledge
<1>2. \A g \in FollowerSet \ {f} : acked'[g] = acked[g] /\ queue'[g] = queue[g]
  BY <1>1, Zenon DEF QueueInv
<1>3. acked'[f] = acked[f] + 1 /\ queue'[f] = Tail(queue[f])
  BY <1>1, Zenon DEF QueueInv
<1>4. /\ queue[f] \in Seq(Int) /\ acked[f] \in Nat /\ stream[f] \in Int
      /\ Unbroken(queue[f], acked[f], stream[f])
  BY Zenon DEF QueueInv, StreamsHaveNoGap, StoreInv, ShapeInv
<1>5. queue'[f] \in Seq(Int) /\ Unbroken(queue'[f], acked'[f], stream'[f])
  BY <1>1, <1>3, <1>4, TailUnbroken, Zenon
<1>6. acked'[f] \in Nat
  BY <1>3, <1>4
<1>7. queue' \in [FollowerSet -> Seq(Int)] /\ acked' \in [FollowerSet -> Nat]
  BY <1>1, <1>3, <1>5, <1>6, Zenon DEF QueueInv
<1>8. QueueInv'
  BY <1>1, <1>7, Zenon DEF QueueInv
<1>9. ASSUME NEW g \in FollowerSet PROVE Unbroken(queue'[g], acked'[g], stream'[g])
  BY <1>1, <1>2, <1>5, Zenon DEF StreamsHaveNoGap
<1> QED BY <1>8, <1>9, Zenon DEF StreamsHaveNoGap

LEMMA StreamStep ==
    StoreInv /\ QueueInv /\ StreamsHaveNoGap /\ [Next]_vars => QueueInv' /\ StreamsHaveNoGap'
<1> SUFFICES ASSUME StoreInv, QueueInv, StreamsHaveNoGap, [Next]_vars
             PROVE  QueueInv' /\ StreamsHaveNoGap'
  BY Zenon
<1>1. ASSUME NEW c \in Calls, RefuseWrite(c) PROVE UNCHANGED <<next, stream, queue, acked>>
  BY <1>1, RolledBackSame, ZenonT(20) DEF RefuseWrite, StoreInv
<1>2. ASSUME NEW c \in Calls,
             BeginCall(c) \/ FindReceipt(c) \/ AckCall(c) \/ AckFails(c)
      PROVE  UNCHANGED <<next, stream, queue, acked>>
  BY <1>2, ZenonT(20) DEF BeginCall, FindReceipt, AckCall, AckFails, streams
<1>3. ASSUME NEW S, Sweep(S) PROVE UNCHANGED <<next, stream, queue, acked>>
  BY <1>3, Zenon DEF Sweep, streams
<1>4. ASSUME NEW m, SetMode(m) PROVE UNCHANGED <<next, stream, queue, acked>>
  BY <1>4, Zenon DEF SetMode, streams
<1>5. ASSUME NEW s, Reseed(s) PROVE UNCHANGED <<next, stream, queue, acked>>
  BY <1>5, Zenon DEF Reseed, streams
<1>6. ASSUME Tick \/ PrepareSource \/ PauseSource \/ RemoveSource \/ UNCHANGED vars
      PROVE  UNCHANGED <<next, stream, queue, acked>>
  BY <1>6, Zenon DEF Tick, PrepareSource, PauseSource, RemoveSource, streams, vars
<1> QED BY ZenonT(30), <1>1, <1>2, <1>3, <1>4, <1>5, <1>6, StreamsKept, StreamsApply,
           StreamsAcknowledge DEF Next

-----------------------------------------------------------------------------
(* The records are listed under their tokens. *)
LEMMA RecordsListedStep ==
    ASSUME StoreInv, RecordsListed, [Next]_vars
    PROVE  RecordsListed'
<1> DEFINE here == {k \in Keys : Present(k)}
<1>1. byToken = {<<token_of(k), k>> : k \in here}
  BY Zenon DEF RecordsListed
<1>2. ASSUME UNCHANGED <<seed, rec, byToken>> PROVE RecordsListed'
  BY <1>2, Zenon DEF RecordsListed, token_of, Present
<1>3. ASSUME NEW c \in Calls, Apply(c) PROVE RecordsListed'
  <2> DEFINE k0 == req[c].key
  <2>1. k0 \in Keys /\ next \in Nat /\ rec \in [Keys -> RecordType]
    BY IdShape, Zenon DEF StoreInv, ShapeInv
  <2>2. /\ rec' = [rec EXCEPT ![k0] = NewRecord(req[c])]
        /\ byToken' = byToken \cup {<<token_of(k0), k0>>} /\ seed' = seed
    BY <1>3, ZenonT(20) DEF Apply, InsertRecord
  <2>3. NewRecord(req[c]).ver = next + 1 /\ next + 1 # 0
    BY <2>1 DEF NewRecord
  <2> HIDE DEF k0
  <2>4. \A k \in Keys : Present(k)' <=> k = k0 \/ Present(k)
    BY <2>1, <2>2, <2>3, Zenon DEF Present
  <2>5. \A k \in Keys : token_of(k)' = token_of(k)
    BY <2>2, Zenon DEF token_of
  <2> QED BY <1>1, <2>1, <2>2, <2>4, <2>5, Zenon DEF RecordsListed
<1>4. ASSUME NEW S, Sweep(S) PROVE RecordsListed'
  <2> DEFINE moving(k) == source.on /\ token_of(k) \in MovingRange
  <2> DEFINE gone == {e[2] : e \in {e \in S : ~ moving(e[2])}}
  <2>1. /\ rec' = [k \in Keys |-> IF k \in gone THEN NoRecord ELSE rec[k]]
        /\ byToken' = byToken \ {<<token_of(k), k>> : k \in gone} /\ seed' = seed
    BY <1>4, Zenon DEF Sweep
  <2> HIDE DEF gone
  <2>2. \A k \in Keys : Present(k)' <=> k \notin gone /\ Present(k)
    BY <2>1, Zenon DEF Present, NoRecord
  <2>3. \A k \in Keys : token_of(k)' = token_of(k)
    BY <2>1, Zenon DEF token_of
  <2>4. ASSUME NEW k \in Keys, Present(k)' PROVE <<token_of(k), k>> \in byToken'
    BY <1>1, <2>1, <2>2, <2>4, Zenon
  <2>5. ASSUME NEW e \in byToken' PROVE \E k \in Keys : Present(k)' /\ e = <<token_of(k), k>>
    <3>1. PICK k \in Keys : Present(k) /\ e = <<token_of(k), k>>
      BY <1>1, <2>1, Zenon
    <3> QED BY <2>1, <2>2, <3>1, Zenon
  <2> QED BY <2>3, <2>4, <2>5, ZenonT(30) DEF RecordsListed
<1>5. ASSUME NEW s, Reseed(s) PROVE RecordsListed'
  BY <1>5, Zenon DEF Reseed, RecordsListed, token_of, Present
<1>6. ASSUME NEW c \in Calls,
             BeginCall(c) \/ FindReceipt(c) \/ RefuseWrite(c) \/ AckCall(c) \/ AckFails(c)
      PROVE  UNCHANGED <<seed, rec, byToken>>
  BY <1>6, ZenonT(20) DEF BeginCall, FindReceipt, RefuseWrite, AckCall, AckFails, records
<1>7. ASSUME NEW f, Acknowledge(f) PROVE UNCHANGED <<seed, rec, byToken>>
  BY <1>7, Zenon DEF Acknowledge, records
<1>8. ASSUME NEW m, SetMode(m) PROVE UNCHANGED <<seed, rec, byToken>>
  BY <1>8, Zenon DEF SetMode, records
<1>9. ASSUME Tick \/ PrepareSource \/ PauseSource \/ RemoveSource \/ UNCHANGED vars
      PROVE  UNCHANGED <<seed, rec, byToken>>
  BY <1>9, Zenon DEF Tick, PrepareSource, PauseSource, RemoveSource, records, vars
<1> HIDE DEF here
<1> QED BY ZenonT(30), <1>2, <1>3, <1>4, <1>5, <1>6, <1>7, <1>8, <1>9 DEF Next

(* So are the receipts: a purge and a new receipt keep the list exact. *)
LEMMA PurgeListed ==
    ASSUME StoreInv, ReceiptsListed
    PROVE  KeptIndex = {<<token_of(KeptReceipts[i].req.key), i>> :
                           i \in {i \in Ids : KeptReceipts[i].ver # 0}}
<1>1. ASSUME NEW i \in Ids
      PROVE  /\ KeptReceipts[i].ver # 0 <=> i \notin Purged /\ dedup[i].ver # 0
             /\ i \notin Purged => KeptReceipts[i] = dedup[i]
  BY Zenon DEF KeptReceipts, NoEntry
<1>2. ASSUME NEW i \in Ids, KeptReceipts[i].ver # 0
      PROVE  <<token_of(KeptReceipts[i].req.key), i>> \in KeptIndex
  BY <1>1, <1>2, Zenon DEF KeptIndex, ReceiptsListed
<1>3. ASSUME NEW e \in KeptIndex
      PROVE  \E i \in Ids : /\ KeptReceipts[i].ver # 0
                            /\ e = <<token_of(KeptReceipts[i].req.key), i>>
  <2>1. PICK i \in Ids : dedup[i].ver # 0 /\ e = <<token_of(dedup[i].req.key), i>>
    BY Zenon DEF KeptIndex, ReceiptsListed
  <2>2. i \notin Purged
    BY <2>1, Zenon DEF KeptIndex
  <2> QED BY <1>1, <2>1, <2>2, Zenon
<1> QED BY <1>2, <1>3, Zenon

LEMMA ReceiptsListedStep ==
    ASSUME StoreInv, ReceiptsListed, [Next]_vars
    PROVE  ReceiptsListed'
<1>1. ASSUME UNCHANGED <<seed, dedup, dedupByToken>> PROVE ReceiptsListed'
  BY <1>1, Zenon DEF ReceiptsListed, token_of
<1>2. ASSUME Purge, UNCHANGED seed PROVE ReceiptsListed'
  BY <1>2, PurgeListed, Zenon DEF Purge, ReceiptsListed, token_of
<1>3. ASSUME NEW c \in Calls, Apply(c) PROVE ReceiptsListed'
  <2> DEFINE r == req[c]
  <2>1. r \in Requests /\ r.id \in Ids /\ next + 1 \in Nat /\ next + 1 # 0
    BY IdShape DEF StoreInv, ShapeInv
  <2> HIDE DEF r
  <2>2. PICK need : InsertReceipt(r, next + 1, need)
    BY <1>3, ZenonT(20) DEF Apply, r
  <2>3. seed' = seed /\ KeptReceipts[r.id].ver = 0
    BY <1>3, ZenonT(20) DEF Apply, Retained, r
  <2>4. /\ dedup'[r.id].req = r /\ dedup'[r.id].ver = next + 1
        /\ \A i \in Ids : i # r.id => dedup'[i] = KeptReceipts[i]
    BY <2>1, <2>2, InvInsertReceipt, Zenon
  <2>5. dedupByToken' = KeptIndex \cup {<<token_of(r.key), r.id>>}
    BY <2>2, Zenon DEF InsertReceipt
  <2>7. \A i \in Ids : dedup'[i].ver # 0 <=> i = r.id \/ KeptReceipts[i].ver # 0
    BY <2>1, <2>3, <2>4, Zenon
  <2>8. ASSUME NEW i \in Ids, dedup'[i].ver # 0
        PROVE  <<token_of(dedup'[i].req.key), i>> \in dedupByToken'
    BY <2>4, <2>5, <2>7, <2>8, PurgeListed, Zenon
  <2>9. ASSUME NEW e \in dedupByToken'
        PROVE  \E i \in Ids : dedup'[i].ver # 0 /\ e = <<token_of(dedup'[i].req.key), i>>
    <3>1. CASE e = <<token_of(r.key), r.id>>
      BY <2>1, <2>4, <2>7, <3>1, Zenon
    <3>2. CASE e \in KeptIndex
      <4>1. PICK i \in Ids : /\ KeptReceipts[i].ver # 0
                             /\ e = <<token_of(KeptReceipts[i].req.key), i>>
        BY <3>2, PurgeListed, Zenon
      <4> QED BY <2>3, <2>4, <2>7, <4>1, Zenon
    <3> QED BY <2>5, <3>1, <3>2, Zenon
  <2> QED BY <2>3, <2>8, <2>9, Zenon DEF ReceiptsListed, token_of
<1>4. ASSUME NEW c \in Calls, AckCall(c) PROVE ReceiptsListed'
  <2>1. UNCHANGED <<now, seed, next, req, rec, source, expiring, stream>> /\ DOMAIN call' = Calls
    BY <1>4, ZenonT(20) DEF AckCall, records, streams, StoreInv, ShapeInv
  <2>2. CASE CompleteAcks(req[c].id, call[c].ver)
    <3>1. \A j \in Ids : dedup'[j].ver = dedup[j].ver /\ dedup'[j].req = dedup[j].req
      BY <2>1, <2>2, InvComplete, IdShape, Zenon DEF StoreInv
    <3>2. dedupByToken' = dedupByToken
      BY <2>2, Zenon DEF CompleteAcks
    <3> QED BY <2>1, <3>1, <3>2, Zenon DEF ReceiptsListed, token_of
  <2>3. CASE UNCHANGED receipts
    BY <1>1, <2>1, <2>3, Zenon DEF receipts
  <2> QED BY <1>4, <2>2, <2>3, ZenonT(30) DEF AckCall
<1>5. ASSUME NEW s, Reseed(s) PROVE ReceiptsListed'
  BY <1>5, Zenon DEF Reseed, ReceiptsListed, token_of
<1>6. ASSUME NEW c \in Calls, FindReceipt(c) \/ RefuseWrite(c) PROVE ReceiptsListed'
  <2>1. seed' = seed /\ (Purge \/ UNCHANGED receipts)
    BY <1>6, ZenonT(30) DEF FindReceipt, RefuseWrite
  <2> QED BY <1>1, <1>2, <2>1, Zenon DEF receipts
<1>7. ASSUME NEW c \in Calls, BeginCall(c) \/ AckFails(c)
      PROVE  UNCHANGED <<seed, dedup, dedupByToken>>
  BY <1>7, ZenonT(20) DEF BeginCall, AckFails, receipts
<1>8. ASSUME NEW f, Acknowledge(f) PROVE UNCHANGED <<seed, dedup, dedupByToken>>
  BY <1>8, Zenon DEF Acknowledge, receipts
<1>9. ASSUME NEW m, SetMode(m) \/ Sweep(m) PROVE UNCHANGED <<seed, dedup, dedupByToken>>
  BY <1>9, Zenon DEF SetMode, Sweep, receipts
<1>10. ASSUME Tick \/ PrepareSource \/ PauseSource \/ RemoveSource \/ UNCHANGED vars
       PROVE  UNCHANGED <<seed, dedup, dedupByToken>>
  BY <1>10, Zenon DEF Tick, PrepareSource, PauseSource, RemoveSource, receipts, vars
<1> QED BY ZenonT(30), <1>1, <1>3, <1>4, <1>5, <1>6, <1>7, <1>8, <1>9, <1>10 DEF Next

(* Every deadline is scheduled.  That nothing else is follows from ScheduleInv. *)
LEMMA DeadlinesStep ==
    ASSUME StoreInv, DeferredInv, DeadlinesScheduled, [Next]_vars
    PROVE  DeferredInv' /\ DeadlinesScheduled'
<1> DEFINE D == expiring \cup source.deferred
<1>1. StoreInv'
  BY InvStep, Zenon
<1>2. ASSUME \A k \in Keys : rec'[k].exp # 0 => <<rec'[k].exp, k>> \in D'
      PROVE  DeadlinesScheduled'
  <2>1. ASSUME NEW e \in D' PROVE e[2] \in Keys /\ rec'[e[2]].exp # 0 /\ e = <<rec'[e[2]].exp, e[2]>>
    <3>1. e \in Int \X Keys
      BY <1>1, Zenon DEF StoreInv, ShapeInv, SourceType
    <3>2. e[2] \in Keys /\ e = <<e[1], e[2]>>
      BY <3>1
    <3> QED BY <1>1, <3>2, Zenon DEF StoreInv, ScheduleInv
  <2> HIDE DEF D
  <2>2. D' = {<<rec'[k].exp, k>> : k \in {k \in Keys : rec'[k].exp # 0}}
    BY <1>2, <2>1, Zenon
  <2> QED BY <2>2, Zenon DEF DeadlinesScheduled, D
<1>3. /\ \A k \in Keys : rec[k].exp # 0 => <<rec[k].exp, k>> \in D
      /\ source \in SourceType /\ rec \in [Keys -> RecordType]
  BY Zenon DEF DeadlinesScheduled, StoreInv, ShapeInv
<1>4. ASSUME UNCHANGED <<rec, expiring, source>> PROVE DeferredInv' /\ DeadlinesScheduled'
  BY <1>4, Zenon DEF DeferredInv, DeadlinesScheduled
<1>5. ASSUME NEW c \in Calls, Apply(c) PROVE DeferredInv' /\ DeadlinesScheduled'
  <2>1. PICK k0 \in Keys, new \in RecordType : \E t : InsertRecord(k0, new, t)
    BY <1>5, IdShape, NewRecordShape, ZenonT(20) DEF Apply, StoreInv
  <2>2. /\ source'.on = source.on
        /\ source'.deferred = source.deferred \ Schedule(k0, rec[k0].exp)
    BY <2>1, InvInsertRecord, Zenon
  <2>3. /\ rec' = [rec EXCEPT ![k0] = new]
        /\ expiring' = (expiring \ Schedule(k0, rec[k0].exp)) \cup Schedule(k0, new.exp)
    BY <2>1, Zenon DEF InsertRecord, Forget
  <2>4. ASSUME NEW k \in Keys, rec'[k].exp # 0 PROVE <<rec'[k].exp, k>> \in D'
    <3>1. CASE k = k0
      BY <1>3, <2>3, <2>4, <3>1, Zenon DEF Schedule
    <3>2. CASE k # k0
      <4>1. rec'[k] = rec[k] /\ <<rec[k].exp, k>> \in D
        BY <1>3, <2>3, <2>4, <3>2, Zenon
      <4>2. <<rec[k].exp, k>> \notin Schedule(k0, rec[k0].exp)
        BY <3>2, Zenon DEF Schedule
      <4>3. <<rec[k].exp, k>> \in expiring' \cup source'.deferred
        BY <2>2, <2>3, <4>1, <4>2, Zenon
      <4> QED BY <4>1, <4>3, Zenon
    <3> QED BY <3>1, <3>2, Zenon
  <2>5. DeferredInv'
    BY <2>2, Zenon DEF DeferredInv
  <2> QED BY <1>2, <2>4, <2>5, Zenon
<1>6. ASSUME NEW S, Sweep(S) PROVE DeferredInv' /\ DeadlinesScheduled'
  <2> DEFINE moving(k) == source.on /\ token_of(k) \in MovingRange
  <2> DEFINE gone == {e[2] : e \in {e \in S : ~ moving(e[2])}}
  <2> DEFINE put == {e \in S : moving(e[2])}
  <2>1. /\ expiring' = expiring \ S
        /\ source' = [source EXCEPT !.deferred = @ \cup put]
        /\ rec' = [k \in Keys |-> IF k \in gone THEN NoRecord ELSE rec[k]]
    BY <1>6, Zenon DEF Sweep
  <2>2. source'.deferred = source.deferred \cup put /\ source'.on = source.on
    <3> HIDE DEF put
    <3> QED BY <1>3, <2>1, Zenon DEF SourceType
  <2>3. put = {} \/ source.on
    BY Zenon
  <2>4. ASSUME NEW k \in Keys, rec'[k].exp # 0 PROVE <<rec'[k].exp, k>> \in D'
    <3> DEFINE e == <<rec[k].exp, k>>
    <3>1. k \notin gone /\ rec'[k] = rec[k]
      <4> HIDE DEF gone
      <4> QED BY <2>1, <2>4, Zenon DEF NoRecord
    <3>2. e \in D /\ e[2] = k
      BY <1>3, <2>4, <3>1, Zenon
    <3>3. e \in S => e \in put
      BY <3>1, <3>2, Zenon
    <3> HIDE DEF put
    <3> QED BY <2>1, <2>2, <3>1, <3>2, <3>3, Zenon
  <2>5. DeferredInv'
    <3> HIDE DEF put
    <3> QED BY <2>2, <2>3, Zenon DEF DeferredInv
  <2> QED BY <1>2, <2>4, <2>5, Zenon
<1>7. CASE PrepareSource
  <2>1. /\ source'.on /\ source'.deferred = {} /\ source.deferred = {}
        /\ UNCHANGED <<rec, expiring>>
    BY <1>7, Zenon DEF PrepareSource, NoSource, DeferredInv, records
  <2> QED BY <1>2, <1>3, <2>1, Zenon DEF DeferredInv
<1>8. CASE PauseSource
  <2>1. /\ source'.on = source.on /\ source'.deferred = source.deferred
        /\ UNCHANGED <<rec, expiring>>
    BY <1>3, <1>8, Zenon DEF PauseSource, SourceType, records
  <2> QED BY <1>2, <1>3, <2>1, Zenon DEF DeferredInv
<1>9. CASE RemoveSource
  <2>1. /\ source'.deferred = {} /\ expiring' = expiring \cup source.deferred /\ rec' = rec
    BY <1>9, NoSourceShape, Zenon DEF RemoveSource
  <2> QED BY <1>2, <1>3, <2>1, Zenon DEF DeferredInv
<1>10. ASSUME NEW c \in Calls,
              BeginCall(c) \/ FindReceipt(c) \/ RefuseWrite(c) \/ AckCall(c) \/ AckFails(c)
       PROVE  UNCHANGED <<rec, expiring, source>>
  BY <1>10, ZenonT(20) DEF BeginCall, FindReceipt, RefuseWrite, AckCall, AckFails, records
<1>11. ASSUME NEW f, Acknowledge(f) \/ SetMode(f)
       PROVE  UNCHANGED <<rec, expiring, source>>
  BY <1>11, Zenon DEF Acknowledge, SetMode, records
<1>11a. ASSUME NEW s, Reseed(s) PROVE DeferredInv' /\ DeadlinesScheduled'
  <2>1. UNCHANGED <<rec, expiring>>
    BY <1>11a, Zenon DEF Reseed
  <2>2. source'.deferred = source.deferred /\ source'.on = source.on
    BY <1>11a, ReseedSource, Zenon
  <2> QED BY <2>1, <2>2, Zenon DEF DeferredInv, DeadlinesScheduled
<1>12. ASSUME Tick \/ UNCHANGED vars PROVE UNCHANGED <<rec, expiring, source>>
  BY <1>12, Zenon DEF Tick, records, vars
<1> HIDE DEF D
<1> QED
  BY ZenonT(30), <1>4, <1>5, <1>6, <1>7, <1>8, <1>9, <1>10, <1>11, <1>11a, <1>12 DEF Next

(* A write of the moving range reaches the journal, because it is routed by the token
   the key has now. *)
LEMMA CoveredStep ==
    ASSUME StoreInv, RecordsListed, MovingRangeIsCovered, [Next]_vars
    PROVE  MovingRangeIsCovered'
<1>1. source \in SourceType /\ rec \in [Keys -> RecordType]
  BY Zenon DEF StoreInv, ShapeInv
<1>2. ASSUME seed' = seed, source'.on = source.on, source'.copy = source.copy,
             source'.current = source.current,
             \A k \in Keys : rec'[k] = rec[k] \/ rec'[k] = NoRecord
      PROVE  MovingRangeIsCovered'
  <2>1. NoRecord.ver = 0
    BY Zenon DEF NoRecord
  <2>2. ASSUME NEW k \in Keys, Present(k)' PROVE rec'[k] = rec[k] /\ Present(k)
    BY <1>2, <2>1, <2>2, Zenon DEF Present
  <2> QED BY <1>2, <2>2, Zenon DEF MovingRangeIsCovered, token_of
<1>3. ASSUME NEW c \in Calls, Apply(c) PROVE MovingRangeIsCovered'
  <2> DEFINE k0 == req[c].key
  <2> DEFINE new == NewRecord(req[c])
  <2> DEFINE t == TokenOf[call[c].seed][k0]
  <2>1. k0 \in Keys /\ new \in RecordType
    BY IdShape, NewRecordShape, Zenon DEF StoreInv
  <2>2. InsertRecord(k0, new, t) /\ seed' = seed /\ Refusal(req[c], call[c]) = "none"
    BY <1>3, ZenonT(20) DEF Apply
  <2>3. ~ Rerouted(call[c])
    BY <2>2, Zenon DEF Refusal
  <2>4. t = token_of(k0)
    BY <2>3, Zenon DEF Rerouted, token_of
  <2> HIDE DEF k0, new, t
  <2>5. /\ source'.on = source.on /\ source'.current = source.current
        /\ source.on /\ t \in MovingRange => source'.copy[k0] = new.ver
        /\ \A j \in Keys \ {k0} : source'.copy[j] = source.copy[j]
    BY <2>1, <2>2, InvInsertRecord, Zenon
  <2>6. rec' = [rec EXCEPT ![k0] = new]
    BY <2>2, Zenon DEF InsertRecord
  <2>7. rec'[k0] = new /\ \A j \in Keys \ {k0} : rec'[j] = rec[j]
    BY <1>1, <2>1, <2>6, Zenon
  <2>8. ASSUME source.on, source.current, NEW k \in Keys, token_of(k) \in MovingRange, rec'[k].ver # 0
        PROVE  source'.copy[k] = rec'[k].ver
    <3>1. CASE k = k0
      BY <2>4, <2>5, <2>7, <2>8, <3>1, Zenon
    <3>2. CASE k # k0
      BY <2>5, <2>7, <2>8, <3>2, Zenon DEF MovingRangeIsCovered, Present
    <3> QED BY <3>1, <3>2, Zenon
  <2> QED BY <2>2, <2>5, <2>8, Zenon DEF MovingRangeIsCovered, Present, token_of
<1>4. ASSUME NEW S, Sweep(S) PROVE MovingRangeIsCovered'
  <2>1. PICK put : source' = [source EXCEPT !.deferred = put]
    BY <1>4, Zenon DEF Sweep
  <2>2. source'.on = source.on /\ source'.copy = source.copy /\ source'.current = source.current
    BY <1>1, <2>1, Zenon DEF SourceType
  <2>3. \A k \in Keys : rec'[k] = rec[k] \/ rec'[k] = NoRecord
    BY <1>4, InvSweep, Zenon
  <2>4. seed' = seed
    BY <1>4, Zenon DEF Sweep
  <2> QED BY <1>2, <2>2, <2>3, <2>4, Zenon
<1>5. ASSUME NEW s, Reseed(s) PROVE MovingRangeIsCovered'
  BY <1>5, ReseedSource, Zenon DEF MovingRangeIsCovered
<1>6. CASE PrepareSource
  <2> DEFINE listed == [k \in Keys |-> IF \E t \in MovingRange : <<t, k>> \in byToken
                                       THEN rec[k].ver ELSE 0]
  <2>1. source' = [NoSource EXCEPT !.on = TRUE, !.copy = listed] /\ UNCHANGED <<seed, rec>>
    BY <1>6, Zenon DEF PrepareSource, records
  <2>2. ASSUME NEW k \in Keys, token_of(k) \in MovingRange, Present(k)
        PROVE  listed[k] = rec[k].ver
    BY <2>2, Zenon DEF RecordsListed
  <2> HIDE DEF listed
  <2>3. source'.copy = listed
    BY <2>1, Zenon DEF NoSource
  <2> QED BY <2>1, <2>2, <2>3, Zenon DEF MovingRangeIsCovered, token_of, Present
<1>7. CASE PauseSource
  <2>1. /\ source' = [source EXCEPT !.paused = TRUE] /\ UNCHANGED <<seed, rec>>
    BY <1>7, Zenon DEF PauseSource, records
  <2>2. source'.on = source.on /\ source'.copy = source.copy /\ source'.current = source.current
    BY <1>1, <2>1, Zenon DEF SourceType
  <2> QED BY <1>2, <2>1, <2>2, Zenon
<1>8. CASE RemoveSource
  BY <1>8, Zenon DEF RemoveSource, NoSource, MovingRangeIsCovered
<1>9. ASSUME NEW c \in Calls,
             BeginCall(c) \/ FindReceipt(c) \/ RefuseWrite(c) \/ AckCall(c) \/ AckFails(c)
      PROVE  UNCHANGED <<seed, rec, source>>
  BY <1>9, ZenonT(20) DEF BeginCall, FindReceipt, RefuseWrite, AckCall, AckFails, records
<1>10. ASSUME NEW f, Acknowledge(f) \/ SetMode(f) PROVE UNCHANGED <<seed, rec, source>>
  BY <1>10, Zenon DEF Acknowledge, SetMode, records
<1>11. ASSUME Tick \/ UNCHANGED vars PROVE UNCHANGED <<seed, rec, source>>
  BY <1>11, Zenon DEF Tick, records, vars
<1>12. ASSUME UNCHANGED <<seed, rec, source>> PROVE MovingRangeIsCovered'
  BY <1>2, <1>12, Zenon
<1> QED BY ZenonT(30), <1>3, <1>4, <1>5, <1>6, <1>7, <1>8, <1>9, <1>10, <1>11, <1>12 DEF Next

-----------------------------------------------------------------------------
(* The types, conjunct by conjunct *)
LEMMA ClockStep ==
    ASSUME TypeOK, [Next]_vars
    PROVE  now' \in 1..MaxNow /\ seed' \in Seeds /\ mode' \in {"open", "fenced", "leaseless"}
<1>1. now \in 1..MaxNow /\ seed \in Seeds /\ mode \in {"open", "fenced", "leaseless"}
  BY Zenon DEF TypeOK
<1>2. ASSUME NEW c \in Calls,
             \/ BeginCall(c) \/ FindReceipt(c) \/ RefuseWrite(c) \/ Apply(c)
             \/ AckCall(c) \/ AckFails(c)
      PROVE  UNCHANGED <<now, seed, mode>>
  BY <1>2, ZenonT(20) DEF BeginCall, FindReceipt, RefuseWrite, Apply, AckCall, AckFails
<1>3. ASSUME NEW f, Acknowledge(f) \/ Sweep(f) PROVE UNCHANGED <<now, seed, mode>>
  BY <1>3, Zenon DEF Acknowledge, Sweep
<1>4. ASSUME NEW m \in {"open", "fenced", "leaseless"}, SetMode(m)
      PROVE  UNCHANGED <<now, seed>> /\ mode' = m
  BY <1>4, Zenon DEF SetMode
<1>5. ASSUME NEW s \in Seeds, Reseed(s) PROVE UNCHANGED <<now, mode>> /\ seed' = s
  BY <1>5, Zenon DEF Reseed
<1>6. CASE Tick
  <2>1. now' = now + 1 /\ now < MaxNow /\ UNCHANGED <<seed, mode>>
    BY <1>6, Zenon DEF Tick
  <2>2. now' \in 1..MaxNow
    BY <1>1, <2>1, StoreAssumption
  <2> QED BY <1>1, <2>1, <2>2, Zenon
<1>7. ASSUME PrepareSource \/ PauseSource \/ RemoveSource \/ UNCHANGED vars
      PROVE  UNCHANGED <<now, seed, mode>>
  BY <1>7, Zenon DEF PrepareSource, PauseSource, RemoveSource, vars
<1> QED BY ZenonT(30), <1>1, <1>2, <1>3, <1>4, <1>5, <1>6, <1>7 DEF Next

LEMMA VersionsStep ==
    ASSUME StoreInv, TypeOK, [Next]_vars
    PROVE  \A k \in Keys : rec'[k].ver \in 0..next' /\ rec'[k].val \in 0..next'
<1>1. next \in Nat /\ rec \in [Keys -> RecordType]
      /\ \A k \in Keys : rec[k].ver \in 0..next /\ rec[k].val \in 0..next
  BY Zenon DEF StoreInv, ShapeInv, TypeOK
<1>2. ASSUME NEW c \in Calls, Apply(c) PROVE next' = next + 1 /\ \A k \in Keys :
             rec'[k].ver \in 0..next + 1 /\ rec'[k].val \in 0..next + 1
  <2> DEFINE r == req[c]
  <2>1. /\ next' = next + 1 /\ rec' = [rec EXCEPT ![r.key] = NewRecord(r)]
    BY <1>2, ZenonT(20) DEF Apply, InsertRecord
  <2>2. r.key \in Keys
    BY IdShape, Zenon DEF StoreInv
  <2> HIDE DEF r
  <2>3. /\ NewRecord(r).ver = next + 1
        /\ NewRecord(r).val = next + 1 \/ NewRecord(r).val = rec[r.key].val
    BY Zenon DEF NewRecord
  <2>4. NewRecord(r).ver \in 0..next + 1 /\ NewRecord(r).val \in 0..next + 1
    BY <1>1, <2>2, <2>3
  <2>5. ASSUME NEW k \in Keys \ {r.key}
        PROVE  rec'[k].ver \in 0..next + 1 /\ rec'[k].val \in 0..next + 1
    <3>1. rec'[k] = rec[k]
      BY <1>1, <2>1, Zenon
    <3>2. rec[k].ver \in 0..next + 1 /\ rec[k].val \in 0..next + 1
      BY <1>1
    <3> QED BY <3>1, <3>2, Zenon
  <2>6. rec'[r.key] = NewRecord(r)
    BY <1>1, <2>1, <2>2, Zenon
  <2> QED BY <2>1, <2>4, <2>5, <2>6, Zenon
<1>3. ASSUME NEW S, Sweep(S) PROVE next' = next /\ \A k \in Keys :
             rec'[k].ver \in 0..next /\ rec'[k].val \in 0..next
  <2>1. next' = next /\ \A k \in Keys : rec'[k] = rec[k] \/ rec'[k] = NoRecord
    BY <1>3, InvSweep, Zenon DEF Sweep
  <2>2. NoRecord.ver \in 0..next /\ NoRecord.val \in 0..next
    BY <1>1 DEF NoRecord
  <2> QED BY <1>1, <2>1, <2>2, Zenon
<1>4. ASSUME NEW c \in Calls,
             BeginCall(c) \/ FindReceipt(c) \/ RefuseWrite(c) \/ AckCall(c) \/ AckFails(c)
      PROVE  UNCHANGED <<next, rec>>
  BY <1>4, ZenonT(20) DEF BeginCall, FindReceipt, RefuseWrite, AckCall, AckFails, records
<1>5. ASSUME NEW f, Acknowledge(f) \/ SetMode(f) \/ Reseed(f) PROVE UNCHANGED <<next, rec>>
  BY <1>5, Zenon DEF Acknowledge, SetMode, Reseed, records
<1>6. ASSUME Tick \/ PrepareSource \/ PauseSource \/ RemoveSource \/ UNCHANGED vars
      PROVE  UNCHANGED <<next, rec>>
  BY <1>6, Zenon DEF Tick, PrepareSource, PauseSource, RemoveSource, records, vars
<1> QED BY ZenonT(30), <1>1, <1>2, <1>3, <1>4, <1>5, <1>6 DEF Next

LEMMA RoomStep ==
    ASSUME StoreInv, QueueInv, StreamsHaveNoGap, TypeOK, [Next]_vars
    PROVE  \A f \in FollowerSet : Len(queue'[f]) <= QueueCap /\ acked'[f] \in 0..next'
<1> SUFFICES ASSUME NEW f \in FollowerSet
             PROVE  Len(queue'[f]) <= QueueCap /\ acked'[f] \in 0..next'
  BY Zenon
<1>1. StoreInv' /\ QueueInv' /\ StreamsHaveNoGap'
  BY InvStep, StreamStep, Zenon
<1>2. acked'[f] \in 0..next'
  <2>1. /\ queue'[f] \in Seq(Int) /\ acked'[f] \in Nat /\ stream'[f] = next' /\ next' \in Nat
        /\ stream'[f] = acked'[f] + Len(queue'[f])
    BY <1>1, Zenon DEF QueueInv, StreamsHaveNoGap, Unbroken, StoreInv, ShapeInv
  <2>2. Len(queue'[f]) \in Nat
    BY <2>1
  <2> QED BY <2>1, <2>2
<1>3. Len(queue[f]) <= QueueCap /\ queue \in [FollowerSet -> Seq(Int)] /\ queue[f] \in Seq(Int)
  BY Zenon DEF TypeOK, QueueInv
<1>4. ASSUME NEW c \in Calls, Apply(c) PROVE Len(queue'[f]) <= QueueCap
  <2>1. Len(queue[f]) < QueueCap /\ queue'[f] = Append(queue[f], Prepared[f])
    BY <1>4, ZenonT(20) DEF Apply, Reserved
  <2> QED BY <1>3, <2>1, StoreAssumption
<1>5. ASSUME NEW g \in FollowerSet, Acknowledge(g) PROVE Len(queue'[f]) <= QueueCap
  <2>1. queue[g] # <<>> /\ queue' = [queue EXCEPT ![g] = Tail(queue[g])]
    BY <1>5, Zenon DEF Acknowledge
  <2>2. CASE g = f
    <3>1. queue'[f] = Tail(queue[f]) /\ queue[f] # <<>>
      BY <1>3, <2>1, <2>2, Zenon
    <3> QED BY <1>3, <3>1, StoreAssumption
  <2>3. CASE g # f
    BY <1>3, <2>1, <2>3, Zenon
  <2> QED BY <2>2, <2>3, Zenon
<1>6. ASSUME NEW c \in Calls,
             BeginCall(c) \/ FindReceipt(c) \/ RefuseWrite(c) \/ AckCall(c) \/ AckFails(c)
      PROVE  UNCHANGED queue
  BY <1>6, ZenonT(20) DEF BeginCall, FindReceipt, RefuseWrite, AckCall, AckFails, streams
<1>7. ASSUME NEW m, SetMode(m) \/ Reseed(m) \/ Sweep(m) PROVE UNCHANGED queue
  BY <1>7, Zenon DEF SetMode, Reseed, Sweep, streams
<1>8. ASSUME Tick \/ PrepareSource \/ PauseSource \/ RemoveSource \/ UNCHANGED vars
      PROVE  UNCHANGED queue
  BY <1>8, Zenon DEF Tick, PrepareSource, PauseSource, RemoveSource, streams, vars
<1> QED BY ZenonT(30), <1>2, <1>3, <1>4, <1>5, <1>6, <1>7, <1>8 DEF Next

LEMMA HandlersStep ==
    ASSUME StoreInv, TypeOK, [Next]_vars
    PROVE  \A c \in Calls : call'[c].pc \in {"idle", "ready", "wait", "done"}
<1> DEFINE PC == {"idle", "ready", "wait", "done"}
<1>1. DOMAIN call = Calls /\ \A c \in Calls : call[c].pc \in PC
  BY Zenon DEF StoreInv, ShapeInv, TypeOK
<1>2. ASSUME NEW c \in Calls, NEW h, h.pc \in PC, call' = [call EXCEPT ![c] = h]
      PROVE  \A d \in Calls : call'[d].pc \in PC
  BY <1>1, <1>2, Zenon
<1>3. ASSUME NEW tag, NEW v, NEW need
      PROVE  /\ Answered(tag, v).pc \in PC /\ Handler("wait", tag, v, need).pc \in PC
             /\ Handler("ready", tag, v, need).pc \in PC
  BY Zenon DEF Answered, Handler
<1> HIDE DEF PC
<1>4. ASSUME NEW c \in Calls,
             \/ BeginCall(c) \/ FindReceipt(c) \/ RefuseWrite(c) \/ Apply(c)
             \/ AckCall(c) \/ AckFails(c)
      PROVE  \E h : h.pc \in PC /\ call' = [call EXCEPT ![c] = h]
  <2>1. CASE BeginCall(c)
    BY <1>3, <2>1, ZenonT(30) DEF BeginCall
  <2>2. CASE FindReceipt(c) \/ RefuseWrite(c) \/ Apply(c)
    BY <1>3, <2>2, ZenonT(30) DEF FindReceipt, RefuseWrite, Apply
  <2>3. CASE AckCall(c) \/ AckFails(c)
    BY <1>3, <2>3, ZenonT(30) DEF AckCall, AckFails
  <2> QED BY <1>4, <2>1, <2>2, <2>3, Zenon
<1>5. ASSUME NEW f, Acknowledge(f) \/ SetMode(f) \/ Reseed(f) \/ Sweep(f)
      PROVE  UNCHANGED call
  BY <1>5, Zenon DEF Acknowledge, SetMode, Reseed, Sweep
<1>6. ASSUME Tick \/ PrepareSource \/ PauseSource \/ RemoveSource \/ UNCHANGED vars
      PROVE  UNCHANGED call
  BY <1>6, Zenon DEF Tick, PrepareSource, PauseSource, RemoveSource, vars
<1>7. \A d \in Calls : call'[d].pc \in PC
  BY Zenon, <1>1, <1>2, <1>4, <1>5, <1>6 DEF Next
<1> QED BY <1>7, Zenon DEF PC

LEMMA MirrorInit == Init => MirrorInv
<1> SUFFICES ASSUME Init PROVE MirrorInv
  BY Zenon
<1>1. StoreInv
  BY InvInit, Zenon
<1>2. /\ source.deferred = {} /\ ~ source.on /\ expiring = {} /\ byToken = {}
      /\ dedupByToken = {} /\ next = 0 /\ now = 1 /\ seed = Min(Seeds) /\ mode = "open"
      /\ rec = [k \in Keys |-> NoRecord] /\ dedup = [i \in Ids |-> NoEntry]
      /\ stream = [f \in FollowerSet |-> 0] /\ queue = [f \in FollowerSet |-> <<>>]
      /\ acked = [f \in FollowerSet |-> 0]
  BY Zenon DEF Init, NoSource
<1>3. /\ \A k \in Keys : rec[k].ver = 0 /\ rec[k].val = 0 /\ rec[k].exp = 0
      /\ \A i \in Ids : dedup[i].ver = 0
  BY <1>2, Zenon DEF NoRecord, NoEntry
<1>4. RecordsListed /\ ReceiptsListed /\ DeadlinesScheduled /\ DeferredInv
      /\ MovingRangeIsCovered
  BY <1>2, <1>3, Zenon DEF RecordsListed, ReceiptsListed, DeadlinesScheduled, DeferredInv,
     MovingRangeIsCovered, Present
<1>5. ASSUME NEW f \in FollowerSet
      PROVE  /\ queue[f] \in Seq(Int) /\ acked[f] \in Nat /\ acked[f] \in 0..next
             /\ stream[f] = next /\ Len(queue[f]) <= QueueCap
             /\ Unbroken(queue[f], acked[f], stream[f])
  <2>1. queue[f] = <<>> /\ acked[f] = 0 /\ stream[f] = 0 /\ next = 0
    BY <1>2, Zenon
  <2> QED BY <2>1, StoreAssumption DEF Unbroken
<1>6. QueueInv /\ StreamsHaveNoGap
  BY <1>2, <1>5, Zenon DEF QueueInv, StreamsHaveNoGap
<1>7. \A c \in Calls : call[c].pc = "idle"
  BY Zenon DEF Init, Handler
<1>8. \A k \in Keys : rec[k].ver \in 0..next /\ rec[k].val \in 0..next
  BY <1>2, <1>3
<1>9. now \in 1..MaxNow
  BY <1>2, StoreAssumption
<1>10. TypeOK
  BY <1>2, <1>5, <1>7, <1>8, <1>9, StoreAssumption, ZenonT(30) DEF TypeOK
<1>11. IndicesMirrorStore
  BY <1>1, <1>4, <1>10, Zenon DEF IndicesMirrorStore, StoreInv, ScheduleInv
<1> QED BY <1>1, <1>4, <1>6, <1>11, Zenon DEF MirrorInv

LEMMA MirrorStep == MirrorInv /\ [Next]_vars => MirrorInv'
<1> SUFFICES ASSUME MirrorInv, [Next]_vars PROVE MirrorInv'
  BY Zenon
<1>1. /\ StoreInv /\ QueueInv /\ DeferredInv /\ StreamsHaveNoGap /\ MovingRangeIsCovered
      /\ TypeOK /\ RecordsListed /\ ReceiptsListed /\ DeadlinesScheduled
  BY Zenon DEF MirrorInv, IndicesMirrorStore
<1>2. StoreInv' /\ QueueInv' /\ StreamsHaveNoGap'
  BY <1>1, InvStep, StreamStep, Zenon
<1>3. /\ RecordsListed' /\ ReceiptsListed' /\ DeferredInv' /\ DeadlinesScheduled'
      /\ MovingRangeIsCovered'
  BY <1>1, RecordsListedStep, ReceiptsListedStep, DeadlinesStep, CoveredStep, Zenon
<1>4. (source.deferred \cap expiring = {})'
  BY <1>2, Zenon DEF StoreInv, ScheduleInv
<1>5. TypeOK'
  BY <1>1, <1>4, ClockStep, VersionsStep, RoomStep, HandlersStep, ZenonT(30) DEF TypeOK
<1>6. IndicesMirrorStore'
  BY <1>2, <1>3, <1>5, Zenon DEF IndicesMirrorStore, StoreInv, ScheduleInv
<1> QED BY <1>2, <1>3, <1>6, Zenon DEF MirrorInv

LEMMA MirrorInvariant == Spec => []MirrorInv
BY MirrorInit, MirrorStep, PTL DEF Spec

(* insert_record, insert_dedup, forget_expiration, the sweep, the purge and set_topology
   keep every index of the node exact, whatever order they come in. *)
THEOREM IndicesAreExact == Spec => []IndicesMirrorStore
<1>1. MirrorInv => IndicesMirrorStore
  BY Zenon DEF MirrorInv
<1> QED BY <1>1, MirrorInvariant, PTL

(* reserve and its rollback leave every follower's stream without a gap, so that
   apply_replication_entry meets the sequence it expects. *)
THEOREM StreamsAreUnbroken == Spec => []StreamsHaveNoGap
<1>1. MirrorInv => StreamsHaveNoGap
  BY Zenon DEF MirrorInv
<1> QED BY <1>1, MirrorInvariant, PTL

(* prepare_source_range and the journal cover the range that moves, although put
   computes its token before it takes the write lock, until a reseed. *)
THEOREM MovingRangeCovered == Spec => []MovingRangeIsCovered
<1>1. MirrorInv => MovingRangeIsCovered
  BY Zenon DEF MirrorInv
<1> QED BY <1>1, MirrorInvariant, PTL


-----------------------------------------------------------------------------
(* What a client sees of a step *)

SameRecords == \A k \in Keys : VisibleRecord(k)' = VisibleRecord(k)
SameReceipts == \A i \in Ids : VisibleReceipt(i)' = VisibleReceipt(i)
SameCalls == \A c \in Calls : VisibleCall(c)' = VisibleCall(c)
OneCall(c, a) == \A d \in Calls : VisibleCall(d)' = IF d = c THEN a ELSE VisibleCall(d)

LEMMA RecordsUnchanged == ASSUME UNCHANGED <<rec, now>> PROVE SameRecords
BY Zenon DEF SameRecords, VisibleRecord, Live, Present, Lapsed

LEMMA ReceiptsUnchanged == ASSUME UNCHANGED <<dedup, now>> PROVE SameReceipts
BY Zenon DEF SameReceipts, VisibleReceipt

LEMMA CallsUnchanged == ASSUME UNCHANGED call PROVE SameCalls
BY Zenon DEF SameCalls, VisibleCall

(* A receipt that a purge drops was not seen any more. *)
LEMMA KeptUnseen ==
    ASSUME StoreInv, NEW i \in Ids, dedup'[i] = KeptReceipts[i], UNCHANGED now
    PROVE  VisibleReceipt(i)' = VisibleReceipt(i)
<1>1. dedup'[i] = IF dedup[i].ver # 0 /\ dedup[i].until <= now THEN NoEntry ELSE dedup[i]
  BY Kept, Zenon
<1>2. dedup[i].until \in Nat /\ now \in Nat /\ NoEntry.ver = 0
  BY Zenon DEF StoreInv, ShapeInv, IsEntry, NoEntry
<1> QED BY <1>1, <1>2 DEF VisibleReceipt

LEMMA PurgeUnseen ==
    ASSUME StoreInv, Purge, UNCHANGED now PROVE SameReceipts
BY KeptUnseen, Zenon DEF Purge, SameReceipts

(* A new receipt is seen, in place of the one of its id. *)
LEMMA NewReceiptSeen ==
    ASSUME StoreInv, NEW r \in Requests, NEW need, InsertReceipt(r, next + 1, need),
           UNCHANGED now
    PROVE  /\ VisibleReceipt(r.id)' = [req |-> r, ver |-> next + 1, until |-> now + Retention]
           /\ \A i \in Ids : i # r.id => VisibleReceipt(i)' = VisibleReceipt(i)
<1>1. next \in Nat /\ now \in Nat /\ Retention \in Nat \ {0}
  BY StoreAssumption, Zenon DEF StoreInv, ShapeInv
<1>2. next + 1 \in Nat /\ next + 1 # 0 /\ now + Retention > now
  BY <1>1
<1>3. /\ dedup'[r.id].req = r /\ dedup'[r.id].ver = next + 1
      /\ dedup'[r.id].until = now + Retention
      /\ \A i \in Ids : i # r.id => dedup'[i] = KeptReceipts[i]
  BY <1>2, InvInsertReceipt, Zenon
<1>4. VisibleReceipt(r.id)' = [req |-> r, ver |-> next + 1, until |-> now + Retention]
  BY <1>2, <1>3, Zenon DEF VisibleReceipt
<1>5. \A i \in Ids : i # r.id => VisibleReceipt(i)' = VisibleReceipt(i)
  BY <1>3, KeptUnseen, Zenon
<1> QED BY <1>4, <1>5, Zenon

(* Only records that have expired go in a sweep. *)
LEMMA SweepUnseen ==
    ASSUME StoreInv, NEW S, Sweep(S) PROVE SameRecords
<1> SUFFICES ASSUME NEW k \in Keys PROVE VisibleRecord(k)' = VisibleRecord(k)
  BY Zenon DEF SameRecords
<1>1. rec'[k] = rec[k] \/ (Lapsed(k) /\ rec'[k] = NoRecord)
  BY InvSweep, Zenon
<1>2. now' = now
  BY Zenon DEF Sweep
<1>3. NoRecord.ver = 0
  BY Zenon DEF NoRecord
<1> QED BY <1>1, <1>2, <1>3 DEF VisibleRecord, Live, Present, Lapsed

LEMMA Unseen ==
    ASSUME UNCHANGED <<req, now, next, vers>>, SameRecords, SameReceipts, SameCalls
    PROVE  UNCHANGED Atomic!avars
BY Zenon DEF Atomic!avars, SameRecords, SameReceipts, SameCalls

(* A call is set to h. *)
LEMMA CallSet ==
    ASSUME StoreInv, NEW c \in Calls, NEW pc, NEW tag, NEW v, NEW need,
           call' = [call EXCEPT ![c] = Handler(pc, tag, v, need)]
    PROVE  /\ pc = "wait" => OneCall(c, [tag |-> "bound", ver |-> v])
           /\ pc = "done" => OneCall(c, [tag |-> tag, ver |-> v])
           /\ pc = "ready" => OneCall(c, [tag |-> "open", ver |-> 0])
<1>1. \A d \in Calls : call'[d] = IF d = c THEN Handler(pc, tag, v, need) ELSE call[d]
  BY Zenon DEF StoreInv, ShapeInv
<1>2. /\ Handler(pc, tag, v, need).pc = pc /\ Handler(pc, tag, v, need).tag = tag
      /\ Handler(pc, tag, v, need).ver = v
  BY Zenon DEF Handler
<1>3. \A d \in Calls : d # c => VisibleCall(d)' = VisibleCall(d)
  BY <1>1, Zenon DEF VisibleCall
<1>4. /\ pc = "wait" => VisibleCall(c)' = [tag |-> "bound", ver |-> v]
      /\ pc = "done" => VisibleCall(c)' = [tag |-> tag, ver |-> v]
      /\ pc = "ready" => VisibleCall(c)' = [tag |-> "open", ver |-> 0]
  BY <1>1, <1>2, Zenon DEF VisibleCall
<1> QED BY <1>3, <1>4, Zenon DEF OneCall

(* One call, and nothing else that a client sees: the forms such a step has *)
LEMMA OneCallSteps ==
    ASSUME UNCHANGED <<req, now, next, vers>>, SameRecords, SameReceipts,
           NEW c \in Calls, NEW a, OneCall(c, a)
    PROVE  /\ call[c].pc = "idle" /\ a = Atomic!Open => Atomic!Start(c)
           /\ /\ call[c].pc \in {"idle", "ready"}
              /\ VisibleReceipt(req[c].id).req = req[c]
              /\ a = Atomic!Bound(VisibleReceipt(req[c].id).ver)
              /\ req[c].id \in Ids
              => Atomic!Recall(c)
           /\ call[c].pc \in {"idle", "ready", "wait"} /\ a \in Atomic!Truthful(c)
              => Atomic!Reply(c)
<1>1. [d \in Calls |-> VisibleCall(d)]' = [[d \in Calls |-> VisibleCall(d)] EXCEPT ![c] = a]
  BY Zenon DEF OneCall
<1>2. /\ [k \in Keys |-> VisibleRecord(k)]' = [k \in Keys |-> VisibleRecord(k)]
      /\ [i \in Ids |-> VisibleReceipt(i)]' = [i \in Ids |-> VisibleReceipt(i)]
  BY Zenon DEF SameRecords, SameReceipts
<1>3. /\ call[c].pc = "idle" => VisibleCall(c) = Atomic!Idle
      /\ call[c].pc = "ready" => VisibleCall(c) = Atomic!Open
      /\ call[c].pc \in {"idle", "ready", "wait"} =>
            VisibleCall(c).tag \in {"idle", "open", "bound"}
  BY Zenon DEF VisibleCall, Atomic!Idle, Atomic!Open, Atomic!Answer, Atomic!NoVersion
<1>4. call[c].pc = "idle" /\ a = Atomic!Open => Atomic!Start(c)
  BY <1>1, <1>2, <1>3, Zenon DEF Atomic!Start
<1>5. /\ call[c].pc \in {"idle", "ready"} /\ VisibleReceipt(req[c].id).req = req[c]
      /\ a = Atomic!Bound(VisibleReceipt(req[c].id).ver) /\ req[c].id \in Ids
      => Atomic!Recall(c)
  BY <1>1, <1>2, <1>3, Zenon DEF Atomic!Recall
<1>6. call[c].pc \in {"idle", "ready", "wait"} /\ a \in Atomic!Truthful(c) => Atomic!Reply(c)
  BY <1>1, <1>2, <1>3, Zenon DEF Atomic!Reply
<1> QED BY <1>4, <1>5, <1>6, Zenon

LEMMA ReceiptSeen ==
    ASSUME NEW i \in Ids
    PROVE  /\ dedup[i].ver # 0 /\ dedup[i].until > now =>
                 /\ VisibleReceipt(i).req = dedup[i].req /\ VisibleReceipt(i).ver = dedup[i].ver
                 /\ VisibleReceipt(i) # Atomic!NoReceipt
           /\ ~ (dedup[i].ver # 0 /\ dedup[i].until > now) =>
                 VisibleReceipt(i) = Atomic!NoReceipt
<1>1. Atomic!NoReceipt = [req |-> NoEntry.req, ver |-> 0, until |-> 0] /\ Atomic!NoReceipt.ver = 0
  BY Zenon DEF Atomic!NoReceipt, Atomic!NoVersion, NoEntry
<1> QED BY <1>1, Zenon DEF VisibleReceipt

(* Answers that are true *)
LEMMA TrueAnswers ==
    ASSUME StoreInv, NEW c \in Calls, call[c].pc \in {"idle", "ready"}
    PROVE  LET r == req[c]
               none == VisibleReceipt(r.id) = Atomic!NoReceipt
           IN  /\ [tag |-> "refused", ver |-> 0] \in Atomic!Truthful(c)
               /\ ~ none /\ VisibleReceipt(r.id).req # r
                     => [tag |-> "conflict", ver |-> 0] \in Atomic!Truthful(c)
               /\ none /\ r.cond \notin {Always, LiveVersion(r.key)}
                     => [tag |-> "condition", ver |-> 0] \in Atomic!Truthful(c)
               /\ none /\ r.kind = "expire" /\ ~ Live(r.key)
                     => [tag |-> "missing", ver |-> 0] \in Atomic!Truthful(c)
<1>1. VisibleCall(c).tag # "bound"
  BY Zenon DEF VisibleCall
<1>2. req[c].id \in Ids /\ req[c].key \in Keys
  BY IdShape, Zenon DEF StoreInv
<1>3. /\ VisibleRecord(req[c].key).ver = LiveVersion(req[c].key)
      /\ ~ Live(req[c].key) => VisibleRecord(req[c].key) = Atomic!Missing
  BY Zenon DEF VisibleRecord, LiveVersion, Atomic!Missing, Atomic!NoVersion
<1>4. [i \in Ids |-> VisibleReceipt(i)][req[c].id] = VisibleReceipt(req[c].id)
  BY <1>2, Zenon
<1>5. [k \in Keys |-> VisibleRecord(k)][req[c].key] = VisibleRecord(req[c].key)
  BY <1>2, Zenon
<1>6. [d \in Calls |-> VisibleCall(d)][c] = VisibleCall(c)
  BY Zenon
<1>7. \A cond, v : Atomic!Holds(cond, v) <=> cond \in {Always, v}
  BY Zenon DEF Atomic!Holds, Atomic!Always, Always
<1>8. [tag |-> "refused", ver |-> 0] \in Atomic!Truthful(c)
  BY <1>1, <1>6, Zenon DEF Atomic!Truthful, Atomic!Answer, Atomic!NoVersion
<1>9. VisibleReceipt(req[c].id) # Atomic!NoReceipt /\ VisibleReceipt(req[c].id).req # req[c]
        => [tag |-> "conflict", ver |-> 0] \in Atomic!Truthful(c)
  BY <1>1, <1>4, <1>6, ZenonT(30) DEF Atomic!Truthful, Atomic!Answer, Atomic!NoVersion
<1>10. ASSUME VisibleReceipt(req[c].id) = Atomic!NoReceipt,
              req[c].cond \notin {Always, LiveVersion(req[c].key)}
       PROVE  [tag |-> "condition", ver |-> 0] \in Atomic!Truthful(c)
  <2>1. ~ Atomic!Holds(req[c].cond, [k \in Keys |-> VisibleRecord(k)][req[c].key].ver)
    BY <1>3, <1>5, <1>7, <1>10, Zenon
  <2> QED BY <1>1, <1>4, <1>6, <1>10, <2>1, ZenonT(30) DEF Atomic!Truthful, Atomic!Answer, Atomic!NoVersion
<1>11. ASSUME VisibleReceipt(req[c].id) = Atomic!NoReceipt, req[c].kind = "expire",
              ~ Live(req[c].key)
       PROVE  [tag |-> "missing", ver |-> 0] \in Atomic!Truthful(c)
  <2>1. [k \in Keys |-> VisibleRecord(k)][req[c].key] = Atomic!Missing
    BY <1>3, <1>5, <1>11, Zenon
  <2> QED BY <1>1, <1>4, <1>6, <1>11, <2>1, ZenonT(30) DEF Atomic!Truthful, Atomic!Answer, Atomic!NoVersion
<1> QED BY <1>8, <1>9, <1>10, <1>11, Zenon

LEMMA BeginRefines ==
    ASSUME StoreInv, NEW c \in Calls, BeginCall(c)
    PROVE  Atomic!Start(c) \/ Atomic!Recall(c) \/ Atomic!Reply(c)
<1> DEFINE r == req[c]
<1> DEFINE e == dedup[r.id]
<1> DEFINE hit == e.ver # 0 /\ e.until > now
<1>1. call[c].pc = "idle" /\ UNCHANGED <<req, now, next, vers, rec, dedup>>
  BY Zenon DEF BeginCall, records, receipts
<1>2. SameRecords /\ SameReceipts
  BY <1>1, RecordsUnchanged, ReceiptsUnchanged, Zenon
<1>3. r.id \in Ids
  BY IdShape, Zenon DEF StoreInv
<1>4. \/ call' = [call EXCEPT ![c] = Handler("done", "refused", 0, {})]
      \/ hit /\ e.req # r /\ call' = [call EXCEPT ![c] = Handler("done", "conflict", 0, {})]
      \/ hit /\ e.req = r /\ call' = [call EXCEPT ![c] = Handler("wait", "none", e.ver, e.acks)]
      \/ call' = [call EXCEPT ![c] = Handler("ready", "none", 0, {})]
  BY Zenon DEF BeginCall, Answered
<1>5. CASE call' = [call EXCEPT ![c] = Handler("done", "refused", 0, {})]
  <2>1. OneCall(c, [tag |-> "refused", ver |-> 0])
    BY <1>5, CallSet, Zenon
  <2> QED BY <1>1, <1>2, <2>1, OneCallSteps, TrueAnswers, Zenon
<1>6. CASE hit /\ e.req # r /\ call' = [call EXCEPT ![c] = Handler("done", "conflict", 0, {})]
  <2>1. OneCall(c, [tag |-> "conflict", ver |-> 0])
    BY <1>6, CallSet, Zenon
  <2>2. [tag |-> "conflict", ver |-> 0] \in Atomic!Truthful(c)
    BY <1>1, <1>3, <1>6, ReceiptSeen, TrueAnswers, ZenonT(30)
  <2> QED BY <1>1, <1>2, <2>1, <2>2, OneCallSteps, ZenonT(30)
<1>7. CASE hit /\ e.req = r
           /\ call' = [call EXCEPT ![c] = Handler("wait", "none", e.ver, e.acks)]
  <2>1. OneCall(c, [tag |-> "bound", ver |-> e.ver])
    BY <1>7, CallSet, Zenon
  <2>2. VisibleReceipt(r.id).req = r /\ VisibleReceipt(r.id).ver = e.ver
    BY <1>3, <1>7, ReceiptSeen, Zenon
  <2>3. [tag |-> "bound", ver |-> e.ver] = Atomic!Bound(VisibleReceipt(r.id).ver)
    BY <2>2, Zenon DEF Atomic!Bound, Atomic!Answer
  <2> QED BY <1>1, <1>2, <1>3, <2>1, <2>2, <2>3, OneCallSteps, ZenonT(30)
<1>8. CASE call' = [call EXCEPT ![c] = Handler("ready", "none", 0, {})]
  <2>1. OneCall(c, [tag |-> "open", ver |-> 0])
    BY <1>8, CallSet, Zenon
  <2>2. [tag |-> "open", ver |-> 0] = Atomic!Open
    BY Zenon DEF Atomic!Open, Atomic!Answer, Atomic!NoVersion
  <2> QED BY <1>1, <1>2, <2>1, <2>2, OneCallSteps, ZenonT(30)
<1> QED BY <1>4, <1>5, <1>6, <1>7, <1>8, ZenonT(30)

LEMMA FindRefines ==
    ASSUME StoreInv, NEW c \in Calls, FindReceipt(c)
    PROVE  Atomic!Recall(c)
<1> DEFINE r == req[c]
<1> DEFINE e == KeptReceipts[r.id]
<1>1. /\ call[c].pc = "ready" /\ UNCHANGED <<req, now, next, vers, rec>> /\ Purge
      /\ e.ver # 0 /\ e.req = r
      /\ call' = [call EXCEPT ![c] = Handler("wait", "none", e.ver, e.acks)]
  BY Zenon DEF FindReceipt, records, Retained
<1>2. SameRecords /\ SameReceipts
  BY <1>1, RecordsUnchanged, PurgeUnseen, ZenonT(30)
<1>3. r.id \in Ids
  BY IdShape, Zenon DEF StoreInv
<1>4. VisibleReceipt(r.id).req = r /\ VisibleReceipt(r.id).ver = e.ver
  BY <1>1, <1>3, Kept, ReceiptSeen, Zenon
<1>5. OneCall(c, [tag |-> "bound", ver |-> e.ver])
  BY <1>1, CallSet, Zenon
<1>6. [tag |-> "bound", ver |-> e.ver] = Atomic!Bound(VisibleReceipt(r.id).ver)
  BY <1>4, Zenon DEF Atomic!Bound, Atomic!Answer
<1> QED BY <1>1, <1>2, <1>3, <1>4, <1>5, <1>6, OneCallSteps, ZenonT(30)

LEMMA RefuseRefines ==
    ASSUME StoreInv, NEW c \in Calls, RefuseWrite(c)
    PROVE  Atomic!Reply(c)
<1> DEFINE r == req[c]
<1> DEFINE why == Refusal(r, call[c])
<1> DEFINE tag == IF why = "none" THEN "refused" ELSE why
<1> DEFINE e == KeptReceipts[r.id]
<1>1. /\ call[c].pc = "ready" /\ UNCHANGED <<req, now, next, vers, rec>>
      /\ Purge \/ UNCHANGED dedup
      /\ call' = [call EXCEPT ![c] = Handler("done", tag, 0, {})]
  BY Zenon DEF RefuseWrite, records, receipts, Answered
<1>2. SameRecords /\ SameReceipts
  BY <1>1, RecordsUnchanged, PurgeUnseen, ReceiptsUnchanged, ZenonT(30)
<1>3. r.id \in Ids
  BY IdShape, Zenon DEF StoreInv
<1>4. OneCall(c, [tag |-> tag, ver |-> 0])
  <2> HIDE DEF tag
  <2> QED BY <1>1, CallSet, Zenon
<1>5. /\ e.ver # 0 => VisibleReceipt(r.id) # Atomic!NoReceipt /\ VisibleReceipt(r.id).req = e.req
      /\ e.ver = 0 => VisibleReceipt(r.id) = Atomic!NoReceipt
  <2>1. e.ver # 0 => dedup[r.id].ver # 0 /\ dedup[r.id].until > now /\ e = dedup[r.id]
    BY <1>3, Kept, Zenon
  <2>2. dedup[r.id].until \in Nat /\ now \in Nat
    BY <1>3, Zenon DEF StoreInv, ShapeInv, IsEntry
  <2>3. e.ver = 0 => ~ (dedup[r.id].ver # 0 /\ dedup[r.id].until > now)
    <3>1. e = IF dedup[r.id].ver # 0 /\ dedup[r.id].until <= now THEN NoEntry ELSE dedup[r.id]
      BY <1>3, Kept, ZenonT(30)
    <3> HIDE DEF e, r
    <3> QED BY <2>2, <3>1
  <2> QED BY <1>3, <2>1, <2>3, ReceiptSeen, Zenon
<1>6. \/ tag = "refused"
      \/ tag = "conflict" /\ e.ver # 0 /\ e.req # r
      \/ tag = "condition" /\ e.ver = 0 /\ r.cond \notin {Always, LiveVersion(r.key)}
      \/ tag = "missing" /\ e.ver = 0 /\ r.kind = "expire" /\ ~ Live(r.key)
  <2> DEFINE early == Refuses(TokenOf[call[c].seed][r.key]) \/ Rerouted(call[c])
  <2>1. early \/ e.ver = 0 \/ e.req # r
    BY Zenon DEF RefuseWrite, Retained
  <2>2. CASE early
    BY <2>2, Zenon DEF Refusal
  <2>3. CASE ~ early
    BY <2>1, <2>3, ZenonT(30) DEF Refusal, Retained
  <2> QED BY <2>2, <2>3, Zenon
<1>7. [tag |-> tag, ver |-> 0] \in Atomic!Truthful(c)
  <2> HIDE DEF tag
  <2> QED BY <1>1, <1>5, <1>6, TrueAnswers, Zenon
<1> HIDE DEF tag
<1> QED BY <1>1, <1>2, <1>4, <1>7, OneCallSteps, ZenonT(30)

LEMMA AckRefines ==
    ASSUME StoreInv, NEW c \in Calls, AckCall(c) \/ AckFails(c)
    PROVE  Atomic!Reply(c)
<1>1. call[c].pc = "wait" /\ UNCHANGED <<req, now, next, vers, rec>>
  BY ZenonT(30) DEF AckCall, AckFails, records
<1>2. PICK tag, v : /\ call' = [call EXCEPT ![c] = Handler("done", tag, v, {})]
                    /\ \/ tag = "applied" /\ v = call[c].ver
                       \/ tag = "unknown" /\ v = 0
  BY Zenon DEF AckCall, AckFails, Answered
<1>3. OneCall(c, [tag |-> tag, ver |-> v])
  BY <1>2, CallSet, Zenon
<1>4. SameReceipts
  <2>1. CASE UNCHANGED receipts
    BY <1>1, <2>1, ReceiptsUnchanged, Zenon DEF receipts
  <2>2. CASE AckCall(c) /\ CompleteAcks(req[c].id, call[c].ver)
    <3>1. UNCHANGED <<now, next, req, rec, source, expiring, stream>> /\ DOMAIN call' = Calls
      BY <2>2, Zenon DEF AckCall, records, streams, StoreInv, ShapeInv
    <3>2. req[c].id \in Ids
      BY IdShape, Zenon DEF StoreInv
    <3>3. \A j \in Ids : /\ dedup'[j].ver = dedup[j].ver /\ dedup'[j].until = dedup[j].until
                         /\ dedup'[j].req = dedup[j].req
      BY <2>2, <3>1, <3>2, InvComplete, Zenon
    <3> QED BY <3>1, <3>3, Zenon DEF SameReceipts, VisibleReceipt
  <2> QED BY <2>1, <2>2, Zenon DEF AckCall, AckFails, receipts
<1>5. VisibleCall(c) = [tag |-> "bound", ver |-> call[c].ver]
  BY <1>1, ZenonT(30) DEF VisibleCall
<1>6. [tag |-> tag, ver |-> v] \in Atomic!Truthful(c)
  BY <1>2, <1>5 DEF Atomic!Truthful, Atomic!Answer, Atomic!NoVersion
<1>7. SameRecords
  BY <1>1, RecordsUnchanged, Zenon
<1> QED BY <1>1, <1>3, <1>4, <1>6, <1>7, OneCallSteps, ZenonT(30)

LEMMA TickRefines ==
    ASSUME StoreInv, Tick
    PROVE  Atomic!Pass
<1>1. now' = now + 1 /\ UNCHANGED <<req, next, vers, rec, dedup, call>>
  BY Zenon DEF Tick, records, receipts
<1>2. now \in Nat
  BY Zenon DEF StoreInv, ShapeInv
<1>3. SameCalls
  BY <1>1, CallsUnchanged, Zenon
<1>4. \A k \in Keys : VisibleRecord(k)' =
           IF VisibleRecord(k).exp # 0 /\ VisibleRecord(k).exp <= now' THEN Atomic!Missing
           ELSE VisibleRecord(k)
  <2> SUFFICES ASSUME NEW k \in Keys
               PROVE  VisibleRecord(k)' =
                        IF VisibleRecord(k).exp # 0 /\ VisibleRecord(k).exp <= now'
                        THEN Atomic!Missing ELSE VisibleRecord(k)
    BY Zenon
  <2>1. rec[k].exp \in Int
    BY Zenon DEF StoreInv, ShapeInv, RecordType
  <2>2. Atomic!Missing = [ver |-> 0, val |-> 0, exp |-> 0]
    BY Zenon DEF Atomic!Missing, Atomic!NoVersion
  <2>3. CASE Live(k)
    <3>1. VisibleRecord(k).exp = rec[k].exp
      BY <2>3, Zenon DEF VisibleRecord
    <3>2. Live(k)' <=> ~ (rec[k].exp # 0 /\ rec[k].exp <= now')
      BY <1>1, <2>3, Zenon DEF Live, Present, Lapsed
    <3> QED BY <1>1, <2>2, <2>3, <3>1, <3>2, ZenonT(30) DEF VisibleRecord
  <2>4. CASE ~ Live(k)
    <3>1. ~ Live(k)'
      BY <1>1, <1>2, <2>1, <2>4 DEF Live, Present, Lapsed
    <3> QED BY <2>2, <2>4, <3>1, ZenonT(30) DEF VisibleRecord
  <2> QED BY <2>3, <2>4, Zenon
<1>5. \A i \in Ids : VisibleReceipt(i)' =
           IF VisibleReceipt(i).until <= now' THEN Atomic!NoReceipt ELSE VisibleReceipt(i)
  <2> SUFFICES ASSUME NEW i \in Ids
               PROVE  VisibleReceipt(i)' =
                        IF VisibleReceipt(i).until <= now' THEN Atomic!NoReceipt
                        ELSE VisibleReceipt(i)
    BY Zenon
  <2>1. dedup[i].until \in Nat
    BY Zenon DEF StoreInv, ShapeInv, IsEntry
  <2>2. Atomic!NoReceipt = [req |-> NoEntry.req, ver |-> 0, until |-> 0]
    BY Zenon DEF Atomic!NoReceipt, Atomic!NoVersion, NoEntry
  <2> QED BY <1>1, <1>2, <2>1, <2>2 DEF VisibleReceipt
<1>6. Ids = Atomic!Ids
  BY Zenon DEF Ids, Atomic!Ids
<1> QED BY <1>1, <1>3, <1>4, <1>5, <1>6, ZenonT(30) DEF Atomic!Pass, SameCalls

(* The new record is seen as AtomicStore says. *)
LEMMA NewRecordSeen ==
    ASSUME StoreInv, NEW r \in Requests, rec' = [rec EXCEPT ![r.key] = NewRecord(r)],
           UNCHANGED now, r.kind = "expire" => Live(r.key)
    PROVE  /\ VisibleRecord(r.key)' = Atomic!Outcome(r, VisibleRecord(r.key), next + 1)
           /\ \A k \in Keys : k # r.key => VisibleRecord(k)' = VisibleRecord(k)
<1>1. r.key \in Keys /\ rec \in [Keys -> RecordType] /\ next \in Nat
  BY StoreAssumption, Zenon DEF StoreInv, ShapeInv
<1>2. \A k \in Keys : k # r.key => VisibleRecord(k)' = VisibleRecord(k)
  BY <1>1, Zenon DEF VisibleRecord, Live, Present, Lapsed
<1> DEFINE new == NewRecord(r)
<1> DEFINE old == VisibleRecord(r.key)
<1> DEFINE exp == IF r.exp = Keep THEN old.exp ELSE r.exp
<1>3. /\ new.ver = next + 1 /\ new.exp = NewDeadline(r)
      /\ new.del = (r.kind = "delete")
      /\ new.val = IF r.kind = "expire" THEN rec[r.key].val ELSE next + 1
  BY Zenon DEF NewRecord
<1>4. rec'[r.key] = new
  BY <1>1, Zenon
<1>5. Live(r.key)' <=> r.kind # "delete" /\ ~ (NewDeadline(r) # 0 /\ NewDeadline(r) <= now)
  <2>1. rec'[r.key].ver # 0
    BY <1>1, <1>3, <1>4
  <2>2. rec'[r.key].del <=> r.kind = "delete"
    <3>1. rec'[r.key].del = (r.kind = "delete")
      BY <1>3, <1>4, Zenon
    <3> QED BY <3>1, Zenon
  <2>3. rec'[r.key].exp = NewDeadline(r)
    BY <1>3, <1>4, Zenon
  <2> HIDE DEF new
  <2>4. Live(r.key)' <=> /\ rec'[r.key].ver # 0 /\ ~ rec'[r.key].del
                         /\ ~ (rec'[r.key].exp # 0 /\ rec'[r.key].exp <= now)
    BY Zenon DEF Live, Present, Lapsed
  <2> QED BY <2>1, <2>2, <2>3, <2>4, ZenonT(30)
<1>6. old.exp = IF Live(r.key) THEN rec[r.key].exp ELSE 0
  BY Zenon DEF VisibleRecord
<1>7. r.kind # "delete" => NewDeadline(r) = exp
  <2> HIDE DEF old
  <2> QED BY <1>6, Zenon DEF NewDeadline
<1>8. r.kind = "expire" => old.val = rec[r.key].val
  BY Zenon DEF VisibleRecord
<1>9. VisibleRecord(r.key)' = IF Live(r.key)' THEN [ver |-> new.ver, val |-> new.val, exp |-> new.exp]
                              ELSE [ver |-> 0, val |-> 0, exp |-> 0]
  <2> HIDE DEF new
  <2> QED BY <1>4, Zenon DEF VisibleRecord
<1>10. Atomic!Outcome(r, old, next + 1) =
         IF r.kind = "delete" \/ (exp # 0 /\ exp <= now) THEN [ver |-> 0, val |-> 0, exp |-> 0]
         ELSE [ver |-> next + 1, val |-> IF r.kind = "expire" THEN old.val ELSE next + 1,
               exp |-> exp]
  BY Zenon DEF Atomic!Outcome, Atomic!Missing, Atomic!NoVersion, Atomic!Keep, Keep
<1> HIDE DEF new, old, exp
<1>11. VisibleRecord(r.key)' = Atomic!Outcome(r, old, next + 1)
  <2>1. CASE Live(r.key)'
    <3>1. r.kind # "delete" /\ new.exp = exp /\ ~ (exp # 0 /\ exp <= now)
      BY <1>3, <1>5, <1>7, <2>1, ZenonT(30)
    <3>2. new.val = IF r.kind = "expire" THEN old.val ELSE next + 1
      BY <1>3, <1>8, Zenon
    <3>3. VisibleRecord(r.key)' = [ver |-> new.ver, val |-> new.val, exp |-> new.exp]
      BY <1>9, <2>1, Zenon
    <3> QED BY <1>3, <1>10, <3>1, <3>2, <3>3, ZenonT(30)
  <2>2. CASE ~ Live(r.key)'
    <3>1. r.kind = "delete" \/ (exp # 0 /\ exp <= now)
      BY <1>5, <1>7, <2>2, Zenon
    <3> QED BY <1>9, <1>10, <2>2, <3>1, ZenonT(30)
  <2> QED BY <2>1, <2>2, Zenon
<1> QED BY <1>2, <1>11, Zenon DEF old

LEMMA ApplyRefines ==
    ASSUME StoreInv, NEW c \in Calls, Apply(c)
    PROVE  Atomic!TakeEffect(c)
<1> PICK r \in Requests : r = req[c]
  BY Zenon DEF StoreInv, ShapeInv
<1>1. PICK need, t :
        /\ call[c].pc = "ready" /\ ~ Retained(r.id) /\ Refusal(r, call[c]) = "none"
        /\ InsertRecord(r.key, NewRecord(r), t) /\ InsertReceipt(r, next + 1, need)
        /\ next' = next + 1 /\ UNCHANGED <<req, now>>
        /\ vers' = [vers EXCEPT ![r.id] = @ \cup {next + 1}]
        /\ call' = [call EXCEPT ![c] = Handler("wait", "none", next + 1, need)]
  BY Zenon DEF Apply
<1>2. r \in Requests /\ r.id \in Ids /\ r.key \in Keys /\ next \in Nat /\ next + 1 \in Nat
  <2>1. ShapeInv
    BY Zenon DEF StoreInv
  <2>2. r.id \in Ids /\ r.key \in Keys
    BY <2>1, IdShape, Zenon
  <2>3. next \in Nat
    BY <2>1, Zenon DEF ShapeInv
  <2> QED BY <2>2, <2>3
<1>3. /\ r.cond \in {Always, LiveVersion(r.key)}
      /\ r.kind = "expire" => Live(r.key)
  BY <1>1, Zenon DEF Refusal
<1>4. VisibleReceipt(r.id) = Atomic!NoReceipt
  <2> DEFINE e == KeptReceipts[r.id]
  <2>1. e = IF dedup[r.id].ver # 0 /\ dedup[r.id].until <= now THEN NoEntry ELSE dedup[r.id]
    BY <1>2, Kept, ZenonT(30)
  <2>2. e.ver = 0
    BY <1>1, Zenon DEF Retained
  <2>3. dedup[r.id].until \in Nat /\ now \in Nat
    BY <1>2, ZenonT(30) DEF StoreInv, ShapeInv, IsEntry
  <2>4. ~ (dedup[r.id].ver # 0 /\ dedup[r.id].until > now)
    <3> HIDE DEF e
    <3> QED BY <2>1, <2>2, <2>3
  <2> QED BY <1>2, <2>4, ReceiptSeen, Zenon
<1>5. /\ VisibleRecord(r.key)' = Atomic!Outcome(r, VisibleRecord(r.key), next + 1)
      /\ \A k \in Keys : k # r.key => VisibleRecord(k)' = VisibleRecord(k)
  <2>1. rec' = [rec EXCEPT ![r.key] = NewRecord(r)]
    BY <1>1, Zenon DEF InsertRecord
  <2> QED BY <1>1, <1>2, <1>3, <2>1, NewRecordSeen, ZenonT(30)
<1>6. /\ VisibleReceipt(r.id)' = [req |-> r, ver |-> next + 1, until |-> now + Retention]
      /\ \A i \in Ids : i # r.id => VisibleReceipt(i)' = VisibleReceipt(i)
  BY <1>1, NewReceiptSeen, Zenon
<1>7. OneCall(c, [tag |-> "bound", ver |-> next + 1])
  BY <1>1, CallSet, Zenon
<1>8. VisibleCall(c) = Atomic!Open
  BY <1>1, Zenon DEF VisibleCall, Atomic!Open, Atomic!Answer, Atomic!NoVersion
<1> DEFINE view == [k \in Keys |-> VisibleRecord(k)]
<1> DEFINE receipt == [i \in Ids |-> VisibleReceipt(i)]
<1> DEFINE calls == [d \in Calls |-> VisibleCall(d)]
<1>9. view' = [view EXCEPT ![r.key] = Atomic!Outcome(r, view[r.key], next + 1)]
  BY <1>2, <1>5, Zenon
<1>10. receipt' = [receipt EXCEPT ![r.id] = [req |-> r, ver |-> next + 1,
                                             until |-> now + Retention]]
  BY <1>2, <1>6, Zenon
<1>11. calls' = [calls EXCEPT ![c] = Atomic!Bound(next + 1)]
  BY <1>7, Zenon DEF OneCall, Atomic!Bound, Atomic!Answer
<1>12. /\ calls[c] = Atomic!Open /\ receipt[r.id] = Atomic!NoReceipt
       /\ view[r.key] = VisibleRecord(r.key)
  BY <1>2, <1>4, <1>8, Zenon
<1>13. Atomic!Holds(r.cond, view[r.key].ver)
  <2>1. VisibleRecord(r.key).ver = LiveVersion(r.key)
    BY Zenon DEF VisibleRecord, LiveVersion
  <2> HIDE DEF view
  <2> QED BY <1>3, <1>12, <2>1, Zenon DEF Atomic!Holds, Atomic!Always, Always
<1>14. r.kind = "expire" => view[r.key] # Atomic!Missing
  <2>1. Live(r.key) => VisibleRecord(r.key).ver # 0
    BY Zenon DEF VisibleRecord, Live, Present
  <2>2. Atomic!Missing.ver = 0
    BY Zenon DEF Atomic!Missing, Atomic!NoVersion
  <2> HIDE DEF view
  <2> QED BY <1>3, <1>12, <2>1, <2>2, ZenonT(30)
<1> QED
  BY <1>1, <1>9, <1>10, <1>11, <1>12, <1>13, <1>14, ZenonT(30) DEF Atomic!TakeEffect

(* Deliveries, fences, reseeds, migrations and sweeps are not seen. *)
LEMMA OtherStepsUnseen ==
    ASSUME StoreInv,
           \/ \E S : Sweep(S)
           \/ \E f : Acknowledge(f)
           \/ \E m : SetMode(m)
           \/ \E s : Reseed(s)
           \/ PrepareSource \/ PauseSource \/ RemoveSource \/ UNCHANGED vars
    PROVE  UNCHANGED Atomic!avars
<1>1. UNCHANGED <<req, now, next, vers, dedup, call>>
  BY Zenon DEF Sweep, Acknowledge, SetMode, Reseed, PrepareSource, PauseSource, RemoveSource, vars,
         receipts
<1>2. SameRecords
  <2>1. CASE \E S : Sweep(S)
    BY <2>1, SweepUnseen, Zenon
  <2>2. CASE UNCHANGED rec
    BY <1>1, <2>2, RecordsUnchanged, Zenon
  <2> QED BY <2>1, <2>2, Zenon DEF Acknowledge, SetMode, Reseed, PrepareSource, PauseSource,
                            RemoveSource, vars, records
<1> QED BY <1>1, <1>2, ReceiptsUnchanged, CallsUnchanged, Unseen, ZenonT(30)

LEMMA StepRefines == StoreInv /\ [Next]_vars => [Atomic!Next]_(Atomic!avars)
<1> SUFFICES ASSUME StoreInv, [Next]_vars PROVE Atomic!Next \/ UNCHANGED Atomic!avars
  BY Zenon
<1>1. ASSUME NEW c \in Calls,
             BeginCall(c) \/ FindReceipt(c) \/ RefuseWrite(c) \/ Apply(c) \/ AckCall(c) \/ AckFails(c)
      PROVE  Atomic!Next
  BY <1>1, BeginRefines, FindRefines, RefuseRefines, ApplyRefines, AckRefines, ZenonT(30) DEF Atomic!Next
<1>2. ASSUME Tick PROVE Atomic!Next
  BY <1>2, TickRefines, Zenon DEF Atomic!Next
<1> QED BY <1>1, <1>2, OtherStepsUnseen, Zenon DEF Next

LEMMA InitRefines == Init => Atomic!Init
<1> SUFFICES ASSUME Init PROVE Atomic!Init
  BY Zenon
<1>1. \A k \in Keys : VisibleRecord(k) = Atomic!Missing
  BY Zenon DEF Init, VisibleRecord, Live, Present, NoRecord, Atomic!Missing, Atomic!NoVersion
<1>2. \A i \in Ids : VisibleReceipt(i) = Atomic!NoReceipt
  BY ReceiptSeen, Zenon DEF Init, NoEntry
<1>3. \A c \in Calls : VisibleCall(c) = Atomic!Idle
  BY Zenon DEF Init, Handler, VisibleCall, Atomic!Idle, Atomic!Answer, Atomic!NoVersion
<1>4. Ids = Atomic!Ids
  BY Zenon DEF Ids, Atomic!Ids
<1> QED BY <1>1, <1>2, <1>3, <1>4, StoreAssumption, ZenonT(30) DEF Init, Atomic!Init

(* put, delete and set_expiry of a node implement AtomicStore, for any keys, requests
   and overlap of calls, any number of followers, and any queue, journal, bucket, budget
   and sweep limit: a call takes effect in one step on the record a get returns and once
   per retained mutation id, its answer is true, and nothing else the node does can be
   seen. *)
THEOREM StoreRefinesAtomicStore == Spec => ImplementsAtomicStore
<1>1. Spec => []StoreInv
  BY InvInit, InvStep, PTL DEF Spec
<1> QED BY <1>1, InitRefines, StepRefines, PTL DEF Spec, ImplementsAtomicStore, Atomic!Spec

-----------------------------------------------------------------------------
(* The byte budget: what a receipt is charged, and how the sum of the charges
   follows the changes of one receipt or the removal of some. *)

(* The charge of one receipt, and of finitely many. *)
LEMMA ChargeOfOne ==
    ASSUME NEW d, NEW i, d[i].bytes \in Nat
    PROVE  IsFiniteSet(Charged(d, {i})) /\ SumBytes(d, {i}) = d[i].bytes
<1> DEFINE n == d[i].bytes
<1>0. n \in Nat
  OBVIOUS
<1> HIDE DEF n
<1>1. IsFiniteSet(1..n) /\ Cardinality(1..n) = n
  <2>1. IsFiniteSet(1..n) /\ Cardinality(1..n) = IF 1 > n THEN 0 ELSE n - 1 + 1
    <3>1. 1 \in Int /\ n \in Int
      BY <1>0
    <3> QED BY <3>1, FS_Interval, Zenon
  <2> QED BY <1>0, <2>1
<1>2. IsFiniteSet({i}) /\ Cardinality({i}) = 1
  BY FS_Singleton, Zenon
<1> DEFINE J == 1..n
           K == {i}
<1>3. IsFiniteSet(K \X J) /\ Cardinality(K \X J) = 1 * n
  <2> HIDE DEF J, K
  <2>1. IsFiniteSet(J) /\ Cardinality(J) = n /\ IsFiniteSet(K) /\ Cardinality(K) = 1
    BY <1>1, <1>2, Zenon DEF J, K
  <2>2. IsFiniteSet(K \X J) /\ Cardinality(K \X J) = Cardinality(K) * Cardinality(J)
    BY <2>1, FS_Product
  <2> QED BY <2>1, <2>2, Zenon
<1>4. Charged(d, {i}) = {i} \X (1..n)
  BY Zenon DEF Charged, n
<1>5. SumBytes(d, {i}) = 1 * n
  BY <1>3, <1>4, Zenon DEF SumBytes
<1>6. SumBytes(d, {i}) = n
  BY <1>0, <1>5
<1> QED BY <1>3, <1>4, <1>6, Zenon DEF n

LEMMA ChargeFinite ==
    ASSUME NEW d, NEW S, IsFiniteSet(S), \A i \in S : d[i].bytes \in Nat
    PROVE  IsFiniteSet(Charged(d, S)) /\ SumBytes(d, S) \in Nat
<1> DEFINE part(i) == {i} \X (1..d[i].bytes)
           T == {part(i) : i \in S}
           f == [i \in S |-> part(i)]
<1>1. f \in Surjection(S, T)
  BY Zenon DEF Surjection
<1>2. IsFiniteSet(T)
  <2> HIDE DEF f, T
  <2> QED BY <1>1, FS_Surjection, Zenon
<1>3. ASSUME NEW i \in S PROVE IsFiniteSet(part(i))
  <2>1. Charged(d, {i}) = part(i)
    BY Zenon DEF Charged
  <2> QED BY <2>1, ChargeOfOne, Zenon
<1>4. \A s \in T : IsFiniteSet(s)
  BY <1>3, Zenon
<1>5. IsFiniteSet(UNION T)
  <2> HIDE DEF T
  <2> QED BY <1>2, <1>4, FS_UNION, Zenon
<1>6. Charged(d, S) = UNION T
  BY Zenon DEF Charged
<1> QED BY <1>5, <1>6, FS_CardinalityType, Zenon DEF SumBytes

(* The charges of disjoint sets of receipts add up. *)
LEMMA ChargeSplit ==
    ASSUME NEW d, NEW S, NEW T, IsFiniteSet(S), IsFiniteSet(T), S \cap T = {},
           \A i \in S \cup T : d[i].bytes \in Nat
    PROVE  SumBytes(d, S \cup T) = SumBytes(d, S) + SumBytes(d, T)
<1> DEFINE A == Charged(d, S)
           B == Charged(d, T)
<1>1. Charged(d, S \cup T) = A \cup B
  BY Zenon DEF Charged
<1>2. A \cap B = {}
  <2>1. ASSUME NEW x, x \in A, x \in B PROVE FALSE
    <3>1. PICK i \in S : x \in {i} \X (1..d[i].bytes)
      BY <2>1, Zenon DEF Charged
    <3>2. PICK j \in T : x \in {j} \X (1..d[j].bytes)
      BY <2>1, Zenon DEF Charged
    <3>3. x[1] = i /\ x[1] = j
      BY <3>1, <3>2
    <3> QED BY <3>3, Zenon
  <2> QED BY <2>1, Zenon
<1>3. IsFiniteSet(A) /\ IsFiniteSet(B) /\ SumBytes(d, S) \in Nat /\ SumBytes(d, T) \in Nat
  BY ChargeFinite, Zenon
<1>4. SumBytes(d, S) = Cardinality(A) /\ SumBytes(d, T) = Cardinality(B)
      /\ SumBytes(d, S \cup T) = Cardinality(A \cup B)
  BY <1>1, Zenon DEF SumBytes
<1> HIDE DEF A, B
<1>5. Cardinality(A \cup B) = Cardinality(A) + Cardinality(B) - Cardinality(A \cap B)
  BY <1>3, FS_Union, Zenon
<1>6. Cardinality(A \cap B) = 0
  BY <1>2, FS_EmptySet, Zenon
<1> QED BY <1>3, <1>4, <1>5, <1>6

(* Only what is charged matters. *)
LEMMA ChargeSame ==
    ASSUME NEW d, NEW e, NEW S, \A i \in S : d[i].bytes = e[i].bytes
    PROVE  SumBytes(d, S) = SumBytes(e, S)
<1>1. Charged(d, S) = Charged(e, S)
  BY Zenon DEF Charged
<1> QED BY <1>1, Zenon DEF SumBytes

LEMMA IdsFinite == IsFiniteSet(Ids)
<1> DEFINE f == [r \in Requests |-> r.id]
<1>1. f \in Surjection(Requests, Ids)
  BY Zenon DEF Surjection, Ids
<1> HIDE DEF f
<1> QED BY <1>1, StoreAssumption, FS_Surjection, Zenon

(* The receipts e are the receipts d but for what i is charged. *)
OneChange(d, e, i) ==
    \A j \in Ids : /\ d[j].bytes \in Nat /\ e[j].bytes \in Nat
                   /\ j # i => e[j].bytes = d[j].bytes

(* The charge follows a change of one receipt. *)
LEMMA ChargeOfChange ==
    ASSUME NEW d, NEW e, NEW i \in Ids, OneChange(d, e, i)
    PROVE  SumBytes(e, Ids) = SumBytes(d, Ids) - d[i].bytes + e[i].bytes
<1> DEFINE rest == Ids \ {i}
           one == {i}
<1>1. IsFiniteSet(rest)
  BY IdsFinite, FS_RemoveElement, Zenon
<1>0. IsFiniteSet(one)
  BY FS_Singleton, Zenon
<1>7. rest \cap one = {} /\ rest \cup one = Ids
  BY Zenon
<1>8. /\ \A j \in rest \cup one : d[j].bytes \in Nat /\ e[j].bytes \in Nat
      /\ \A j \in rest : d[j].bytes = e[j].bytes
  BY Zenon DEF OneChange
<1>2. SumBytes(d, Ids) = SumBytes(d, rest) + SumBytes(d, one)
  <2> HIDE DEF rest, one
  <2>1. SumBytes(d, rest \cup one) = SumBytes(d, rest) + SumBytes(d, one)
    BY <1>0, <1>1, <1>7, <1>8, ChargeSplit, ZenonT(30)
  <2> QED BY <1>7, <2>1, Zenon
<1>3. SumBytes(e, Ids) = SumBytes(e, rest) + SumBytes(e, one)
  <2> HIDE DEF rest, one
  <2>1. SumBytes(e, rest \cup one) = SumBytes(e, rest) + SumBytes(e, one)
    BY <1>0, <1>1, <1>7, <1>8, ChargeSplit, ZenonT(30)
  <2> QED BY <1>7, <2>1, Zenon
<1>4. SumBytes(d, rest) = SumBytes(e, rest)
  BY <1>8, ChargeSame, Zenon
<1>5. SumBytes(d, one) = d[i].bytes /\ SumBytes(e, one) = e[i].bytes
  BY ChargeOfOne, Zenon DEF OneChange
<1>6. SumBytes(d, rest) \in Nat /\ d[i].bytes \in Nat /\ e[i].bytes \in Nat
  BY <1>1, <1>8, ChargeFinite, ZenonT(30) DEF OneChange
<1> QED BY <1>2, <1>3, <1>4, <1>5, <1>6

(* The purge gives back what the receipts it removes were charged. *)
LEMMA KeptCharge ==
    ASSUME StoreInv, BudgetInv
    PROVE  /\ KeptBytes = SumBytes(KeptReceipts, Ids)
           /\ KeptBytes \in Nat /\ KeptBytes <= bytes
           /\ \A i \in Ids : IsCharge(KeptReceipts[i])
<1> DEFINE gone == Purged
           left == Ids \ Purged
<1>1. gone \subseteq Ids /\ \A i \in Ids : dedup[i].bytes \in Nat
  BY Zenon DEF BudgetInv, Purged, Popped, IsCharge
<1>2. IsFiniteSet(gone) /\ IsFiniteSet(left)
  BY <1>1, IdsFinite, FS_Subset, Zenon
<1>3. gone \cap left = {} /\ gone \cup left = Ids
  BY <1>1, Zenon
<1>4. SumBytes(dedup, Ids) = SumBytes(dedup, gone) + SumBytes(dedup, left)
  <2> HIDE DEF gone, left
  <2>1. SumBytes(dedup, gone \cup left) = SumBytes(dedup, gone) + SumBytes(dedup, left)
    BY <1>1, <1>2, <1>3, ChargeSplit, ZenonT(30)
  <2> QED BY <1>3, <2>1, Zenon
<1>5. SumBytes(dedup, gone) \in Nat /\ SumBytes(dedup, left) \in Nat
  BY <1>1, <1>2, ChargeFinite, Zenon
<1>6. /\ \A i \in gone : KeptReceipts[i] = NoEntry
      /\ \A i \in left : KeptReceipts[i] = dedup[i]
  BY <1>1, Zenon DEF KeptReceipts
<1>7. IsCharge(NoEntry) /\ NoEntry.bytes = 0
  BY FS_EmptySet DEF NoEntry, IsCharge
<1>8. \A i \in Ids : IsCharge(KeptReceipts[i])
  BY <1>3, <1>6, <1>7, Zenon DEF BudgetInv
<1>9. Charged(KeptReceipts, Ids) = Charged(dedup, left)
  <2>1. \A i \in gone : {i} \X (1..KeptReceipts[i].bytes) = {}
    <3>1. 1..0 = {}
      OBVIOUS
    <3> QED BY <1>6, <1>7, <3>1
  <2>2. \A i \in left : KeptReceipts[i].bytes = dedup[i].bytes
    BY <1>6, Zenon
  <2> HIDE DEF gone, left
  <2>3. \A x : x \in Charged(KeptReceipts, Ids) <=>
                  \E i \in Ids : x \in {i} \X (1..KeptReceipts[i].bytes)
    BY Zenon DEF Charged
  <2>4. \A x : x \in Charged(dedup, left) <=>
                  \E i \in left : x \in {i} \X (1..dedup[i].bytes)
    BY Zenon DEF Charged
  <2>5. \A x : x \in Charged(KeptReceipts, Ids) <=> x \in Charged(dedup, left)
    BY <1>3, <2>1, <2>2, <2>3, <2>4, ZenonT(30)
  <2> QED BY <2>5, Zenon
<1>10. SumBytes(KeptReceipts, Ids) = SumBytes(dedup, left)
  BY <1>9, Zenon DEF SumBytes
<1>11. KeptBytes = bytes - SumBytes(dedup, gone) /\ bytes = SumBytes(dedup, Ids)
  BY Zenon DEF KeptBytes, BudgetInv
<1>12. KeptBytes = SumBytes(dedup, left) /\ KeptBytes \in Nat /\ KeptBytes <= bytes
  <2> HIDE DEF gone, left
  <2> QED BY <1>4, <1>5, <1>11
<1> QED BY <1>8, <1>10, <1>12, Zenon

LEMMA BudgetPurge ==
    ASSUME StoreInv, BudgetInv, Purge
    PROVE  BudgetInv'
<1>1. dedup' = KeptReceipts /\ bytes' = KeptBytes /\ heap' \subseteq heap
  BY Zenon DEF Purge
<1>2. bytes \in Nat /\ bytes <= MaxDedupBytes /\ MaxDedupBytes \in Nat
  BY IdsFinite, ChargeFinite, StoreAssumption, ZenonT(30) DEF BudgetInv, IsCharge
<1>3. KeptBytes <= MaxDedupBytes
  BY <1>2, KeptCharge
<1> QED BY <1>1, <1>3, KeptCharge, Zenon DEF BudgetInv

(* A write's cost counts each follower it waits for once. *)
LEMMA NeedCount ==
    ASSUME NEW need, need = {<<f, Prepared[f]>> : f \in Required}
    PROVE  IsFiniteSet(need) /\ Cardinality(need) = Cardinality(Required)
<1> DEFINE g == [f \in Required |-> <<f, Prepared[f]>>]
<1>1. g \in Surjection(Required, need)
  BY Zenon DEF Surjection
<1>2. g \in Injection(Required, need)
  <2>1. g \in [Required -> need]
    BY Zenon
  <2>2. \A a, b \in Required : g[a] = g[b] => a = b
    OBVIOUS
  <2> HIDE DEF g
  <2> QED BY <2>1, <2>2, Zenon DEF Injection, IsInjective
<1>3. IsFiniteSet(Required)
  BY StoreAssumption, Zenon
<1> HIDE DEF g
<1> QED BY <1>1, <1>2, <1>3, FS_Surjection, ZenonT(30)

LEMMA BudgetInsert ==
    ASSUME StoreInv, BudgetInv, NEW r \in Requests, NEW v \in Nat \ {0}, NEW need,
           IsFiniteSet(need), InsertReceipt(r, v, need),
           KeptBytes + (ReceiptBytes + AckBytes * Cardinality(need)) <= MaxDedupBytes
    PROVE  BudgetInv'
<1> DEFINE cost == ReceiptBytes + AckBytes * Cardinality(need)
           new == [req |-> r, ver |-> v, until |-> now + Retention, bytes |-> cost,
                   acks |-> need]
           old == KeptReceipts[r.id].bytes
<1>1. cost \in Nat /\ MaxDedupBytes \in Nat /\ Cardinality(need) \in Nat
  <2>1. Cardinality(need) \in Nat
    BY FS_CardinalityType, Zenon
  <2>2. ReceiptBytes \in Nat /\ AckBytes \in Nat /\ MaxDedupBytes \in Nat
    BY StoreAssumption, Zenon
  <2> QED BY <2>1, <2>2
<1>2. r.id \in Ids /\ DOMAIN KeptReceipts = Ids
  BY Zenon DEF Ids, KeptReceipts
<1>3. /\ dedup' = [KeptReceipts EXCEPT ![r.id] = new]
      /\ bytes' = KeptBytes - old + cost
      /\ heap' = (heap \ Popped) \cup {<<now + Retention, r.id>>}
  BY Zenon DEF InsertReceipt
<1>4. new.bytes = cost /\ new.ver = v /\ new.acks = need
  BY Zenon
<1> HIDE DEF new
<1>5. IsCharge(new)
  <2>1. v # 0 /\ IsFiniteSet(need)
    OBVIOUS
  <2> QED BY <1>1, <1>4, <2>1 DEF IsCharge
<1>6. \A i \in Ids : dedup'[i] = IF i = r.id THEN new ELSE KeptReceipts[i]
  BY <1>2, <1>3, Zenon
<1>7. \A i \in Ids : IsCharge(dedup'[i])
  BY <1>5, <1>6, KeptCharge, Zenon
<1>8. \A i \in Ids : KeptReceipts[i].bytes \in Nat /\ dedup'[i].bytes \in Nat
  BY <1>7, KeptCharge, Zenon DEF IsCharge
<1>9. SumBytes(dedup', Ids) = SumBytes(KeptReceipts, Ids) - old + dedup'[r.id].bytes
  <2>1. \A j \in Ids : j # r.id => dedup'[j].bytes = KeptReceipts[j].bytes
    BY <1>6, Zenon
  <2>2. OneChange(KeptReceipts, dedup', r.id)
    BY <1>8, <2>1, ZenonT(30) DEF OneChange
  <2> QED BY <1>2, <2>2, ChargeOfChange, Zenon
<1>10. dedup'[r.id].bytes = cost /\ old \in Nat
  BY <1>2, <1>4, <1>6, <1>8, Zenon
<1> HIDE DEF cost, old
<1>11. bytes' = SumBytes(dedup', Ids)
  BY <1>3, <1>9, <1>10, KeptCharge, ZenonT(30)
<1>12. bytes' <= MaxDedupBytes
  <2>1. KeptBytes \in Nat /\ KeptBytes + cost <= MaxDedupBytes
    BY KeptCharge, Zenon DEF cost
  <2> QED BY <1>1, <1>3, <1>10, <2>1
<1>13. \A e \in heap' : e[2] \in Ids
  BY <1>2, <1>3 DEF BudgetInv
<1>14. SumBytes(dedup, Ids)' = SumBytes(dedup', Ids)
  BY Zenon DEF SumBytes, Charged, Ids
<1> QED BY <1>7, <1>11, <1>12, <1>13, <1>14, ZenonT(30) DEF BudgetInv

(* A completed wait gives its charge back once. *)
LEMMA BudgetComplete ==
    ASSUME StoreInv, BudgetInv, NEW i \in Ids, NEW v, CompleteAcks(i, v)
    PROVE  BudgetInv'
<1> DEFINE e == dedup[i]
           cost == AckBytes * Cardinality(e.acks)
<1>1. /\ DOMAIN dedup = Ids /\ IsCharge(e) /\ DOMAIN e = EntryFields
      /\ bytes = SumBytes(dedup, Ids) /\ bytes <= MaxDedupBytes
  BY NoEntryShape, Zenon DEF StoreInv, ShapeInv, IsEntry, BudgetInv
<1>2. CASE ~(e.ver = v /\ e.acks # {})
  <2>1. dedup' = dedup /\ bytes' = bytes /\ heap' = heap
    BY <1>2, Zenon DEF CompleteAcks
  <2> QED BY <2>1, Zenon DEF BudgetInv, Ids
<1>3. CASE e.ver = v /\ e.acks # {}
  <2>1. /\ dedup' = [dedup EXCEPT ![i].acks = {}, ![i].bytes = @ - cost]
        /\ bytes' = bytes - cost /\ heap' = heap
    BY <1>3, Zenon DEF CompleteAcks
  <2>2. /\ e.ver # 0 /\ e.bytes = ReceiptBytes + cost
        /\ e.bytes \in Nat /\ cost \in Nat /\ ReceiptBytes \in Nat /\ AckBytes \in Nat
    <3>1. e.ver # 0 /\ Cardinality(e.acks) \in Nat
      BY <1>1, <1>3, FS_CardinalityType, Zenon DEF IsCharge
    <3>2. e.bytes = ReceiptBytes + cost /\ e.bytes \in Nat
      BY <1>1, <3>1, Zenon DEF IsCharge
    <3>3. ReceiptBytes \in Nat /\ AckBytes \in Nat
      BY StoreAssumption, Zenon
    <3>4. cost \in Nat
      BY <3>1, <3>3
    <3> QED BY <3>1, <3>2, <3>3, <3>4, Zenon
  <2> HIDE DEF cost
  <2>3. /\ dedup'[i].acks = {} /\ dedup'[i].bytes = e.bytes - cost /\ dedup'[i].ver = e.ver
        /\ \A j \in Ids : j # i => dedup'[j] = dedup[j]
    <3> DEFINE f == [dedup EXCEPT ![i].acks = {}]
    <3>1. /\ DOMAIN f = Ids /\ f[i] = [e EXCEPT !.acks = {}]
          /\ \A j \in Ids : j # i => f[j] = dedup[j]
      BY <1>1, Zenon
    <3>2. f[i].acks = {} /\ f[i].bytes = e.bytes /\ f[i].ver = e.ver /\ DOMAIN f[i] = EntryFields
      BY <1>1, <3>1, Zenon DEF EntryFields
    <3>3. dedup' = [f EXCEPT ![i].bytes = @ - cost]
      BY <2>1, Zenon
    <3> HIDE DEF f, e
    <3>4. /\ dedup'[i] = [f[i] EXCEPT !.bytes = f[i].bytes - cost]
          /\ \A j \in Ids : j # i => dedup'[j] = f[j]
      BY <3>1, <3>3, ZenonT(30)
    <3> QED BY <3>1, <3>2, <3>4, Zenon DEF EntryFields
  <2> HIDE DEF e
  <2>4. IsCharge(dedup'[i])
    <3>1. Cardinality({}) = 0 /\ IsFiniteSet({})
      BY FS_EmptySet, Zenon
    <3>2. e.bytes - cost = ReceiptBytes + AckBytes * 0 /\ e.bytes - cost \in Nat
      BY <2>2
    <3> QED BY <2>2, <2>3, <3>1, <3>2, Zenon DEF IsCharge
  <2>5. \A j \in Ids : IsCharge(dedup'[j])
    BY <2>3, <2>4, Zenon DEF BudgetInv
  <2>6. \A j \in Ids : dedup[j].bytes \in Nat /\ dedup'[j].bytes \in Nat
    BY <2>5, Zenon DEF BudgetInv, IsCharge
  <2>7. SumBytes(dedup', Ids) = SumBytes(dedup, Ids) - dedup[i].bytes + dedup'[i].bytes
    <3>1. OneChange(dedup, dedup', i)
      BY <2>3, <2>6, ZenonT(30) DEF OneChange
    <3> QED BY <3>1, ChargeOfChange, Zenon
  <2>8. SumBytes(dedup, Ids) \in Nat /\ MaxDedupBytes \in Nat
    BY <2>6, IdsFinite, ChargeFinite, StoreAssumption, Zenon
  <2>9. e = dedup[i]
    BY Zenon DEF e
  <2>10. bytes' = SumBytes(dedup', Ids) /\ bytes' <= MaxDedupBytes
    <3>1. /\ bytes = SumBytes(dedup, Ids) /\ bytes <= MaxDedupBytes
          /\ bytes' = bytes - cost /\ e.bytes \in Nat /\ cost \in Nat
          /\ SumBytes(dedup', Ids) = SumBytes(dedup, Ids) - e.bytes + (e.bytes - cost)
      BY <1>1, <2>1, <2>2, <2>3, <2>7, <2>9, Zenon
    <3> QED BY <2>8, <3>1
  <2>11. SumBytes(dedup, Ids)' = SumBytes(dedup', Ids)
    BY Zenon DEF SumBytes, Charged, Ids
  <2> QED BY <2>1, <2>5, <2>10, <2>11, Zenon DEF BudgetInv
<1> QED BY <1>2, <1>3, Zenon

LEMMA BudgetInit == Init => BudgetInv
<1> SUFFICES ASSUME Init PROVE BudgetInv
  BY Zenon
<1>1. dedup = [i \in Ids |-> NoEntry] /\ bytes = 0 /\ heap = {}
  BY Zenon DEF Init
<1>2. IsCharge(NoEntry) /\ NoEntry.bytes = 0
  BY FS_EmptySet DEF NoEntry, IsCharge
<1>3. Charged(dedup, Ids) = {}
  <2>1. \A i \in Ids : {i} \X (1..dedup[i].bytes) = {}
    <3>1. 1..0 = {}
      OBVIOUS
    <3> QED BY <1>1, <1>2, <3>1
  <2> QED BY <2>1, Zenon DEF Charged
<1>4. SumBytes(dedup, Ids) = 0
  BY <1>3, FS_EmptySet, Zenon DEF SumBytes
<1>5. 0 <= MaxDedupBytes
  BY StoreAssumption
<1> QED BY <1>1, <1>2, <1>4, <1>5, Zenon DEF BudgetInv

LEMMA BudgetKept ==
    ASSUME BudgetInv, UNCHANGED <<dedup, bytes, heap>>
    PROVE  BudgetInv'
BY Zenon DEF BudgetInv, SumBytes, Charged, Ids, IsCharge

LEMMA BudgetApply ==
    ASSUME StoreInv, BudgetInv, NEW c \in Calls, Apply(c)
    PROVE  BudgetInv'
<1> DEFINE r == req[c]
           need == {<<f, Prepared[f]>> : f \in Required}
<1>1. r \in Requests /\ next \in Nat
  BY IdShape, Zenon DEF StoreInv, ShapeInv
<1>2. InsertReceipt(r, next + 1, need) /\ Refusal(r, call[c]) = "none"
  BY Zenon DEF Apply
<1>3. ~(KeptBytes + (ReceiptBytes + AckBytes * Cardinality(Required)) > MaxDedupBytes)
  <2> HIDE DEF r
  <2> QED BY <1>2, Zenon DEF Refusal
<1>4. IsFiniteSet(need) /\ Cardinality(need) = Cardinality(Required)
  BY NeedCount, Zenon
<1>5. KeptBytes + (ReceiptBytes + AckBytes * Cardinality(need)) <= MaxDedupBytes
  <2>1. Cardinality(Required) \in Nat /\ ReceiptBytes \in Nat /\ AckBytes \in Nat
        /\ MaxDedupBytes \in Nat
    BY StoreAssumption, FS_CardinalityType, Zenon
  <2>2. KeptBytes \in Nat
    BY KeptCharge, Zenon
  <2> HIDE DEF need
  <2> QED BY <1>3, <1>4, <2>1, <2>2
<1>6. next + 1 \in Nat \ {0}
  BY <1>1
<1> HIDE DEF r, need
<1> QED BY <1>1, <1>2, <1>4, <1>5, <1>6, BudgetInsert, ZenonT(30)

LEMMA BudgetStep == StoreInv /\ BudgetInv /\ [Next]_vars => BudgetInv'
<1> SUFFICES ASSUME StoreInv, BudgetInv, [Next]_vars PROVE BudgetInv'
  BY Zenon
<1>1. ASSUME NEW c \in Calls, FindReceipt(c) PROVE BudgetInv'
  BY <1>1, BudgetPurge, Zenon DEF FindReceipt
<1>2. ASSUME NEW c \in Calls, RefuseWrite(c) PROVE BudgetInv'
  <2>1. Purge \/ UNCHANGED receipts
    BY <1>2, ZenonT(30) DEF RefuseWrite
  <2> QED BY <2>1, BudgetPurge, BudgetKept, Zenon DEF receipts
<1>3. ASSUME NEW c \in Calls, AckCall(c) PROVE BudgetInv'
  <2>1. CompleteAcks(req[c].id, call[c].ver) \/ UNCHANGED receipts
    BY <1>3, ZenonT(30) DEF AckCall
  <2>2. req[c].id \in Ids
    BY IdShape, Zenon DEF StoreInv
  <2> QED BY <2>1, <2>2, BudgetComplete, BudgetKept, Zenon DEF receipts
<1>4. ASSUME NEW c \in Calls, BeginCall(c) \/ AckFails(c) PROVE BudgetInv'
  BY <1>4, BudgetKept, Zenon DEF BeginCall, AckFails, receipts
<1>5. ASSUME NEW S, Sweep(S) PROVE BudgetInv'
  BY <1>5, BudgetKept, Zenon DEF Sweep, receipts
<1>6. ASSUME NEW f, Acknowledge(f) PROVE BudgetInv'
  BY <1>6, BudgetKept, Zenon DEF Acknowledge, receipts
<1>7. ASSUME NEW m, SetMode(m) PROVE BudgetInv'
  BY <1>7, BudgetKept, Zenon DEF SetMode, receipts
<1>8. ASSUME NEW s, Reseed(s) PROVE BudgetInv'
  BY <1>8, BudgetKept, Zenon DEF Reseed
<1>9. CASE Tick \/ PrepareSource \/ PauseSource \/ RemoveSource
  BY <1>9, BudgetKept, Zenon DEF Tick, PrepareSource, PauseSource, RemoveSource, receipts
<1>10. CASE UNCHANGED vars
  BY <1>10, BudgetKept, Zenon DEF vars
<1> QED
  BY ZenonT(30), <1>1, <1>2, <1>3, <1>4, <1>5, <1>6, <1>7, <1>8, <1>9, <1>10, BudgetApply DEF Next

(* The byte budget of the receipts is exact and is kept, for any requests, followers,
   costs and limit: insert_dedup, purge_expired_dedup and complete_required_acks never
   charge or give back a byte twice, however the attempts interleave. *)
THEOREM BudgetExact == Spec => []BudgetIsExact
<1>1. StoreInv /\ BudgetInv => BudgetIsExact
  BY Zenon DEF BudgetInv, BudgetIsExact, IsCharge
<1> QED
  BY <1>1, InvInit, InvStep, BudgetInit, BudgetStep, PTL DEF Spec
=============================================================================

------------------------ MODULE RangeMigrationProofs ------------------------
(***************************************************************************)
(* A moved range keeps its writes, its receipts and its writability, for   *)
(* any keys, mutations, changes, interruptions, lost discards, lost        *)
(* processes and expiring records.  MoveInv is inductive: there is a lemma *)
(* per conjunct, with a step per action.                                   *)
(***************************************************************************)
EXTENDS RangeMigration, TLAPS, WellFoundedInduction

(* A non-empty set of versions has a largest one. *)
LEMMA LargestVersion ==
    ASSUME NEW S, S \subseteq Version, S # {}
    PROVE  Max(S) \in S /\ \A v \in S : v <= Max(S)
<1>1. MaxVersion \in Nat
  BY BoundsAssumption
<1> DEFINE D == {MaxVersion - v : v \in S}
<1>2. D \subseteq Nat /\ D # {}
  <2>1. \A v \in S : MaxVersion - v \in Nat
    BY <1>1 DEF Version
  <2> QED BY <2>1, Zenon
<1>3. PICK d \in D : \A e \in D : ~(<<e, d>> \in OpToRel(<, Nat))
  <2> HIDE DEF D
  <2>1. IsWellFoundedOn(OpToRel(<, Nat), Nat)
    BY NatLessThanWellFounded, Zenon
  <2> QED BY <1>2, <2>1, WFMin, Zenon
<1>4. PICK x \in S : d = MaxVersion - x
  BY <1>3, Zenon
<1>5. \A v \in S : x >= v
  <2> SUFFICES ASSUME NEW v \in S PROVE x >= v
    BY Zenon
  <2>1. MaxVersion - v \in D /\ MaxVersion - v \in Nat /\ d \in Nat
    BY <1>2, Zenon
  <2>2. ~(MaxVersion - v < d)
    BY <1>3, <2>1, Zenon DEF OpToRel
  <2>3. v \in Int /\ x \in Int
    BY <1>1 DEF Version
  <2> QED BY <1>1, <1>4, <2>2, <2>3
<1>6. \A v \in S : Max(S) >= v /\ Max(S) \in S
  BY <1>5, Zenon DEF Max
<1> QED
  BY <1>1, <1>6 DEF Version

-----------------------------------------------------------------------------
(* What the records are made of, and what an update leaves alone.          *)

Changes == 1 .. MaxChanges
Stagings == [Changes -> Staging]

LEMMA EntryParts ==
    ASSUME NEW e \in Entry
    PROVE  e.k \in Keys /\ e.v \in Version /\ e.v \in Nat /\ e.m \in Mutations
BY BoundsAssumption DEF Entry, Version

LEMMA SourceParts ==
    ASSUME NEW s \in Source
    PROVE  /\ s.on \in BOOLEAN /\ s.paused \in BOOLEAN /\ s.keys \subseteq Keys /\ s.ids \subseteq Mutations
           /\ s.log \in Seq(Entry) /\ Len(s.log) \in Nat
           /\ \A i \in 1 .. Len(s.log) : /\ s.log[i] \in Entry /\ s.log[i].k \in Keys /\ s.log[i].v \in Version
                                         /\ s.log[i].v \in Nat /\ s.log[i].m \in Mutations
<1>1. /\ s.on \in BOOLEAN /\ s.paused \in BOOLEAN /\ s.keys \subseteq Keys /\ s.ids \subseteq Mutations
      /\ s.log \in Seq(Entry)
  BY DEF Source
<1>2. Len(s.log) \in Nat /\ \A i \in 1 .. Len(s.log) : s.log[i] \in Entry
  <2> HIDE DEF Entry
  <2> QED BY <1>1
<1> QED
  BY <1>1, <1>2, EntryParts, Zenon

LEMMA NoSourceParts ==
    /\ NoSource \in Source /\ ~NoSource.on /\ NoSource.log = <<>> /\ Len(NoSource.log) = 0
    /\ NoSource.ids = {} /\ NoSource.keys = {}
<1>1. <<>> \in Seq(Entry) /\ Len(<<>>) = 0
  OBVIOUS
<1> QED
  BY <1>1 DEF NoSource, Source

(* put appends one entry to the journal. *)
LEMMA Journalling ==
    ASSUME NEW s \in Source, NEW m \in Mutations, NEW v \in Version, NEW t,
           t = [s EXCEPT !.log = Append(@, [k |-> KeyOf[m], v |-> v, m |-> m])]
    PROVE  /\ t \in Source /\ t.on = s.on /\ t.paused = s.paused /\ t.keys = s.keys /\ t.ids = s.ids
           /\ Len(t.log) = Len(s.log) + 1 /\ Len(s.log) \in Nat
           /\ \A i \in 1 .. Len(s.log) : t.log[i] = s.log[i]
           /\ t.log[Len(s.log) + 1].k = KeyOf[m] /\ t.log[Len(s.log) + 1].v = v
           /\ t.log[Len(s.log) + 1].m = m
<1> DEFINE e == [k |-> KeyOf[m], v |-> v, m |-> m]
<1>1. e \in Entry /\ e.k = KeyOf[m] /\ e.v = v /\ e.m = m
  BY BoundsAssumption DEF Entry
<1>2. s.log \in Seq(Entry)
  BY SourceParts, Zenon
<1> DEFINE l == Append(s.log, e)
<1>3. /\ l \in Seq(Entry) /\ Len(l) = Len(s.log) + 1 /\ Len(s.log) \in Nat
      /\ \A i \in 1 .. Len(s.log) : l[i] = s.log[i]
      /\ l[Len(s.log) + 1] = e
  <2> HIDE DEF e, Entry
  <2> QED BY <1>1, <1>2
<1>4. t = [s EXCEPT !.log = l]
  BY Zenon
<1> HIDE DEF l, e
<1>5. t \in Source /\ t.on = s.on /\ t.paused = s.paused /\ t.keys = s.keys /\ t.ids = s.ids /\ t.log = l
  BY <1>3, <1>4 DEF Source
<1> QED
  BY <1>1, <1>3, <1>5, Zenon

LEMMA Pausing ==
    ASSUME NEW s \in Source, NEW t, t = [s EXCEPT !.paused = TRUE]
    PROVE  t \in Source /\ t.on = s.on /\ t.paused /\ t.keys = s.keys /\ t.ids = s.ids /\ t.log = s.log
BY DEF Source

LEMMA StagingParts ==
    ASSUME NEW st \in Staging
    PROVE  /\ st.state \in {"none", "open", "committed", "active"}
           /\ st.rec \in Records /\ st.ids \subseteq Mutations /\ st.wm \in Nat
BY DEF Staging

LEMMA NoStagingParts ==
    /\ NoStaging \in Staging /\ NoStaging.state = "none"
    /\ [NoStaging EXCEPT !.state = "open"] \in Staging
    /\ [NoStaging EXCEPT !.state = "open"].state = "open"
    /\ [NoStaging EXCEPT !.state = "open"].rec = [k \in Keys |-> 0]
    /\ [NoStaging EXCEPT !.state = "open"].ids = {} /\ [NoStaging EXCEPT !.state = "open"].wm = 0
<1>1. [k \in Keys |-> 0] \in Records
  BY BoundsAssumption DEF Records, Version
<1> QED
  BY <1>1 DEF NoStaging, Staging

(* A change is under way unless the coordinator is idle. *)
LEMMA ActiveChange ==
    ASSUME TypeOK, StageInv, stage # "idle"
    PROVE  change \in Changes /\ staging \in Stagings /\ staging[change] \in Staging
<1>1. change \in 0 .. MaxChanges /\ change # 0 /\ MaxChanges \in Nat
  BY BoundsAssumption, Zenon DEF TypeOK, StageInv
<1>2. change \in Changes
  BY <1>1 DEF Changes
<1> QED
  BY <1>2, Zenon DEF TypeOK, Changes, Stagings

-----------------------------------------------------------------------------
(* What each step does to the staging of the active change.                *)

Others == \A d \in Changes : d # change => staging'[d] = staging[d]

LEMMA OpenStep ==
    ASSUME TypeOK, StageInv, PrepareDestination
    PROVE  /\ staging' \in Stagings /\ Others
           /\ \/ staging' = staging /\ staging[change].state # "none"
              \/ /\ staging'[change].state = "open" /\ staging'[change].rec = [k \in Keys |-> 0]
                 /\ staging'[change].ids = {} /\ staging'[change].wm = 0 /\ staging[change].state = "none"
<1>1. change \in Changes /\ staging \in Stagings
  BY ActiveChange DEF PrepareDestination
<1>2. CASE staging[change].state # "none"
  BY <1>1, <1>2, Zenon DEF PrepareDestination, Others
<1>3. CASE staging[change].state = "none"
  <2>1. staging' = [staging EXCEPT ![change] = [NoStaging EXCEPT !.state = "open"]]
    BY <1>3, Zenon DEF PrepareDestination
  <2>2. /\ staging' \in Stagings /\ staging'[change] = [NoStaging EXCEPT !.state = "open"] /\ Others
    <3>1. [NoStaging EXCEPT !.state = "open"] \in Staging
      BY NoStagingParts, Zenon
    <3>2. /\ staging' \in Stagings /\ staging'[change] = [NoStaging EXCEPT !.state = "open"]
          /\ \A d \in Changes : d # change => staging'[d] = staging[d]
      BY <1>1, <2>1, <3>1, Zenon DEF Stagings
    <3> QED BY <3>2, Zenon DEF Others
  <2> QED BY <1>3, <2>2, NoStagingParts, Zenon
<1> QED
  BY <1>2, <1>3, Zenon

(* A page changes one staged record, and none when it carries no record. *)
LEMMA PageStep ==
    ASSUME TypeOK, StageInv, ApplySnapshot
    PROVE  /\ staging' \in Stagings /\ Others
           /\ staging'[change].state = staging[change].state
           /\ staging'[change].ids = staging[change].ids /\ staging'[change].wm = staging[change].wm
           /\ page.k \in Keys /\ page.v \in Version
           /\ staging'[change].rec[page.k] = Newer(staging[change].rec[page.k], page.v)
           /\ \A k \in Keys : k # page.k => staging'[change].rec[k] = staging[change].rec[k]
           /\ staging'[change].rec = staging[change].rec \/ staging[change].state = "open"
<1>1. change \in Changes /\ staging \in Stagings /\ staging[change] \in Staging
  BY ActiveChange DEF ApplySnapshot
<1>2. PICK st : st = staging[change]
  BY Zenon
<1>3. page \in Page
  BY Zenon DEF TypeOK, ApplySnapshot
<1>4. page.k \in Keys /\ page.v \in Version /\ page.v \in Nat
  BY <1>3, BoundsAssumption DEF Page, Version
<1>5. PICK r : r = [st.rec EXCEPT ![page.k] = Newer(@, page.v)]
  BY Zenon
<1>6. st \in Staging /\ st.rec \in Records /\ \A k \in Keys : st.rec[k] \in Version /\ st.rec[k] \in Nat
  BY <1>1, <1>2, StagingParts, BoundsAssumption DEF Records, Version
<1>7. Newer(st.rec[page.k], page.v) \in Version
  BY <1>4, <1>6, Zenon DEF Newer
<1>8. /\ r \in Records /\ r[page.k] = Newer(st.rec[page.k], page.v)
      /\ \A k \in Keys : k # page.k => r[k] = st.rec[k]
  BY <1>4, <1>5, <1>6, <1>7, Zenon DEF Records
<1>9. PICK s : s = [st EXCEPT !.rec = r]
  BY Zenon
<1>10. s \in Staging /\ s.state = st.state /\ s.ids = st.ids /\ s.wm = st.wm /\ s.rec = r
  BY <1>6, <1>8, <1>9 DEF Staging
<1>11. staging' = [staging EXCEPT ![change] = s]
  BY <1>1, <1>2, <1>5, <1>9 DEF ApplySnapshot, Stagings, Staging
<1>12. staging' \in Stagings /\ staging'[change] = s /\ Others
  <2>1. /\ staging' \in Stagings /\ staging'[change] = s
        /\ \A d \in Changes : d # change => staging'[d] = staging[d]
    BY <1>1, <1>10, <1>11, Zenon DEF Stagings
  <2> QED BY <2>1, Zenon DEF Others
<1>13. ASSUME page.v = 0 PROVE r = st.rec
  <2>1. Newer(st.rec[page.k], page.v) = st.rec[page.k]
    BY <1>4, <1>6, <1>13 DEF Newer
  <2> QED BY <1>4, <1>6, <1>5, <2>1, Zenon DEF Records
<1>14. page.v = 0 \/ st.state = "open"
  BY <1>2, Zenon DEF ApplySnapshot, Staged
<1> QED
  BY <1>2, <1>4, <1>8, <1>10, <1>12, <1>13, <1>14, Zenon

(* Copied receipts are added to the staged ones. *)
LEMMA ReceiptStep ==
    ASSUME TypeOK, StageInv, CopyReceipts
    PROVE  /\ staging' \in Stagings /\ Others
           /\ staging'[change].state = staging[change].state
           /\ staging'[change].rec = staging[change].rec /\ staging'[change].wm = staging[change].wm
           /\ staging'[change].ids = staging[change].ids \cup source.ids
<1>1. change \in Changes /\ staging \in Stagings /\ staging[change] \in Staging
  BY ActiveChange DEF CopyReceipts
<1>2. PICK st : st = staging[change]
  BY Zenon
<1>3. source.ids \subseteq Mutations
  BY SourceParts, Zenon DEF TypeOK
<1>4. PICK s : s = [st EXCEPT !.ids = @ \cup source.ids]
  BY Zenon
<1>5. s \in Staging /\ s.state = st.state /\ s.ids = st.ids \cup source.ids /\ s.wm = st.wm /\ s.rec = st.rec
  BY <1>1, <1>2, <1>3, <1>4 DEF Staging
<1>6. staging' = [staging EXCEPT ![change] = s]
  BY <1>1, <1>2, <1>4 DEF CopyReceipts, Stagings, Staging
<1> QED
  <2>1. /\ staging' \in Stagings /\ staging'[change] = s
        /\ \A d \in Changes : d # change => staging'[d] = staging[d]
    BY <1>1, <1>5, <1>6, Zenon DEF Stagings
  <2> QED BY <1>2, <1>5, <2>1, Zenon DEF Others

(* A replayed page adds entries of the journal: a staged record becomes at *)
(* least as new as each of them, and is taken from the journal if it       *)
(* changes.                                                                *)
LEMMA ReplayStep ==
    ASSUME TypeOK, StageInv, NEW to \in Nat, ReplayPage(to)
    PROVE  /\ staging' \in Stagings /\ Others
           /\ staging[change].state = "open" /\ staging'[change].state = "open"
           /\ watermark \in Nat /\ staging[change].wm \in Nat
           /\ staging'[change].wm = Newer(staging[change].wm, to)
           /\ watermark' = to /\ to <= Len(source.log) /\ watermark <= staging[change].wm
           /\ staging[change].ids \subseteq staging'[change].ids
           /\ \A i \in staging[change].wm + 1 .. to :
                 /\ source.log[i].m \in staging'[change].ids
                 /\ source.log[i].v <= staging'[change].rec[source.log[i].k]
           /\ \A k \in Keys :
                 /\ staging[change].rec[k] <= staging'[change].rec[k]
                 /\ \/ staging'[change].rec[k] = staging[change].rec[k]
                    \/ \E i \in 1 .. Len(source.log) :
                          source.log[i].k = k /\ source.log[i].v = staging'[change].rec[k]
<1>1. change \in Changes /\ staging \in Stagings /\ staging[change] \in Staging
  BY ActiveChange DEF ReplayPage
<1>2. PICK st : st = staging[change]
  BY Zenon
<1>3. st \in Staging /\ st.rec \in Records /\ st.ids \subseteq Mutations /\ st.wm \in Nat
  BY <1>1, <1>2, StagingParts, Zenon
<1>4. PICK log : log = source.log
  BY Zenon
<1>5. /\ Len(log) \in Nat
      /\ \A i \in 1 .. Len(log) : log[i].k \in Keys /\ log[i].v \in Version /\ log[i].m \in Mutations
  BY <1>4, SourceParts, Zenon DEF TypeOK
<1>6. watermark \in Nat /\ watermark <= st.wm /\ to <= Len(log) /\ watermark' = to /\ st.state = "open"
  BY <1>2, <1>4, <1>5 DEF ReplayPage, TypeOK, Staged
<1> DEFINE fresh == st.wm + 1 .. to
           V(k) == {st.rec[k]} \cup {log[i].v : i \in {j \in fresh : log[j].k = k}}
           r == [k \in Keys |-> Max(V(k))]
           ids == st.ids \cup {log[i].m : i \in fresh}
<1>7. Newer(st.wm, watermark) = st.wm
  BY <1>3, <1>6 DEF Newer
<1>8. PICK s : s = [st EXCEPT !.rec = r, !.ids = ids, !.wm = Newer(@, to)]
  BY Zenon
<1>9. s = Replayed(st, watermark, to)
  BY <1>4, <1>7, <1>8 DEF Replayed
<1>10. fresh \subseteq 1 .. Len(log)
  BY <1>3, <1>5, <1>6
<1>11. \A k \in Keys : V(k) \subseteq Version /\ st.rec[k] \in V(k) /\ V(k) # {}
  <2> HIDE DEF fresh
  <2> QED BY <1>3, <1>5, <1>10, Zenon DEF Records
<1>12. \A k \in Keys : Max(V(k)) \in V(k) /\ Max(V(k)) \in Version /\ \A v \in V(k) : v <= Max(V(k))
  <2> HIDE DEF V
  <2> QED BY <1>11, LargestVersion, Zenon
<1>13. r \in Records /\ \A k \in Keys : r[k] \in V(k) /\ \A v \in V(k) : v <= r[k]
  <2> HIDE DEF V
  <2> QED BY <1>12, Zenon DEF Records
<1>14. ids \subseteq Mutations
  <2> HIDE DEF fresh
  <2> QED BY <1>3, <1>5, <1>10, Zenon
<1>15. Newer(st.wm, to) \in Nat
  BY <1>3, Zenon DEF Newer
<1>16. s \in Staging /\ s.state = st.state /\ s.rec = r /\ s.ids = ids /\ s.wm = Newer(st.wm, to)
  <2> HIDE DEF r, ids
  <2> QED BY <1>3, <1>8, <1>13, <1>14, <1>15 DEF Staging
<1>17. staging' = [staging EXCEPT ![change] = s]
  BY <1>1, <1>2, <1>9, Zenon DEF ReplayPage, Stagings
<1>18. /\ staging' \in Stagings /\ staging'[change] = s
       /\ \A d \in Changes : d # change => staging'[d] = staging[d]
  BY <1>1, <1>16, <1>17, Zenon DEF Stagings
<1>19. \A i \in fresh : log[i].m \in ids /\ log[i].v \in V(log[i].k) /\ log[i].k \in Keys
  <2> HIDE DEF fresh
  <2> QED BY <1>5, <1>10, Zenon
<1>20. \A i \in fresh : log[i].m \in s.ids /\ log[i].v <= s.rec[log[i].k]
  <2> HIDE DEF fresh, V, r, ids
  <2> QED BY <1>13, <1>16, <1>19, Zenon
<1>21. \A k \in Keys : st.rec[k] <= s.rec[k]
  <2> HIDE DEF fresh, V, r, ids
  <2> QED BY <1>11, <1>13, <1>16, Zenon
<1>22. \A k \in Keys : s.rec[k] = st.rec[k] \/ \E i \in 1 .. Len(log) : log[i].k = k /\ log[i].v = s.rec[k]
  <2> HIDE DEF fresh, r, ids
  <2> QED BY <1>10, <1>13, <1>16, Zenon
<1>23. st.ids \subseteq s.ids
  BY <1>16, Zenon
<1> HIDE DEF r, ids, V
<1>24. /\ staging[change] = st /\ staging'[change] = s /\ source.log = log
  BY <1>2, <1>4, <1>18, Zenon
<1>25. Others
  BY <1>18, Zenon DEF Others
<1>26. \A i \in staging[change].wm + 1 .. to :
          source.log[i].m \in staging'[change].ids /\ source.log[i].v <= staging'[change].rec[source.log[i].k]
  BY <1>20, <1>24, Zenon
<1>27. \A k \in Keys : staging[change].rec[k] <= staging'[change].rec[k]
  BY <1>21, <1>24, Zenon
<1>28. \A k \in Keys :
          \/ staging'[change].rec[k] = staging[change].rec[k]
          \/ \E i \in 1 .. Len(source.log) : source.log[i].k = k /\ source.log[i].v = staging'[change].rec[k]
  BY <1>22, <1>24, Zenon
<1>29. /\ staging[change].state = "open" /\ staging'[change].state = "open" /\ staging[change].wm \in Nat
       /\ staging'[change].wm = Newer(staging[change].wm, to) /\ to <= Len(source.log)
       /\ watermark <= staging[change].wm /\ staging[change].ids \subseteq staging'[change].ids
  BY <1>3, <1>6, <1>16, <1>23, <1>24, Zenon
<1> QED
  BY <1>6, <1>18, <1>25, <1>26, <1>27, <1>28, <1>29, Zenon

LEMMA CommitStep ==
    ASSUME TypeOK, StageInv, CommitRange
    PROVE  /\ staging' \in Stagings /\ Others
           /\ staging[change].state # "none" /\ staging'[change].state = "committed"
           /\ staging'[change].rec = staging[change].rec
<1>1. change \in Changes /\ staging \in Stagings /\ staging[change] \in Staging
  BY ActiveChange DEF CommitRange
<1>2. PICK st : st = staging[change]
  BY Zenon
<1>3. PICK s : s = [st EXCEPT !.state = "committed"]
  BY Zenon
<1>4. s \in Staging /\ s.state = "committed" /\ s.rec = st.rec
  BY <1>1, <1>2, <1>3 DEF Staging
<1>5. staging' = [staging EXCEPT ![change] = s]
  BY <1>1, <1>2, <1>3 DEF CommitRange, Stagings, Staging
<1>6. /\ staging' \in Stagings /\ staging'[change] = s
      /\ \A d \in Changes : d # change => staging'[d] = staging[d]
  BY <1>1, <1>4, <1>5, Zenon DEF Stagings
<1> QED
  BY <1>2, <1>4, <1>6, Zenon DEF Others, CommitRange

LEMMA ActivateStep ==
    ASSUME TypeOK, StageInv, ActivateRange
    PROVE  /\ staging' \in Stagings /\ Others
           /\ staging[change].state = "committed" /\ staging'[change].state = "active"
<1>1. change \in Changes /\ staging \in Stagings /\ staging[change] \in Staging
  BY ActiveChange DEF ActivateRange
<1>2. PICK st : st = staging[change]
  BY Zenon
<1>3. PICK s : s = [st EXCEPT !.state = "active"]
  BY Zenon
<1>4. s \in Staging /\ s.state = "active"
  BY <1>1, <1>2, <1>3 DEF Staging
<1>5. staging' = [staging EXCEPT ![change] = s]
  BY <1>1, <1>2, <1>3 DEF ActivateRange, Stagings, Staging
<1>6. /\ staging' \in Stagings /\ staging'[change] = s
      /\ \A d \in Changes : d # change => staging'[d] = staging[d]
  BY <1>1, <1>4, <1>5, Zenon DEF Stagings
<1> QED
  BY <1>4, <1>6, Zenon DEF Others, ActivateRange

(* A discard empties the staging of the change or is lost. *)
LEMMA ClearStep ==
    ASSUME TypeOK, StageInv, stage # "idle", ClearNodes
    PROVE  /\ staging' \in Stagings /\ Others
           /\ \/ staging'[change].state = "none" /\ lost' = lost
              \/ staging' = staging /\ lost' = lost + 1 /\ lost < MaxLost /\ process # 0
<1>1. change \in Changes /\ staging \in Stagings
  BY ActiveChange
<1>2. CASE staging' = [staging EXCEPT ![change] = NoStaging] /\ lost' = lost
  <2>1. /\ staging' \in Stagings /\ staging'[change] = NoStaging
        /\ \A d \in Changes : d # change => staging'[d] = staging[d]
    BY <1>1, <1>2, NoStagingParts, Zenon DEF Stagings
  <2> QED BY <1>2, <2>1, NoStagingParts, Zenon DEF Others
<1>3. CASE staging' = staging /\ lost' = lost + 1 /\ lost < MaxLost /\ process # 0
  BY <1>1, <1>3, Zenon DEF Others
<1> QED
  BY <1>2, <1>3, Zenon DEF ClearNodes

-----------------------------------------------------------------------------
(* Types.                                                                  *)

LEMMA StageNames ==
    /\ "planned" \in Stage /\ "sourced" \in Stage /\ "snapshot" \in Stage /\ "receipts" \in Stage
    /\ "replay" \in Stage /\ "copied" \in Stage /\ "final" \in Stage /\ "verified" \in Stage
    /\ "committed" \in Stage /\ "checked" \in Stage /\ "published" \in Stage /\ "installed" \in Stage
    /\ "activated" \in Stage /\ "serving" \in Stage /\ "complete" \in Stage /\ "resetting" \in Stage
    /\ "aborting" \in Stage /\ "aborted" \in Stage /\ "idle" \in Stage
BY DEF Stage, Copying, Prepublication

LEMMA BoundTypes ==
    /\ MaxVersion \in Nat /\ MaxChanges \in Nat /\ MaxFails \in Nat /\ MaxLost \in Nat /\ MaxCrashes \in Nat
    /\ 0 \in Version /\ \A v \in Version : v \in Nat
    /\ KeyOf \in [Mutations -> Keys] /\ [k \in Keys |-> 0] \in Records
BY BoundsAssumption DEF Version, Records

Unique(log) == \A i, j \in 1 .. Len(log) : log[i].m = log[j].m => i = j

(* A write keeps records and journal well typed. *)
LEMMA WriteTypes ==
    ASSUME TypeOK, StageInv, JournalInv, NEW m \in Mutations, next < MaxVersion
    PROVE  /\ next + 1 \in Version \ {0} /\ KeyOf[m] \in Keys
           /\ [src EXCEPT ![KeyOf[m]] = next + 1] \in Records
           /\ [dst EXCEPT ![KeyOf[m]] = next + 1] \in Records
           /\ [latest EXCEPT ![KeyOf[m]] = next + 1] \in Records
           /\ [applied EXCEPT ![m] = @ + 1] \in [Mutations -> Nat]
<1>1. next \in Version /\ KeyOf[m] \in Keys
  BY BoundTypes, Zenon DEF TypeOK
<1>2. next + 1 \in Version \ {0}
  BY <1>1, BoundTypes DEF Version
<1>3. applied[m] + 1 \in Nat
  BY DEF TypeOK
<1>4. [applied EXCEPT ![m] = @ + 1] \in [Mutations -> Nat]
  BY <1>3, Zenon DEF TypeOK
<1>5. src \in Records /\ dst \in Records /\ latest \in Records
  BY Zenon DEF TypeOK
<1> QED
  BY <1>1, <1>2, <1>4, <1>5, Zenon DEF Records

LEMMA WriteAtSourceType ==
    ASSUME TypeOK, StageInv, JournalInv, NEW m \in Mutations, WriteAtSource(m)
    PROVE  TypeOK'
<1>1. PICK v : v = next + 1
  BY Zenon
<1>2. next < MaxVersion /\ m \notin srcIds
  BY Zenon DEF WriteAtSource
<1>3. /\ next' \in Version \ {0} /\ src' \in Records /\ latest' \in Records /\ applied' \in [Mutations -> Nat]
      /\ v \in Version
  BY <1>1, <1>2, WriteTypes, Zenon DEF WriteAtSource
<1>4. source' \in Source /\ Unique(source'.log)
  <2>1. CASE ~source.on
    BY <2>1, Zenon DEF WriteAtSource, TypeOK, Unique
  <2>2. CASE source.on
    <3>1. source' = [source EXCEPT !.log = Append(@, [k |-> KeyOf[m], v |-> v, m |-> m])]
      BY <2>2, <1>1, Zenon DEF WriteAtSource
    <3>2. source \in Source /\ Unique(source.log)
      BY Zenon DEF TypeOK, Unique
    <3>3. /\ source' \in Source
          /\ Len(source'.log) = Len(source.log) + 1 /\ Len(source.log) \in Nat
          /\ \A i \in 1 .. Len(source.log) : source'.log[i] = source.log[i]
          /\ source'.log[Len(source.log) + 1].m = m
      BY <1>3, <3>1, <3>2, Journalling
    <3>4. \A i \in 1 .. Len(source.log) : source.log[i].m # m
      <4>1. srcIds = source.ids \cup {source.log[i].m : i \in 1 .. Len(source.log)}
        BY <2>2, Zenon DEF JournalInv
      <4> QED BY <1>2, <4>1, Zenon
    <3>5. ASSUME NEW i \in 1 .. Len(source'.log), NEW j \in 1 .. Len(source'.log), source'.log[i].m = source'.log[j].m
          PROVE  i = j
      <4>1. /\ i \in 1 .. Len(source.log) \/ i = Len(source.log) + 1
            /\ j \in 1 .. Len(source.log) \/ j = Len(source.log) + 1
        BY <3>3
      <4> QED BY <3>2, <3>3, <3>4, <3>5, <4>1, Zenon DEF Unique
    <3> QED BY <3>3, <3>5, Zenon DEF Unique
  <2> QED BY <2>1, <2>2, Zenon
<1>5. srcIds' \subseteq Mutations
  BY Zenon DEF WriteAtSource, TypeOK
<1> QED
  BY <1>3, <1>4, <1>5, Zenon DEF TypeOK, WriteAtSource, coordinator, progress, faults, Unique

LEMMA ClientTypes ==
    ASSUME TypeOK, StageInv, JournalInv
    PROVE  /\ \A m \in Mutations : WriteAtDestination(m) => TypeOK'
           /\ \A k \in Keys : Lapse(k) \/ SweepSource(k) \/ SweepDestination(k) => TypeOK'
<1>1. ASSUME NEW m \in Mutations, WriteAtDestination(m) PROVE TypeOK'
  <2>1. next < MaxVersion
    BY <1>1, Zenon DEF WriteAtDestination
  <2>2. /\ next' \in Version \ {0} /\ dst' \in Records /\ latest' \in Records /\ applied' \in [Mutations -> Nat]
    BY <1>1, <2>1, WriteTypes, Zenon DEF WriteAtDestination
  <2>3. dstIds' \subseteq Mutations
    BY <1>1, Zenon DEF WriteAtDestination, TypeOK
  <2> QED BY <1>1, <2>2, <2>3, Zenon DEF TypeOK, WriteAtDestination, coordinator, progress, faults
<1>2. ASSUME NEW k \in Keys, Lapse(k) PROVE TypeOK'
  <2>1. lapsed' = lapsed \cup {latest[k]} /\ lapsed \subseteq Version /\ latest \in Records
    BY <1>2, Zenon DEF Lapse, TypeOK
  <2>2. lapsed' \subseteq Version
    BY <2>1, Zenon DEF Records
  <2> QED BY <1>2, <2>2, Zenon DEF TypeOK, Lapse, nodes, coordinator, progress, faults
<1>3. ASSUME NEW k \in Keys, SweepSource(k) PROVE TypeOK'
  <2>1. src' \in Records
    BY <1>3, BoundTypes, Zenon DEF SweepSource, TypeOK, Records
  <2> QED BY <1>3, <2>1, Zenon DEF TypeOK, SweepSource, coordinator, progress, history, faults
<1>4. ASSUME NEW k \in Keys, SweepDestination(k) PROVE TypeOK'
  <2>1. dst' \in Records
    BY <1>4, BoundTypes, Zenon DEF SweepDestination, TypeOK, Records
  <2> QED BY <1>4, <2>1, Zenon DEF TypeOK, SweepDestination, coordinator, progress, history, faults
<1> QED
  BY <1>1, <1>2, <1>3, <1>4, Zenon

LEMMA CopyTypes ==
    ASSUME TypeOK, StageInv, JournalInv
    PROVE  /\ BeginChange \/ PrepareSource \/ PrepareDestination => TypeOK'
           /\ \A k \in Keys : ReadSnapshot(k) => TypeOK'
           /\ ApplySnapshot \/ SnapshotDone \/ CopyReceipts \/ ReplayDone => TypeOK'
           /\ \A to \in Nat : ReplayPage(to) => TypeOK'
<1>1. ASSUME BeginChange PROVE TypeOK'
  <2>1. change' \in 0 .. MaxChanges
    BY <1>1, BoundTypes DEF BeginChange, TypeOK
  <2> QED BY <1>1, <2>1, StageNames, Zenon DEF TypeOK, BeginChange, nodes, history, faults
<1>2. ASSUME PrepareSource PROVE TypeOK'
  <2>1. srcIds \subseteq Mutations /\ <<>> \in Seq(Entry) /\ Len(<<>>) = 0
    BY DEF TypeOK
  <2>2. source' \in Source /\ Len(source'.log) = 0
    BY <1>2, <2>1 DEF PrepareSource, Source
  <2>3. Unique(source'.log)
    BY <2>2 DEF Unique
  <2> QED BY <1>2, <2>2, <2>3, StageNames, Zenon DEF TypeOK, PrepareSource, nodes, progress, history, faults, Unique
<1>3. ASSUME PrepareDestination PROVE TypeOK'
  <2>1. staging' \in [1 .. MaxChanges -> Staging]
    BY <1>3, OpenStep, Zenon DEF Stagings, Changes
  <2>2. todo' \subseteq Keys
    BY <1>3, SourceParts, Zenon DEF PrepareDestination, TypeOK
  <2>3. expected' \in 0 .. MaxCrashes + 1 /\ watermark' \in Nat
    BY <1>3 DEF PrepareDestination, TypeOK
  <2> QED BY <1>3, <2>1, <2>2, <2>3, StageNames, Zenon DEF TypeOK, PrepareDestination, nodes, history, faults
<1>4. ASSUME NEW k \in Keys, ReadSnapshot(k) PROVE TypeOK'
  <2>1. src[k] \in Version
    BY Zenon DEF TypeOK, Records
  <2>2. page' \in Page
    BY <1>4, <2>1, Zenon DEF ReadSnapshot, Page
  <2> QED BY <1>4, <2>2, Zenon DEF TypeOK, ReadSnapshot, nodes, history, faults
<1>5. ASSUME ApplySnapshot PROVE TypeOK'
  <2>1. staging' \in [1 .. MaxChanges -> Staging]
    BY <1>5, PageStep, Zenon DEF Stagings, Changes
  <2>2. todo' \subseteq Keys
    BY <1>5, Zenon DEF ApplySnapshot, TypeOK
  <2> QED BY <1>5, <2>1, <2>2, Zenon DEF TypeOK, ApplySnapshot, nodes, history, faults
<1>6. ASSUME SnapshotDone PROVE TypeOK'
  BY <1>6, StageNames, Zenon DEF TypeOK, SnapshotDone, nodes, progress, history, faults
<1>7. ASSUME CopyReceipts PROVE TypeOK'
  <2>1. staging' \in [1 .. MaxChanges -> Staging]
    BY <1>7, ReceiptStep, Zenon DEF Stagings, Changes
  <2> QED BY <1>7, <2>1, StageNames, Zenon DEF TypeOK, CopyReceipts, nodes, progress, history, faults
<1>8. ASSUME ReplayDone PROVE TypeOK'
  BY <1>8, StageNames, Zenon DEF TypeOK, ReplayDone, nodes, progress, history, faults
<1>9. ASSUME NEW to \in Nat, ReplayPage(to) PROVE TypeOK'
  <2>1. staging' \in [1 .. MaxChanges -> Staging] /\ watermark' \in Nat
    BY <1>9, ReplayStep, Zenon DEF Stagings, Changes
  <2> QED BY <1>9, <2>1, Zenon DEF TypeOK, ReplayPage, nodes, history, faults
<1> QED
  BY <1>1, <1>2, <1>3, <1>4, <1>5, <1>6, <1>7, <1>8, <1>9, Zenon

LEMMA CutoverTypes ==
    ASSUME TypeOK, StageInv, JournalInv
    PROVE  /\ PauseRange \/ VerifyRange \/ CommitRange \/ VerifyInstance \/ Publish => TypeOK'
           /\ InstallTopology \/ ActivateRange \/ SetActivationReady \/ CleanupSource => TypeOK'
<1>1. ASSUME PauseRange PROVE TypeOK'
  <2>1. source' \in Source /\ source'.log = source.log
    BY <1>1, Pausing, Zenon DEF PauseRange, TypeOK
  <2> QED BY <1>1, <2>1, StageNames, ZenonT(30) DEF TypeOK, PauseRange, nodes, progress, history, faults
<1>2. ASSUME VerifyRange PROVE TypeOK'
  BY <1>2, StageNames, Zenon DEF TypeOK, VerifyRange, nodes, progress, history, faults
<1>3. ASSUME CommitRange PROVE TypeOK'
  <2>1. staging' \in [1 .. MaxChanges -> Staging]
    BY <1>3, CommitStep, Zenon DEF Stagings, Changes
  <2>2. staging[change] \in Staging
    BY <1>3, ActiveChange DEF CommitRange
  <2>3. staging[change].rec \in Records /\ staging[change].ids \subseteq Mutations
    BY <2>2, StagingParts, Zenon
  <2>4. dst' \in Records /\ dstIds' \subseteq Mutations
    BY <1>3, <2>3, Zenon DEF CommitRange, TypeOK
  <2> QED BY <1>3, <2>1, <2>4, StageNames, Zenon DEF TypeOK, CommitRange, progress, history, faults
<1>4. ASSUME VerifyInstance PROVE TypeOK'
  BY <1>4, StageNames, Zenon DEF TypeOK, VerifyInstance, nodes, progress, history, faults
<1>5. ASSUME Publish PROVE TypeOK'
  BY <1>5, StageNames, Zenon DEF TypeOK, Publish, nodes, progress, history, faults
<1>6. ASSUME InstallTopology PROVE TypeOK'
  BY <1>6, StageNames, Zenon DEF TypeOK, InstallTopology, nodes, progress, history, faults
<1>7. ASSUME ActivateRange PROVE TypeOK'
  <2>1. staging' \in [1 .. MaxChanges -> Staging]
    BY <1>7, ActivateStep, Zenon DEF Stagings, Changes
  <2> QED BY <1>7, <2>1, StageNames, Zenon DEF TypeOK, ActivateRange, nodes, progress, history, faults
<1>8. ASSUME SetActivationReady PROVE TypeOK'
  BY <1>8, StageNames, Zenon DEF TypeOK, SetActivationReady, nodes, progress, history, faults
<1>9. ASSUME CleanupSource PROVE TypeOK'
  <2>1. source' \in Source /\ Len(source'.log) = 0
    BY <1>9, NoSourceParts, Zenon DEF CleanupSource
  <2>2. Unique(source'.log)
    BY <2>1 DEF Unique
  <2>3. src' \in Records
    BY <1>9, BoundTypes, Zenon DEF CleanupSource, TypeOK
  <2> QED BY <1>9, <2>1, <2>2, <2>3, StageNames, ZenonT(30) DEF TypeOK, CleanupSource, progress, history, faults, Unique
<1> QED
  BY <1>1, <1>2, <1>3, <1>4, <1>5, <1>6, <1>7, <1>8, <1>9, Zenon

LEMMA FaultTypes ==
    ASSUME TypeOK, StageInv, JournalInv
    PROVE  /\ Interrupt \/ Fail \/ Reset \/ FinishAbort => TypeOK'
           /\ CrashDestination \/ RestartDestination \/ RecoverJoin => TypeOK'
<1>0. Len(NoSource.log) = 0 /\ NoSource \in Source /\ Unique(NoSource.log)
  BY NoSourceParts DEF Unique
<1>1. ASSUME Interrupt PROVE TypeOK'
  <2>1. fails' \in 0 .. MaxFails /\ expected' \in 0 .. MaxCrashes + 1 /\ watermark' \in Nat
    BY <1>1, BoundTypes DEF Interrupt, TypeOK
  <2> QED BY <1>1, <2>1, StageNames, Zenon DEF TypeOK, Interrupt, nodes, history
<1>2. ASSUME Fail PROVE TypeOK'
  <2>1. expected' \in 0 .. MaxCrashes + 1 /\ watermark' \in Nat
    BY <1>2, BoundTypes DEF Fail, TypeOK
  <2>2. stage' \in {"resetting", "aborting"}
    BY <1>2, Zenon DEF Fail
  <2> QED BY <1>2, <2>1, <2>2, StageNames, ZenonT(30) DEF TypeOK, Fail, nodes, history, faults
<1>3. ASSUME Reset \/ FinishAbort PROVE TypeOK'
  <2>0. stage # "idle" /\ ClearNodes
    BY <1>3, Zenon DEF Reset, FinishAbort
  <2>1. staging' \in [1 .. MaxChanges -> Staging]
    BY <2>0, ClearStep, Zenon DEF Stagings, Changes
  <2>2. lost' \in 0 .. MaxLost
    <3>1. lost \in 0 .. MaxLost /\ (lost' = lost \/ (lost' = lost + 1 /\ lost < MaxLost))
      BY <2>0, Zenon DEF ClearNodes, TypeOK
    <3> QED BY <3>1, BoundTypes
  <2>3. source' \in Source /\ Unique(source'.log)
    BY <1>0, <1>3, Zenon DEF Reset, FinishAbort, ClearNodes
  <2> QED BY <1>3, <2>1, <2>2, <2>3, StageNames, ZenonT(30) DEF TypeOK, Reset, FinishAbort, nodes, progress, history, Unique
<1>4. ASSUME CrashDestination PROVE TypeOK'
  <2>1. process' \in 0 .. MaxCrashes + 1 /\ crashes' \in 0 .. MaxCrashes
    BY <1>4, BoundTypes DEF CrashDestination, TypeOK
  <2>2. staging' \in [1 .. MaxChanges -> Staging]
    BY <1>4, NoStagingParts, Zenon DEF CrashDestination
  <2> QED BY <1>4, <2>1, <2>2, BoundTypes, Zenon DEF TypeOK, CrashDestination, coordinator, progress, history
<1>5. ASSUME RestartDestination PROVE TypeOK'
  <2>1. process' \in 0 .. MaxCrashes + 1
    BY <1>5, BoundTypes DEF RestartDestination, TypeOK
  <2> QED BY <1>5, <2>1, Zenon DEF TypeOK, RestartDestination, nodes, coordinator, progress, history, faults
<1>6. ASSUME RecoverJoin PROVE TypeOK'
  <2>1. expected' \in 0 .. MaxCrashes + 1 /\ watermark' \in Nat
    <3>1. expected' = 0 /\ watermark' = 0
      BY <1>6, Zenon DEF RecoverJoin
    <3> QED BY <3>1, BoundTypes
  <2> QED BY <1>0, <1>6, <2>1, StageNames, ZenonT(30) DEF TypeOK, RecoverJoin, nodes, history, faults, Unique
<1> QED
  BY <1>1, <1>2, <1>3, <1>4, <1>5, <1>6, Zenon

LEMMA TypeStep ==
    ASSUME TypeOK, StageInv, JournalInv, [Next]_vars
    PROVE  TypeOK'
<1>1. CASE CoordinatorStep
  <2>1. \A to \in 1 .. Len(source.log) : to \in Nat
    OBVIOUS
  <2> QED BY <1>1, <2>1, CopyTypes, CutoverTypes, FaultTypes, Zenon DEF CoordinatorStep
<1>2. CASE UNCHANGED vars
  BY <1>2, Zenon DEF TypeOK, vars, nodes, coordinator, progress, history, faults
<1> QED
  BY <1>1, <1>2, WriteAtSourceType, ClientTypes, CopyTypes, FaultTypes, Zenon DEF Next

-----------------------------------------------------------------------------
(* The stage decides who serves and whether the source is paused.          *)

LEMMA StageOfClients ==
    ASSUME TypeOK, StageInv, JournalInv
    PROVE  /\ \A m \in Mutations : WriteAtSource(m) \/ WriteAtDestination(m) => StageInv'
           /\ \A k \in Keys : Lapse(k) \/ SweepSource(k) \/ SweepDestination(k) => StageInv'
<1>1. ASSUME NEW m \in Mutations, WriteAtSource(m) PROVE StageInv'
  <2>1. source'.on = source.on /\ source'.paused = source.paused
    <3>1. CASE ~source.on
      BY <1>1, <3>1, Zenon DEF WriteAtSource
    <3>2. CASE source.on
      <4>1. PICK v : v = next + 1
        BY Zenon
      <4>2. v \in Version
        BY <1>1, <4>1, WriteTypes, Zenon DEF WriteAtSource
      <4>3. source' = [source EXCEPT !.log = Append(@, [k |-> KeyOf[m], v |-> v, m |-> m])]
        BY <1>1, <3>2, <4>1, Zenon DEF WriteAtSource
      <4> QED BY <4>2, <4>3, Journalling DEF TypeOK
    <3> QED BY <3>1, <3>2, Zenon
  <2> QED BY <1>1, <2>1, Zenon DEF StageInv, WriteAtSource, coordinator, progress
<1>2. ASSUME NEW m \in Mutations, WriteAtDestination(m) PROVE StageInv'
  BY <1>2, Zenon DEF StageInv, WriteAtDestination, coordinator, progress
<1>3. ASSUME NEW k \in Keys, Lapse(k) \/ SweepSource(k) \/ SweepDestination(k) PROVE StageInv'
  BY <1>3, Zenon DEF StageInv, Lapse, SweepSource, SweepDestination, coordinator, progress
<1> QED
  BY <1>1, <1>2, <1>3, Zenon

LEMMA StageStep ==
    ASSUME TypeOK, StageInv, JournalInv, [Next]_vars
    PROVE  StageInv'
<1> USE DEF StageInv, Cutover
<1>1. ASSUME BeginChange PROVE StageInv'
  <2>1. change' # 0
    BY <1>1, BoundTypes DEF BeginChange, TypeOK
  <2> QED BY <1>1, <2>1 DEF BeginChange
<1>2. ASSUME PrepareSource PROVE StageInv'
  <2>1. source'.on
    BY <1>2 DEF PrepareSource
  <2> QED BY <1>2, <2>1 DEF PrepareSource, progress
<1>3. ASSUME PrepareDestination PROVE StageInv'
  BY <1>3 DEF PrepareDestination
<1>4. ASSUME NEW k \in Keys, ReadSnapshot(k) PROVE StageInv'
  BY <1>4 DEF ReadSnapshot
<1>5. ASSUME ApplySnapshot PROVE StageInv'
  BY <1>5 DEF ApplySnapshot
<1>6. ASSUME SnapshotDone PROVE StageInv'
  BY <1>6 DEF SnapshotDone, progress
<1>7. ASSUME CopyReceipts PROVE StageInv'
  BY <1>7 DEF CopyReceipts, progress
<1>8. ASSUME ReplayDone PROVE StageInv'
  BY <1>8 DEF ReplayDone, progress
<1>9. ASSUME NEW to \in Nat, ReplayPage(to) PROVE StageInv'
  BY <1>9 DEF ReplayPage
<1>10. ASSUME PauseRange PROVE StageInv'
  <2>1. source'.on = source.on /\ source'.paused
    BY <1>10, Pausing, Zenon DEF PauseRange, TypeOK
  <2> QED BY <1>10, <2>1 DEF PauseRange, progress
<1>11. ASSUME VerifyRange PROVE StageInv'
  BY <1>11 DEF VerifyRange, progress
<1>12. ASSUME CommitRange PROVE StageInv'
  BY <1>12 DEF CommitRange, progress
<1>13. ASSUME VerifyInstance PROVE StageInv'
  BY <1>13 DEF VerifyInstance, progress
<1>14. ASSUME Publish PROVE StageInv'
  BY <1>14 DEF Publish, progress
<1>15. ASSUME InstallTopology PROVE StageInv'
  BY <1>15 DEF InstallTopology, progress
<1>16. ASSUME ActivateRange PROVE StageInv'
  BY <1>16 DEF ActivateRange, progress
<1>17. ASSUME SetActivationReady PROVE StageInv'
  BY <1>17 DEF SetActivationReady, progress
<1>18. ASSUME CleanupSource PROVE StageInv'
  <2>1. ~source'.on
    BY <1>18, NoSourceParts, Zenon DEF CleanupSource
  <2> QED BY <1>18, <2>1 DEF CleanupSource, progress
<1>19. ASSUME Interrupt PROVE StageInv'
  BY <1>19 DEF Interrupt, Prepublication, Copying
<1>20. ASSUME Fail PROVE StageInv'
  <2>1. stage' \in {"resetting", "aborting"}
    BY <1>20, Zenon DEF Fail
  <2>2. stage \in {"sourced", "snapshot", "receipts", "replay", "final", "verified", "committed", "checked"}
    BY <1>20, Zenon DEF Fail, Refused
  <2> QED BY <1>20, <2>1, <2>2 DEF Fail
<1>21. ASSUME Reset \/ FinishAbort PROVE StageInv'
  <2>1. ~source'.on
    BY <1>21, NoSourceParts, Zenon DEF Reset, FinishAbort, ClearNodes
  <2> QED BY <1>21, <2>1 DEF Reset, FinishAbort, progress
<1>22. ASSUME CrashDestination \/ RestartDestination PROVE StageInv'
  BY <1>22, Zenon DEF CrashDestination, RestartDestination, coordinator, progress
<1>23. ASSUME RecoverJoin PROVE StageInv'
  <2>1. ~source'.on
    BY <1>23, NoSourceParts, Zenon DEF RecoverJoin
  <2> QED BY <1>23, <2>1 DEF RecoverJoin
<1>24. ASSUME UNCHANGED vars PROVE StageInv'
  BY <1>24, Zenon DEF vars, coordinator, progress
<1> HIDE DEF StageInv
<1>25. ASSUME CoordinatorStep PROVE StageInv'
  <2>1. \A to \in 1 .. Len(source.log) : to \in Nat
    OBVIOUS
  <2> QED BY <1>2, <1>3, <1>4, <1>5, <1>6, <1>7, <1>8, <1>9, <1>10, <1>11, <1>12, <1>13, <1>14, <1>15, <1>16,
             <1>17, <1>18, <1>20, <1>21, <1>23, <1>25, <2>1, ZenonT(30) DEF CoordinatorStep
<1> QED
  BY <1>1, <1>19, <1>22, <1>24, <1>25, StageOfClients, Zenon DEF Next

-----------------------------------------------------------------------------
(* Processes and the states of staging.                                    *)

SameStates == \A c \in Changes : staging'[c].state = staging[c].state

(* The steps that leave the states of all staging alone. *)
LEMMA StatesKept ==
    ASSUME TypeOK, StageInv
    PROVE  /\ staging' = staging => SameStates
           /\ ApplySnapshot \/ CopyReceipts => SameStates
           /\ \A to \in Nat : ReplayPage(to) => SameStates
<1>1. ASSUME ApplySnapshot PROVE SameStates
  BY <1>1, PageStep, Zenon DEF SameStates, Others
<1>2. ASSUME CopyReceipts PROVE SameStates
  BY <1>2, ReceiptStep, Zenon DEF SameStates, Others
<1>3. ASSUME NEW to \in Nat, ReplayPage(to) PROVE SameStates
  BY <1>3, ReplayStep, Zenon DEF SameStates, Others
<1> QED
  BY <1>1, <1>2, <1>3, Zenon DEF SameStates

(* Steps within an attempt, up to publication. *)
LEMMA ProcessInAttempt ==
    ASSUME TypeOK, StageInv, ProcessInv, SameStates,
           process' = process /\ crashes' = crashes /\ expected' = expected /\ change' = change,
           \/ stage' = stage
           \/ stage \in Prepublication \ {"sourced"} /\ stage' \in Prepublication \ {"sourced"}
           \/ stage' \in {"resetting", "aborting", "planned", "sourced", "aborted"}
           \/ stage \in {"published", "installed", "activated"} /\ stage' \in {"published", "installed", "activated"}
           \/ stage = "activated" /\ stage' = "serving" /\ process # 0
           \/ stage = "serving" /\ stage' = "complete"
    PROVE  ProcessInv'
<1>1. stage' = "idle" => stage = "idle"
  BY DEF Prepublication, Copying
<1>2. stage # "idle" => staging'[change].state = staging[change].state
  BY ActiveChange, Zenon DEF SameStates
<1>3. /\ process' \in {0, crashes' + 1}
      /\ process' = 0 => \A c \in 1 .. MaxChanges : staging'[c].state = "none"
  BY Zenon DEF ProcessInv, SameStates, Changes
<1>4. stage' \in Prepublication \ {"sourced"} =>
        /\ expected' \in 1 .. crashes' + 1 /\ (process' = 0 => expected' <= crashes')
        /\ process' = expected' => staging'[change'].state # "none"
  <2>1. ASSUME stage' \in Prepublication \ {"sourced"} PROVE stage \in Prepublication \ {"sourced"} /\ stage # "idle"
    BY <2>1 DEF Prepublication, Copying
  <2> QED BY <1>2, <2>1, Zenon DEF ProcessInv
<1>5. stage' \in {"published", "installed", "activated"} => (process' # 0 => staging'[change'].state # "none")
  <2>1. ASSUME stage' \in {"published", "installed", "activated"}
        PROVE  stage \in {"published", "installed", "activated"} /\ stage # "idle"
    BY <2>1 DEF Prepublication, Copying
  <2> QED BY <1>2, <2>1, Zenon DEF ProcessInv
<1>6. stage' \in {"serving", "complete"} => process' # 0
  BY DEF ProcessInv, Prepublication, Copying
<1> QED
  BY <1>3, <1>4, <1>5, <1>6, Zenon DEF ProcessInv

LEMMA ProcessOfCopy ==
    ASSUME TypeOK, StageInv, ProcessInv
    PROVE  /\ BeginChange \/ PrepareSource \/ PrepareDestination => ProcessInv'
           /\ \A k \in Keys : ReadSnapshot(k) => ProcessInv'
           /\ ApplySnapshot \/ SnapshotDone \/ CopyReceipts \/ ReplayDone => ProcessInv'
           /\ \A to \in Nat : ReplayPage(to) => ProcessInv'
<1>1. ASSUME BeginChange PROVE ProcessInv'
  BY <1>1 DEF BeginChange, ProcessInv, faults, Prepublication, Copying
<1>2. ASSUME PrepareSource PROVE ProcessInv'
  BY <1>2, StatesKept, ProcessInAttempt, Zenon DEF PrepareSource, progress, faults
<1>3. ASSUME PrepareDestination PROVE ProcessInv'
  <2>1. process # 0 /\ process' = process /\ crashes' = crashes /\ change' = change /\ expected' = process
        /\ stage' = "snapshot"
    BY <1>3, Zenon DEF PrepareDestination, faults
  <2>2. staging'[change].state # "none"
    BY <1>3, OpenStep, Zenon
  <2>3. crashes \in Nat /\ process = crashes + 1
    BY <2>1, BoundTypes DEF TypeOK, ProcessInv
  <2>4. expected' \in 1 .. crashes' + 1 /\ process' # 0
    BY <2>1, <2>3
  <2>5. stage' \notin {"published", "installed", "activated"} /\ stage' \notin {"serving", "complete"}
    BY <2>1, Zenon
  <2> QED BY <2>1, <2>2, <2>3, <2>4, <2>5, Zenon DEF ProcessInv
<1>4. ASSUME NEW k \in Keys, ReadSnapshot(k) PROVE ProcessInv'
  BY <1>4, StatesKept, ProcessInAttempt, Zenon DEF ReadSnapshot, faults
<1>5. ASSUME ApplySnapshot PROVE ProcessInv'
  BY <1>5, StatesKept, ProcessInAttempt, Zenon DEF ApplySnapshot, faults
<1>6. "snapshot" \in Prepublication \ {"sourced"} /\ "receipts" \in Prepublication \ {"sourced"}
      /\ "replay" \in Prepublication \ {"sourced"} /\ "copied" \in Prepublication \ {"sourced"}
  BY DEF Prepublication, Copying
<1>7. ASSUME SnapshotDone PROVE ProcessInv'
  BY <1>6, <1>7, StatesKept, ProcessInAttempt, Zenon DEF SnapshotDone, progress, faults
<1>8. ASSUME CopyReceipts PROVE ProcessInv'
  BY <1>6, <1>8, StatesKept, ProcessInAttempt, Zenon DEF CopyReceipts, progress, faults
<1>9. ASSUME ReplayDone PROVE ProcessInv'
  BY <1>6, <1>9, StatesKept, ProcessInAttempt, Zenon DEF ReplayDone, progress, faults
<1>10. ASSUME NEW to \in Nat, ReplayPage(to) PROVE ProcessInv'
  BY <1>10, StatesKept, ProcessInAttempt, Zenon DEF ReplayPage, faults
<1> QED
  BY <1>1, <1>2, <1>3, <1>4, <1>5, <1>7, <1>8, <1>9, <1>10, Zenon

LEMMA ProcessOfCutover ==
    ASSUME TypeOK, StageInv, ProcessInv
    PROVE  /\ PauseRange \/ VerifyRange \/ CommitRange \/ VerifyInstance \/ Publish => ProcessInv'
           /\ InstallTopology \/ ActivateRange \/ SetActivationReady \/ CleanupSource => ProcessInv'
<1>0. "copied" \in Prepublication \ {"sourced"} /\ "final" \in Prepublication \ {"sourced"}
      /\ "verified" \in Prepublication \ {"sourced"} /\ "committed" \in Prepublication \ {"sourced"}
      /\ "checked" \in Prepublication \ {"sourced"}
  BY DEF Prepublication, Copying
<1>1. ASSUME PauseRange PROVE ProcessInv'
  BY <1>0, <1>1, StatesKept, ProcessInAttempt, Zenon DEF PauseRange, progress, faults
<1>2. ASSUME VerifyRange PROVE ProcessInv'
  BY <1>0, <1>2, StatesKept, ProcessInAttempt, Zenon DEF VerifyRange, progress, faults
<1>3. ASSUME CommitRange PROVE ProcessInv'
  <2>1. process # 0 /\ process' = process /\ crashes' = crashes /\ change' = change /\ expected' = expected
        /\ stage = "verified" /\ stage' = "committed"
    BY <1>3, Zenon DEF CommitRange, progress, faults
  <2>2. staging'[change].state # "none"
    BY <1>3, CommitStep, Zenon
  <2>3. stage' \notin {"published", "installed", "activated"} /\ stage' \notin {"serving", "complete"}
    BY <2>1, Zenon
  <2> QED BY <1>0, <2>1, <2>2, <2>3, Zenon DEF ProcessInv
<1>4. ASSUME VerifyInstance PROVE ProcessInv'
  BY <1>0, <1>4, StatesKept, ProcessInAttempt, Zenon DEF VerifyInstance, progress, faults
<1>5. ASSUME Publish PROVE ProcessInv'
  <2>1. process' = process /\ crashes' = crashes /\ change' = change /\ expected' = expected
        /\ stage = "checked" /\ stage' = "published" /\ staging' = staging
        /\ (process # 0 => process = expected)
    BY <1>5, Zenon DEF Publish, Registered, progress, faults
  <2>2. process # 0 => staging[change].state # "none"
    BY <1>0, <2>1, Zenon DEF ProcessInv
  <2>3. stage' \notin Prepublication \ {"sourced"} /\ stage' \notin {"serving", "complete"}
    BY <2>1 DEF Prepublication, Copying
  <2> QED BY <2>1, <2>2, <2>3, Zenon DEF ProcessInv
<1>6. ASSUME InstallTopology PROVE ProcessInv'
  BY <1>6, StatesKept, ProcessInAttempt, Zenon DEF InstallTopology, progress, faults
<1>7. ASSUME ActivateRange PROVE ProcessInv'
  <2>1. process # 0 /\ process' = process /\ crashes' = crashes /\ change' = change
        /\ stage = "installed" /\ stage' = "activated"
    BY <1>7, Zenon DEF ActivateRange, progress, faults
  <2>2. staging'[change].state # "none"
    BY <1>7, ActivateStep, Zenon
  <2>3. stage' \notin Prepublication \ {"sourced"} /\ stage' \notin {"serving", "complete"}
    BY <2>1 DEF Prepublication, Copying
  <2> QED BY <2>1, <2>2, <2>3, Zenon DEF ProcessInv
<1>8. ASSUME SetActivationReady PROVE ProcessInv'
  BY <1>8, StatesKept, ProcessInAttempt, Zenon DEF SetActivationReady, progress, faults
<1>9. ASSUME CleanupSource PROVE ProcessInv'
  BY <1>9, StatesKept, ProcessInAttempt, Zenon DEF CleanupSource, progress, faults
<1> QED
  BY <1>1, <1>2, <1>3, <1>4, <1>5, <1>6, <1>7, <1>8, <1>9, Zenon

LEMMA ProcessStep ==
    ASSUME TypeOK, StageInv, ProcessInv, [Next]_vars
    PROVE  ProcessInv'
<1>0. crashes \in Nat
  BY BoundTypes DEF TypeOK
<1>1. ASSUME Interrupt \/ Fail PROVE ProcessInv'
  <2>1. /\ process' = process /\ crashes' = crashes /\ change' = change /\ staging' = staging
        /\ stage' \in {"resetting", "aborting"}
    BY <1>1, Zenon DEF Interrupt, Fail, faults
  <2>2. stage' \notin Prepublication \ {"sourced"} /\ stage' \notin {"serving", "complete"}
        /\ stage' \notin {"published", "installed", "activated"}
    BY <2>1 DEF Prepublication, Copying
  <2> QED BY <2>1, <2>2, Zenon DEF ProcessInv
<1>2. ASSUME Reset \/ FinishAbort PROVE ProcessInv'
  <2>1. /\ process' = process /\ crashes' = crashes /\ change' = change /\ stage' \in {"planned", "aborted"}
        /\ stage # "idle" /\ ClearNodes
    BY <1>2 DEF Reset, FinishAbort, progress
  <2>2. \A c \in Changes : staging'[c].state \in {"none", staging[c].state}
    BY <2>1, ClearStep, Zenon DEF Others
  <2>3. stage' \notin Prepublication \ {"sourced"} /\ stage' \notin {"serving", "complete"}
        /\ stage' \notin {"published", "installed", "activated"}
    BY <2>1 DEF Prepublication, Copying
  <2> QED BY <2>1, <2>2, <2>3, Zenon DEF ProcessInv, Changes
<1>3. ASSUME CrashDestination PROVE ProcessInv'
  <2>1. /\ process' = 0 /\ crashes' = crashes + 1 /\ change' = change /\ expected' = expected /\ stage' = stage
        /\ process # 0 /\ process = crashes + 1 /\ stage \notin {"serving", "complete"}
    BY <1>3, Zenon DEF CrashDestination, ProcessInv, coordinator, progress
  <2>2. \A c \in 1 .. MaxChanges : staging'[c].state = "none"
    BY <1>3, NoStagingParts, Zenon DEF CrashDestination
  <2>3. stage' \in Prepublication \ {"sourced"} =>
          expected' \in 1 .. crashes' + 1 /\ expected' <= crashes' /\ process' # expected'
    BY <1>0, <2>1 DEF ProcessInv
  <2> QED BY <2>1, <2>2, <2>3, Zenon DEF ProcessInv
<1>4. ASSUME RestartDestination PROVE ProcessInv'
  <2>1. /\ process = 0 /\ process' = crashes + 1 /\ crashes' = crashes /\ change' = change /\ expected' = expected
        /\ stage' = stage /\ stage \notin {"published", "installed", "activated"} /\ staging' = staging
    BY <1>4, Zenon DEF RestartDestination, coordinator, progress, faults
  <2>2. process' # 0
    BY <1>0, <2>1
  <2>3. stage' \in Prepublication \ {"sourced"} => expected' \in 1 .. crashes' + 1 /\ process' # expected'
    BY <1>0, <2>1 DEF ProcessInv
  <2> QED BY <2>1, <2>2, <2>3, Zenon DEF ProcessInv
<1>5. ASSUME RecoverJoin PROVE ProcessInv'
  <2>1. /\ process' = process /\ crashes' = crashes /\ change' = change /\ staging' = staging /\ stage' = "aborted"
    BY <1>5, Zenon DEF RecoverJoin, faults
  <2>2. stage' \notin Prepublication \ {"sourced"} /\ stage' \notin {"serving", "complete"}
        /\ stage' \notin {"published", "installed", "activated"}
    BY <2>1 DEF Prepublication, Copying
  <2> QED BY <2>1, <2>2, Zenon DEF ProcessInv
<1>6. ASSUME NEW m \in Mutations, WriteAtSource(m) \/ WriteAtDestination(m) PROVE ProcessInv'
  BY <1>6, Zenon DEF ProcessInv, WriteAtSource, WriteAtDestination, coordinator, progress, faults
<1>7. ASSUME NEW k \in Keys, Lapse(k) \/ SweepSource(k) \/ SweepDestination(k) PROVE ProcessInv'
  BY <1>7, Zenon DEF ProcessInv, Lapse, SweepSource, SweepDestination, coordinator, progress, faults
<1>8. ASSUME UNCHANGED vars PROVE ProcessInv'
  BY <1>8, Zenon DEF ProcessInv, vars, coordinator, progress, faults
<1>9. ASSUME CoordinatorStep PROVE ProcessInv'
  <2>1. \A to \in 1 .. Len(source.log) : to \in Nat
    OBVIOUS
  <2> QED BY <1>1, <1>2, <1>5, <1>9, <2>1, ProcessOfCopy, ProcessOfCutover, Zenon DEF CoordinatorStep
<1> QED
  BY <1>1, <1>3, <1>4, <1>6, <1>7, <1>8, <1>9, ProcessOfCopy, ZenonT(30) DEF Next

(* Steps that leave the states of all staging alone keep StagingInv and    *)
(* CleanInv wherever the stage they lead to asks for no more.              *)
LEMMA StagingKept ==
    ASSUME TypeOK, StageInv, StagingInv, CleanInv, SameStates, change' = change, lost' = lost,
           \/ stage' = stage
           \/ stage \in {"snapshot", "receipts", "replay", "copied", "final"}
              /\ stage' \in {"snapshot", "receipts", "replay", "copied", "final", "verified"}
           \/ stage \in Committing /\ stage' \in Committing
           \/ stage \in Prepublication /\ stage' \in {"resetting", "aborting"}
           \/ stage = "planned" /\ stage' = "sourced"
           \/ stage = "serving" /\ stage' = "complete"
    PROVE  StagingInv' /\ CleanInv'
<1> DEFINE S == staging[change].state
           T == staging'[change].state
<1>1. stage' = "idle" => stage = "idle"
  BY DEF Committing
<1>2. stage # "idle" => T = S
  BY ActiveChange, Zenon DEF SameStates
<1>3. stage = "idle" => stage' = "idle"
  BY DEF Committing, Prepublication, Copying
<1>4. \A c \in 1 .. MaxChanges :
        /\ c > change' => staging'[c].state = "none"
        /\ staging'[c].state = "active" => stage' \in {"activated", "serving", "complete"}
  <2>1. stage \in {"activated", "serving", "complete"} => stage' \in {"activated", "serving", "complete"}
    BY DEF Committing, Prepublication, Copying
  <2> QED BY <2>1, Zenon DEF StagingInv, SameStates, Changes
<1>5. stage' \in Committing => T \in {"none", "committed"}
  <2>1. stage' \in Committing => stage \in Committing /\ stage # "idle"
    BY DEF Committing
  <2> QED BY <1>2, <2>1, Zenon DEF StagingInv
<1>6. stage' = "activated" => T \in {"none", "active"}
  <2>1. stage' = "activated" => stage = "activated" /\ stage # "idle"
    BY DEF Committing
  <2> QED BY <1>2, <2>1, Zenon DEF StagingInv
<1>7. stage' \in {"serving", "complete"} => T = "active"
  <2>1. stage' \in {"serving", "complete"} => stage \in {"serving", "complete"} /\ stage # "idle"
    BY DEF Committing
  <2> QED BY <1>2, <2>1, Zenon DEF StagingInv
<1>8. ASSUME AllDiscarded, NEW c \in 1 .. MaxChanges,
             c # change' \/ stage' \in {"idle", "planned", "sourced", "aborted"}
      PROVE  staging'[c].state = "none"
  <2>1. stage' \in {"idle", "planned", "sourced", "aborted"} => stage \in {"idle", "planned", "sourced", "aborted"}
    BY DEF Committing
  <2> QED BY <1>8, <2>1, Zenon DEF CleanInv, SameStates, Changes
<1>9. ASSUME AllDiscarded, stage' \in Prepublication \ Committing PROVE T \in {"none", "open"}
  <2>1. stage = "planned" \/ stage \in Prepublication \ Committing
    BY <1>9 DEF Committing, Prepublication, Copying
  <2>2. change \in 1 .. MaxChanges /\ stage # "idle"
    BY <2>1, ActiveChange DEF Committing, Prepublication, Copying, Changes
  <2> QED BY <1>2, <1>9, <2>1, <2>2, Zenon DEF CleanInv
<1> QED
  BY <1>4, <1>5, <1>6, <1>7, <1>8, <1>9, Zenon DEF StagingInv, CleanInv, AllDiscarded

LEMMA StagingOfCopy ==
    ASSUME TypeOK, StageInv, ProcessInv, StagingInv, CleanInv
    PROVE  /\ BeginChange \/ PrepareSource \/ PrepareDestination => StagingInv' /\ CleanInv'
           /\ \A k \in Keys : ReadSnapshot(k) => StagingInv' /\ CleanInv'
           /\ ApplySnapshot \/ SnapshotDone \/ CopyReceipts \/ ReplayDone => StagingInv' /\ CleanInv'
           /\ \A to \in Nat : ReplayPage(to) => StagingInv' /\ CleanInv'
<1>1. ASSUME BeginChange PROVE StagingInv' /\ CleanInv'
  <2>1. /\ stage \in {"idle", "aborted"} /\ stage' = "planned" /\ change' = change + 1 /\ staging' = staging
        /\ lost' = lost
    BY <1>1, Zenon DEF BeginChange, faults
  <2>2. \A c \in 1 .. MaxChanges : c > change' => c > change
    BY <2>1 DEF TypeOK
  <2>3. \A c \in 1 .. MaxChanges : staging[c].state # "active"
    BY <2>1 DEF StagingInv
  <2>4. stage' \notin Committing /\ stage' # "activated" /\ stage' \notin {"serving", "complete"}
        /\ stage' \notin Prepublication
    BY <2>1 DEF Committing, Prepublication, Copying
  <2>5. AllDiscarded => \A c \in 1 .. MaxChanges : staging[c].state = "none"
    BY <2>1, Zenon DEF CleanInv
  <2> QED BY <2>1, <2>2, <2>3, <2>4, <2>5, Zenon DEF StagingInv, CleanInv, AllDiscarded
<1>2. ASSUME PrepareSource PROVE StagingInv' /\ CleanInv'
  BY <1>2, StatesKept, StagingKept, Zenon DEF PrepareSource, progress, faults
<1>3. ASSUME PrepareDestination PROVE StagingInv' /\ CleanInv'
  <2>1. stage = "sourced" /\ stage' = "snapshot" /\ change' = change /\ lost' = lost
    BY <1>3, Zenon DEF PrepareDestination, faults
  <2>2. change \in Changes
    BY <2>1, ActiveChange
  <2>3. \A c \in 1 .. MaxChanges : staging[c].state # "active"
    BY <2>1 DEF StagingInv
  <2>4. \A c \in 1 .. MaxChanges : \/ staging'[c].state = staging[c].state
                                   \/ c = change /\ staging'[c].state = "open" /\ staging[c].state = "none"
    BY <1>3, OpenStep, Zenon DEF Others, Changes
  <2>5. stage' \notin Committing /\ stage' # "activated" /\ stage' \notin {"serving", "complete"}
        /\ stage' \notin {"idle", "planned", "sourced", "aborted"}
    BY <2>1 DEF Committing
  <2>6. AllDiscarded => \A c \in 1 .. MaxChanges : staging[c].state = "none"
    BY <2>1, Zenon DEF CleanInv
  <2>7. \A c \in 1 .. MaxChanges : c > change => c # change
    BY DEF TypeOK
  <2> QED BY <2>1, <2>2, <2>3, <2>4, <2>5, <2>6, <2>7, Zenon DEF StagingInv, CleanInv, AllDiscarded, Changes
<1>4. ASSUME NEW k \in Keys, ReadSnapshot(k) PROVE StagingInv' /\ CleanInv'
  BY <1>4, StatesKept, StagingKept, Zenon DEF ReadSnapshot, faults
<1>5. ASSUME ApplySnapshot PROVE StagingInv' /\ CleanInv'
  BY <1>5, StatesKept, StagingKept, Zenon DEF ApplySnapshot, faults
<1>6. ASSUME SnapshotDone PROVE StagingInv' /\ CleanInv'
  BY <1>6, StatesKept, StagingKept, Zenon DEF SnapshotDone, progress, faults
<1>7. ASSUME CopyReceipts PROVE StagingInv' /\ CleanInv'
  BY <1>7, StatesKept, StagingKept, Zenon DEF CopyReceipts, progress, faults
<1>8. ASSUME ReplayDone PROVE StagingInv' /\ CleanInv'
  BY <1>8, StatesKept, StagingKept, Zenon DEF ReplayDone, progress, faults
<1>9. ASSUME NEW to \in Nat, ReplayPage(to) PROVE StagingInv' /\ CleanInv'
  BY <1>9, StatesKept, StagingKept, Zenon DEF ReplayPage, faults
<1> QED
  BY <1>1, <1>2, <1>3, <1>4, <1>5, <1>6, <1>7, <1>8, <1>9, Zenon

LEMMA StagingOfCutover ==
    ASSUME TypeOK, StageInv, ProcessInv, StagingInv, CleanInv
    PROVE  /\ PauseRange \/ VerifyRange \/ CommitRange \/ VerifyInstance \/ Publish => StagingInv' /\ CleanInv'
           /\ InstallTopology \/ ActivateRange \/ SetActivationReady \/ CleanupSource => StagingInv' /\ CleanInv'
<1>0. /\ {"committed", "checked", "published", "installed"} \subseteq Committing
      /\ \A c \in 1 .. MaxChanges : c > change => c # change
  BY DEF Committing, TypeOK
<1>1. ASSUME PauseRange PROVE StagingInv' /\ CleanInv'
  BY <1>1, StatesKept, StagingKept, Zenon DEF PauseRange, progress, faults
<1>2. ASSUME VerifyRange PROVE StagingInv' /\ CleanInv'
  BY <1>2, StatesKept, StagingKept, Zenon DEF VerifyRange, progress, faults
<1>3. ASSUME CommitRange PROVE StagingInv' /\ CleanInv'
  <2>1. stage = "verified" /\ stage' = "committed" /\ change' = change /\ lost' = lost
    BY <1>3, Zenon DEF CommitRange, progress, faults
  <2>2. change \in Changes
    BY <2>1, ActiveChange
  <2>3. \A c \in 1 .. MaxChanges : staging[c].state # "active"
    BY <2>1 DEF StagingInv
  <2>4. \A c \in 1 .. MaxChanges : IF c = change THEN staging'[c].state = "committed"
                                   ELSE staging'[c] = staging[c]
    BY <1>3, CommitStep, Zenon DEF Others, Changes
  <2>5. stage' # "activated" /\ stage' \notin {"serving", "complete"} /\ stage' \in Committing
        /\ stage' \notin {"idle", "planned", "sourced", "aborted"}
    BY <2>1 DEF Committing
  <2> QED BY <1>0, <2>1, <2>2, <2>3, <2>4, <2>5, Zenon DEF StagingInv, CleanInv, AllDiscarded, Changes
<1>4. ASSUME VerifyInstance PROVE StagingInv' /\ CleanInv'
  BY <1>0, <1>4, StatesKept, StagingKept, Zenon DEF VerifyInstance, progress, faults
<1>5. ASSUME Publish PROVE StagingInv' /\ CleanInv'
  BY <1>0, <1>5, StatesKept, StagingKept, Zenon DEF Publish, progress, faults
<1>6. ASSUME InstallTopology PROVE StagingInv' /\ CleanInv'
  BY <1>0, <1>6, StatesKept, StagingKept, Zenon DEF InstallTopology, progress, faults
<1>7. ASSUME ActivateRange PROVE StagingInv' /\ CleanInv'
  <2>1. stage = "installed" /\ stage' = "activated" /\ change' = change /\ lost' = lost
    BY <1>7, Zenon DEF ActivateRange, progress, faults
  <2>2. change \in Changes
    BY <2>1, ActiveChange
  <2>3. \A c \in 1 .. MaxChanges : IF c = change THEN staging'[c].state = "active"
                                   ELSE staging'[c] = staging[c]
    BY <1>7, ActivateStep, Zenon DEF Others, Changes
  <2>4. stage' \notin Committing /\ stage' \notin {"serving", "complete"} /\ stage' \notin Prepublication
        /\ stage' \notin {"idle", "planned", "sourced", "aborted"}
    BY <2>1 DEF Committing, Prepublication, Copying
  <2> QED BY <1>0, <2>1, <2>2, <2>3, <2>4, Zenon DEF StagingInv, CleanInv, AllDiscarded, Changes
<1>8. ASSUME SetActivationReady PROVE StagingInv' /\ CleanInv'
  <2>1. stage = "activated" /\ stage' = "serving" /\ change' = change /\ lost' = lost /\ staging' = staging
        /\ process # 0
    BY <1>8, Zenon DEF SetActivationReady, progress, faults
  <2>2. staging[change].state = "active"
    BY <2>1, Zenon DEF ProcessInv, StagingInv
  <2>3. stage' \notin Committing /\ stage' # "activated" /\ stage' \notin Prepublication
        /\ stage' \notin {"idle", "planned", "sourced", "aborted"}
    BY <2>1 DEF Committing, Prepublication, Copying
  <2> QED BY <2>1, <2>2, <2>3, Zenon DEF StagingInv, CleanInv, AllDiscarded
<1>9. ASSUME CleanupSource PROVE StagingInv' /\ CleanInv'
  BY <1>9, StatesKept, StagingKept, Zenon DEF CleanupSource, progress, faults
<1> QED
  BY <1>1, <1>2, <1>3, <1>4, <1>5, <1>6, <1>7, <1>8, <1>9, ZenonT(30)

LEMMA StagingStep ==
    ASSUME TypeOK, StageInv, ProcessInv, StagingInv, CleanInv, [Next]_vars
    PROVE  StagingInv' /\ CleanInv'
<1>1. ASSUME Interrupt PROVE StagingInv' /\ CleanInv'
  BY <1>1, StatesKept, StagingKept, Zenon DEF Interrupt
<1>2. ASSUME Fail PROVE StagingInv' /\ CleanInv'
  <2>1. stage \in Prepublication /\ stage' \in {"resetting", "aborting"}
    BY <1>2 DEF Fail, Refused, Prepublication, Copying
  <2> QED BY <1>2, <2>1, StatesKept, StagingKept, Zenon DEF Fail, faults
<1>3. ASSUME Reset \/ FinishAbort PROVE StagingInv' /\ CleanInv'
  <2>1. /\ change' = change /\ stage' \in {"planned", "aborted"} /\ stage \in {"resetting", "aborting"}
        /\ stage # "idle" /\ ClearNodes
    BY <1>3 DEF Reset, FinishAbort, progress
  <2>2. \A c \in 1 .. MaxChanges : staging'[c].state \in {"none", staging[c].state}
    BY <2>1, ClearStep, Zenon DEF Others, Changes
  <2>3. \A c \in 1 .. MaxChanges : staging[c].state # "active"
    BY <2>1 DEF StagingInv
  <2>4. stage' \notin Committing /\ stage' # "activated" /\ stage' \notin {"serving", "complete"}
        /\ stage' \notin Prepublication
    BY <2>1 DEF Committing, Prepublication, Copying
  <2>5. AllDiscarded' => AllDiscarded /\ staging'[change].state = "none"
    BY <2>1, ClearStep, BoundTypes DEF AllDiscarded, TypeOK
  <2>6. ASSUME AllDiscarded', NEW c \in 1 .. MaxChanges PROVE staging'[c].state = "none"
    BY <2>2, <2>5, <2>6, Zenon DEF CleanInv
  <2> QED BY <2>1, <2>2, <2>3, <2>4, <2>6, Zenon DEF StagingInv, CleanInv
<1>4. ASSUME CrashDestination PROVE StagingInv' /\ CleanInv'
  <2>1. stage # "idle" => change \in Changes
    BY ActiveChange, Zenon
  <2>2. \A c \in 1 .. MaxChanges : staging'[c].state = "none"
    BY <1>4, NoStagingParts, Zenon DEF CrashDestination
  <2>3. change' = change /\ stage' = stage /\ stage' \notin {"serving", "complete"}
    BY <1>4, Zenon DEF CrashDestination, coordinator, progress
  <2>4. stage' \in Committing \/ stage' = "activated" \/ stage' \in Prepublication => staging'[change'].state = "none"
    <3>1. stage' \in Committing \/ stage' = "activated" \/ stage' \in Prepublication => stage' # "idle"
      BY DEF Committing, Prepublication, Copying
    <3> QED BY <2>1, <2>2, <2>3, <3>1, Zenon DEF Changes
  <2> QED BY <2>2, <2>3, <2>4, Zenon DEF StagingInv, CleanInv
<1>5. ASSUME RestartDestination PROVE StagingInv' /\ CleanInv'
  BY <1>5, StatesKept, StagingKept, Zenon DEF RestartDestination, coordinator, progress, faults
<1>6. ASSUME RecoverJoin PROVE StagingInv' /\ CleanInv'
  <2>1. staging' = staging /\ stage' = "aborted" /\ process = 0
    BY <1>6, Zenon DEF RecoverJoin
  <2>2. \A c \in 1 .. MaxChanges : staging'[c].state = "none"
    BY <2>1, Zenon DEF ProcessInv
  <2>3. stage' \notin Committing /\ stage' # "activated" /\ stage' \notin {"serving", "complete"}
        /\ stage' \notin Prepublication
    BY <2>1 DEF Committing, Prepublication, Copying
  <2> QED BY <2>2, <2>3, Zenon DEF StagingInv, CleanInv
<1>7. ASSUME NEW m \in Mutations, WriteAtSource(m) \/ WriteAtDestination(m) PROVE StagingInv' /\ CleanInv'
  BY <1>7, StatesKept, StagingKept, Zenon DEF WriteAtSource, WriteAtDestination, coordinator, progress, faults
<1>8. ASSUME NEW k \in Keys, Lapse(k) \/ SweepSource(k) \/ SweepDestination(k) PROVE StagingInv' /\ CleanInv'
  BY <1>8, StatesKept, StagingKept, Zenon DEF Lapse, SweepSource, SweepDestination, coordinator, progress, faults
<1>9. ASSUME UNCHANGED vars PROVE StagingInv' /\ CleanInv'
  BY <1>9, StatesKept, StagingKept, Zenon DEF vars, coordinator, progress, faults
<1>10. ASSUME CoordinatorStep PROVE StagingInv' /\ CleanInv'
  <2>1. \A to \in 1 .. Len(source.log) : to \in Nat
    OBVIOUS
  <2> QED BY <1>2, <1>3, <1>6, <1>10, <2>1, StagingOfCopy, StagingOfCutover, Zenon DEF CoordinatorStep
<1> QED
  BY <1>1, <1>4, <1>5, <1>7, <1>8, <1>9, <1>10, StagingOfCopy, Zenon DEF Next

-----------------------------------------------------------------------------
(* The journal.                                                            *)

(* A write at the source takes a version above all others and, while the   *)
(* source migrates, an entry of the journal.                               *)
LEMMA WriteStep ==
    ASSUME TypeOK, StageInv, JournalInv, NEW m \in Mutations, WriteAtSource(m)
    PROVE  /\ KeyOf[m] \in Keys /\ next \in Nat /\ next' = next + 1 /\ src'[KeyOf[m]] = next + 1
           /\ \A k \in Keys : src[k] \in Nat /\ src[k] <= src'[k] /\ src'[k] <= next'
           /\ \A k \in Keys : k # KeyOf[m] => src'[k] = src[k]
           /\ source'.on = source.on /\ source'.keys = source.keys /\ source'.ids = source.ids
           /\ source'.paused = source.paused
           /\ source.on => /\ Len(source.log) \in Nat /\ Len(source'.log) = Len(source.log) + 1
                           /\ \A i \in 1 .. Len(source.log) : source'.log[i] = source.log[i]
                           /\ source'.log[Len(source.log) + 1].k = KeyOf[m]
                           /\ source'.log[Len(source.log) + 1].v = next + 1
                           /\ source'.log[Len(source.log) + 1].m = m
<1>1. PICK v : v = next + 1
  BY Zenon
<1>2. v \in Version /\ KeyOf[m] \in Keys
  BY <1>1, WriteTypes, Zenon DEF WriteAtSource
<1>3. next \in Nat /\ src \in Records /\ \A k \in Keys : src[k] \in Nat /\ src[k] <= next
  BY BoundTypes, Zenon DEF TypeOK, JournalInv, Records
<1>4. src' = [src EXCEPT ![KeyOf[m]] = next + 1] /\ next' = next + 1
  BY Zenon DEF WriteAtSource
<1>5. src'[KeyOf[m]] = next + 1 /\ \A k \in Keys : k # KeyOf[m] => src'[k] = src[k]
  BY <1>2, <1>3, <1>4, Zenon DEF Records
<1>6. \A k \in Keys : src[k] <= src'[k] /\ src'[k] <= next'
  <2> SUFFICES ASSUME NEW k \in Keys PROVE src[k] <= src'[k] /\ src'[k] <= next'
    BY Zenon
  <2> QED BY <1>3, <1>4, <1>5
<1>7. CASE ~source.on
  <2>1. source' = source
    BY <1>7, Zenon DEF WriteAtSource
  <2> QED BY <1>2, <1>3, <1>4, <1>5, <1>6, <1>7, <2>1, Zenon
<1>8. CASE source.on
  <2>1. source' = [source EXCEPT !.log = Append(@, [k |-> KeyOf[m], v |-> v, m |-> m])]
    BY <1>1, <1>8, Zenon DEF WriteAtSource
  <2>2. /\ source'.on = source.on /\ source'.keys = source.keys /\ source'.ids = source.ids
        /\ source'.paused = source.paused
        /\ Len(source.log) \in Nat /\ Len(source'.log) = Len(source.log) + 1
        /\ \A i \in 1 .. Len(source.log) : source'.log[i] = source.log[i]
        /\ source'.log[Len(source.log) + 1].k = KeyOf[m]
        /\ source'.log[Len(source.log) + 1].v = v
        /\ source'.log[Len(source.log) + 1].m = m
    BY <1>2, <2>1, Journalling DEF TypeOK
  <2> QED BY <1>1, <1>2, <1>3, <1>4, <1>5, <1>6, <2>2, Zenon
<1> QED
  BY <1>7, <1>8, Zenon

LEMMA JournalOfWrite ==
    ASSUME TypeOK, StageInv, JournalInv, NEW m \in Mutations, WriteAtSource(m)
    PROVE  JournalInv'
<1>1. \A k \in Keys : src'[k] <= next'
  BY WriteStep, Zenon
<1>2. CASE ~source.on
  <2>1. ~source'.on
    BY <1>2, WriteStep, Zenon
  <2> QED BY <1>1, <2>1, Zenon DEF JournalInv
<1>3. CASE source.on
  <2>1. PICK L : L = Len(source.log)
    BY Zenon
  <2>2. /\ L \in Nat /\ Len(source'.log) = L + 1 /\ \A i \in 1 .. L : source'.log[i] = source.log[i]
        /\ source'.log[L + 1].k = KeyOf[m] /\ source'.log[L + 1].v = next + 1 /\ source'.log[L + 1].m = m
        /\ source'.keys = source.keys /\ source'.ids = source.ids /\ KeyOf[m] \in Keys
        /\ src'[KeyOf[m]] = next + 1 /\ next \in Nat
    BY <1>3, <2>1, WriteStep, Zenon
  <2>3. \A i : i \in 1 .. L + 1 <=> (i \in 1 .. L \/ i = L + 1)
    BY <2>2
  <2>4. srcIds' = srcIds \cup {m}
    BY Zenon DEF WriteAtSource
  <2>5. srcIds' = source'.ids \cup {source'.log[i].m : i \in 1 .. Len(source'.log)}
    <3>1. srcIds = source.ids \cup {source.log[i].m : i \in 1 .. L}
      BY <1>3, <2>1, Zenon DEF JournalInv
    <3>2. ASSUME NEW x \in srcIds' PROVE x \in source'.ids \/ \E i \in 1 .. L + 1 : x = source'.log[i].m
      BY <2>2, <2>3, <2>4, <3>1, ZenonT(30)
    <3>3. \A i \in 1 .. L + 1 : source'.log[i].m \in srcIds'
      BY <2>2, <2>3, <2>4, <3>1, Zenon
    <3>4. source'.ids \subseteq srcIds'
      BY <2>2, <2>4, <3>1, Zenon
    <3> QED BY <2>2, <3>2, <3>3, <3>4, Zenon
  <2>6. ASSUME NEW i \in 1 .. Len(source'.log) PROVE source'.log[i].v <= src'[source'.log[i].k]
    <3>1. CASE i \in 1 .. L
      <4>1. source'.log[i] = source.log[i] /\ source.log[i].k \in Keys /\ source.log[i].v \in Nat
        BY <2>1, <2>2, <3>1, SourceParts, ZenonT(30) DEF TypeOK
      <4>2. source.log[i].v <= src[source.log[i].k] /\ src[source.log[i].k] <= src'[source.log[i].k]
        BY <1>3, <2>1, <3>1, <4>1, WriteStep, Zenon DEF JournalInv
      <4>3. src[source.log[i].k] \in Nat
        BY <4>1, WriteStep, ZenonT(30)
      <4>4. src'[source.log[i].k] \in Nat
        BY <4>1, <2>2, WriteStep
      <4> QED BY <4>1, <4>2, <4>3, <4>4
    <3>2. CASE i = L + 1
      BY <2>2, <3>2
    <3> QED BY <2>2, <2>3, <2>6, <3>1, <3>2, Zenon
  <2>7. ASSUME NEW k \in Keys, \E i \in 1 .. Len(source'.log) : source'.log[i].k = k
        PROVE  \E i \in 1 .. Len(source'.log) : source'.log[i].k = k /\ source'.log[i].v = src'[k]
    <3>1. CASE k = KeyOf[m]
      BY <2>2, <2>3, <3>1, Zenon
    <3>2. CASE k # KeyOf[m]
      <4>1. src'[k] = src[k]
        BY <3>2, WriteStep, Zenon
      <4>2. Journalled(k)
        BY <2>1, <2>2, <2>3, <2>7, <3>2, Zenon DEF Journalled
      <4>3. PICK i \in 1 .. L : source.log[i].k = k /\ source.log[i].v = src[k]
        BY <1>3, <2>1, <4>2, Zenon DEF JournalInv
      <4> QED BY <2>2, <2>3, <4>1, <4>3, Zenon
    <3> QED BY <3>1, <3>2, Zenon
  <2>8. ASSUME NEW k \in Keys, k \notin source'.keys
        PROVE  src'[k] = 0 \/ \E i \in 1 .. Len(source'.log) : source'.log[i].k = k
    <3>1. CASE k = KeyOf[m]
      BY <2>2, <2>3, <3>1, Zenon
    <3>2. CASE k # KeyOf[m]
      <4>1. src'[k] = src[k]
        BY <3>2, WriteStep, Zenon
      <4>2. src[k] = 0 \/ Journalled(k)
        BY <1>3, <2>2, <2>8, Zenon DEF JournalInv
      <4> QED BY <2>1, <2>2, <2>3, <4>1, <4>2, ZenonT(30) DEF Journalled
    <3> QED BY <3>1, <3>2, Zenon
  <2> QED BY <1>1, <2>5, <2>6, <2>7, <2>8, Zenon DEF JournalInv, Journalled
<1> QED
  BY <1>2, <1>3, Zenon

(* Steps that leave the journal, the captured keys and receipts and the    *)
(* records they speak of alone.                                            *)
LEMMA JournalSame ==
    ASSUME JournalInv, src' = src, srcIds' = srcIds, source'.on = source.on, source'.log = source.log,
           source'.keys = source.keys, source'.ids = source.ids, \A k \in Keys : src'[k] <= next'
    PROVE  JournalInv'
<1>1. \A k : Journalled(k)' <=> Journalled(k)
  BY Zenon DEF Journalled
<1>2. CASE ~source.on
  BY <1>2, Zenon DEF JournalInv
<1>3. CASE source.on
  <2>1. srcIds' = source'.ids \cup {source'.log[i].m : i \in 1 .. Len(source'.log)}
    <3>1. srcIds = source.ids \cup {source.log[i].m : i \in 1 .. Len(source.log)}
      BY <1>3, Zenon DEF JournalInv
    <3>2. {source'.log[i].m : i \in 1 .. Len(source'.log)} = {source.log[i].m : i \in 1 .. Len(source.log)}
      OBVIOUS
    <3> QED BY <3>1, <3>2, Zenon
  <2>2. \A i \in 1 .. Len(source'.log) : source'.log[i].v <= src'[source'.log[i].k]
    BY <1>3, Zenon DEF JournalInv
  <2>4. ASSUME NEW k \in Keys, Journalled(k)
        PROVE  \E i \in 1 .. Len(source'.log) : source'.log[i].k = k /\ source'.log[i].v = src'[k]
    <3>1. PICK i \in 1 .. Len(source.log) : source.log[i].k = k /\ source.log[i].v = src[k]
      BY <1>3, <2>4, Zenon DEF JournalInv
    <3> QED BY <3>1, Zenon
  <2>3. \A k \in Keys : k \notin source'.keys => src'[k] = 0 \/ Journalled(k)
    BY <1>3, Zenon DEF JournalInv
  <2> QED BY <1>1, <2>1, <2>2, <2>3, <2>4, Zenon DEF JournalInv
<1> QED
  BY <1>2, <1>3, Zenon

LEMMA JournalKept ==
    ASSUME JournalInv, src' = src, srcIds' = srcIds, source' = source, next' = next
    PROVE  JournalInv'
<1>1. \A k \in Keys : src'[k] <= next'
  BY Zenon DEF JournalInv
<1> QED
  BY <1>1, JournalSame, Zenon

LEMMA JournalOff ==
    ASSUME ~source'.on, \A k \in Keys : src'[k] <= next'
    PROVE  JournalInv'
BY Zenon DEF JournalInv

LEMMA JournalStep ==
    ASSUME TypeOK, StageInv, JournalInv, [Next]_vars
    PROVE  JournalInv'
<1>0. /\ next \in Nat /\ 0 <= next
      /\ \A k \in Keys : src[k] \in Nat /\ src[k] <= next
  <2>1. next \in Nat /\ \A k \in Keys : src[k] \in Nat
    BY BoundTypes, Zenon DEF TypeOK, Records
  <2>2. 0 <= next
    BY <2>1
  <2> QED BY <2>1, <2>2, Zenon DEF JournalInv
<1>1. ASSUME NEW m \in Mutations, WriteAtDestination(m) PROVE JournalInv'
  <2>1. src' = src /\ srcIds' = srcIds /\ source' = source /\ next' = next + 1
    BY <1>1, Zenon DEF WriteAtDestination
  <2>2. \A k \in Keys : src'[k] <= next'
    BY <1>0, <2>1
  <2> QED BY <2>1, <2>2, JournalSame, Zenon
<1>2. ASSUME NEW k \in Keys, Lapse(k) \/ SweepDestination(k) PROVE JournalInv'
  BY <1>2, JournalKept, Zenon DEF Lapse, SweepDestination, nodes, history
<1>3. ASSUME NEW k \in Keys, SweepSource(k) PROVE JournalInv'
  <2>1. ~source.on /\ source' = source /\ src' = [src EXCEPT ![k] = 0] /\ next' = next
    BY <1>3, Zenon DEF SweepSource, history
  <2>2. src \in Records
    BY Zenon DEF TypeOK
  <2>3. \A j \in Keys : src'[j] <= next'
    BY <1>0, <2>1, <2>2, Zenon DEF Records
  <2> QED BY <2>1, <2>3, JournalOff, Zenon
<1>4. ASSUME PrepareSource PROVE JournalInv'
  <2>1. /\ source'.ids = srcIds /\ source'.keys = {k \in Keys : src[k] # 0} /\ Len(source'.log) = 0
        /\ source'.log = <<>>
    BY <1>4 DEF PrepareSource
  <2>2. src' = src /\ srcIds' = srcIds /\ next' = next
    BY <1>4, Zenon DEF PrepareSource, nodes, history
  <2>3. 1 .. Len(source'.log) = {}
    BY <2>1
  <2>4. srcIds' = source'.ids \cup {source'.log[i].m : i \in 1 .. Len(source'.log)}
    BY <2>1, <2>2, <2>3, Zenon
  <2>5. \A k \in Keys : k \notin source'.keys => src'[k] = 0
    BY <2>1, <2>2, Zenon
  <2> QED BY <1>0, <2>2, <2>3, <2>4, <2>5, ZenonT(30) DEF JournalInv, Journalled
<1>5. ASSUME PauseRange PROVE JournalInv'
  <2>1. source'.on = source.on /\ source'.keys = source.keys /\ source'.ids = source.ids /\ source'.log = source.log
    BY <1>5, Pausing, Zenon DEF PauseRange, TypeOK
  <2>2. src' = src /\ srcIds' = srcIds /\ next' = next
    BY <1>5, Zenon DEF PauseRange, nodes, history
  <2> QED BY <1>0, <2>1, <2>2, JournalSame, Zenon
<1>6. ASSUME CleanupSource PROVE JournalInv'
  <2>1. ~source'.on /\ next' = next
    BY <1>6, NoSourceParts, Zenon DEF CleanupSource, history
  <2>2. \A k \in Keys : src'[k] <= next'
    BY <1>0, <1>6, <2>1, Zenon DEF CleanupSource
  <2> QED BY <2>1, <2>2, JournalOff, Zenon
<1>7. ASSUME Reset \/ FinishAbort \/ RecoverJoin PROVE JournalInv'
  <2>1. ~source'.on /\ next' = next /\ src' = src
    BY <1>7, NoSourceParts, Zenon DEF Reset, FinishAbort, ClearNodes, RecoverJoin, nodes, history
  <2> QED BY <1>0, <2>1, JournalOff, Zenon
<1>8. ASSUME \/ BeginChange \/ PrepareDestination \/ ApplySnapshot \/ SnapshotDone \/ CopyReceipts
             \/ \E k \in Keys : ReadSnapshot(k)
             \/ \E to \in 1 .. Len(source.log) : ReplayPage(to)
             \/ ReplayDone \/ VerifyRange \/ CommitRange
      PROVE  JournalInv'
  BY <1>8, JournalKept, Zenon DEF BeginChange, PrepareDestination, ApplySnapshot, SnapshotDone, CopyReceipts,
     ReadSnapshot, ReplayPage, ReplayDone, VerifyRange, CommitRange, nodes, history
<1>9. ASSUME \/ VerifyInstance \/ Publish \/ InstallTopology \/ ActivateRange \/ SetActivationReady
             \/ Interrupt \/ Fail \/ CrashDestination \/ RestartDestination
      PROVE  JournalInv'
  BY <1>9, JournalKept, Zenon DEF VerifyInstance, Publish, InstallTopology, ActivateRange, SetActivationReady,
     Interrupt, Fail, CrashDestination, RestartDestination, nodes, history
<1>10. ASSUME UNCHANGED vars PROVE JournalInv'
  BY <1>10, JournalKept, Zenon DEF vars, nodes, history
<1>11. ASSUME CoordinatorStep PROVE JournalInv'
  BY <1>4, <1>5, <1>6, <1>7, <1>8, <1>9, <1>11, Zenon DEF CoordinatorStep
<1> QED
  BY <1>1, <1>2, <1>3, <1>8, <1>9, <1>10, <1>11, JournalOfWrite, ZenonT(30) DEF Next

-----------------------------------------------------------------------------
(* The copy of an attempt that started clean.                              *)

LEMMA NoAttempt ==
    ASSUME stage' \notin Attempt
    PROVE  CopyInv'
BY Zenon DEF CopyInv, CleanAttempt

LEMMA CopyKept ==
    ASSUME TypeOK, StageInv, CopyInv, src' = src, staging' = staging, change' = change, lost' = lost,
           watermark' = watermark, todo' = todo, page' = page,
           source'.log = source.log, source'.ids = source.ids,
           \/ stage' = stage
           \/ stage = "snapshot" /\ stage' = "receipts"
           \/ stage \in {"replay", "copied"} /\ stage' \in {"copied", "final"}
    PROVE  CopyInv'
<1>1. CleanAttempt' => CleanAttempt
  BY Zenon DEF CleanAttempt, Attempt, AllDiscarded
<1>2. \A k : Journalled(k)' <=> Journalled(k)
  BY Zenon DEF Journalled
<1>3. stage' \in {"replay", "copied", "final"} => stage \in {"replay", "copied", "final"}
  OBVIOUS
<1>4. ASSUME CleanAttempt'
      PROVE  /\ staging'[change'].wm = watermark' /\ watermark' <= Len(source'.log)
             /\ \A k \in Keys : staging'[change'].rec[k] <= src'[k]
             /\ \A k \in Keys : k \in todo' \/ staging'[change'].rec[k] = src'[k] \/ Journalled(k)
             /\ \A i \in 1 .. watermark' : source'.log[i].v <= staging'[change'].rec[source'.log[i].k]
             /\ \A i \in 1 .. watermark' : source'.log[i].m \in staging'[change'].ids
             /\ page' # NoPage => page'.v <= src'[page'.k]
             /\ page' # NoPage => page'.v = src'[page'.k] \/ Journalled(page'.k)
             /\ stage' \in {"replay", "copied", "final"} => source'.ids \subseteq staging'[change'].ids
  BY <1>1, <1>3, <1>4, Zenon DEF CopyInv
<1> QED
  BY <1>2, <1>4, Zenon DEF CopyInv

LEMMA CopyOfWrite ==
    ASSUME TypeOK, StageInv, JournalInv, CopyInv, NEW m \in Mutations, WriteAtSource(m)
    PROVE  CopyInv'
<1> SUFFICES ASSUME CleanAttempt' PROVE CopyInv'
  BY Zenon DEF CopyInv
<1>1. /\ stage' = stage /\ staging' = staging /\ change' = change /\ lost' = lost /\ watermark' = watermark
      /\ todo' = todo /\ page' = page
  BY Zenon DEF WriteAtSource, coordinator, progress, faults
<1>2. CleanAttempt /\ stage \in Attempt
  BY <1>1, Zenon DEF CleanAttempt, AllDiscarded
<1>3. source.on /\ stage # "idle"
  BY <1>2 DEF StageInv, Attempt
<1>4. PICK L : L = Len(source.log)
  BY Zenon
<1>5. /\ L \in Nat /\ Len(source'.log) = L + 1 /\ \A i \in 1 .. L : source'.log[i] = source.log[i]
      /\ source'.log[L + 1].k = KeyOf[m] /\ source'.ids = source.ids
      /\ \A k \in Keys : k # KeyOf[m] => src'[k] = src[k]
      /\ \A k \in Keys : src[k] <= src'[k] /\ src[k] \in Nat
  BY <1>3, <1>4, WriteStep, Zenon
<1>6. \A k \in Keys : src'[k] \in Nat
  <2>1. src'[KeyOf[m]] \in Nat
    BY WriteStep
  <2> QED BY <1>5, <2>1, Zenon
<1>7. \A i : i \in 1 .. L + 1 <=> (i \in 1 .. L \/ i = L + 1)
  BY <1>5
<1>8. /\ \A k \in Keys : Journalled(k) => Journalled(k)'
      /\ Journalled(KeyOf[m])'
  BY <1>4, <1>5, <1>7, ZenonT(30) DEF Journalled
<1>9. staging[change] \in Staging /\ watermark \in Nat
  BY <1>3, ActiveChange DEF TypeOK
<1>10. staging[change].wm = watermark /\ watermark <= L
  BY <1>2, <1>4, ZenonT(30) DEF CopyInv
<1>11. watermark <= L + 1 /\ \A i \in 1 .. watermark : i \in 1 .. L
  BY <1>5, <1>9, <1>10
<1>12. \A k \in Keys : staging[change].rec[k] \in Nat
  BY <1>9, StagingParts, BoundTypes, ZenonT(30) DEF Records
<1>13. ASSUME NEW k \in Keys PROVE staging[change].rec[k] <= src'[k]
  <2>1. staging[change].rec[k] <= src[k]
    BY <1>2, Zenon DEF CopyInv
  <2> QED BY <1>5, <1>6, <1>12, <2>1
<1>14. ASSUME NEW k \in Keys PROVE k \in todo \/ staging[change].rec[k] = src'[k] \/ Journalled(k)'
  BY <1>2, <1>5, <1>8, Zenon DEF CopyInv
<1>15. \A i \in 1 .. watermark : /\ source'.log[i].v <= staging[change].rec[source'.log[i].k]
                                 /\ source'.log[i].m \in staging[change].ids
  BY <1>2, <1>5, <1>11, Zenon DEF CopyInv
<1>16. ASSUME page # NoPage PROVE page.v <= src'[page.k] /\ (page.v = src'[page.k] \/ Journalled(page.k)')
  <2>1. page.k \in Keys /\ page.v \in Nat
    BY <1>16, BoundTypes DEF TypeOK, Page
  <2>2. page.v <= src[page.k] /\ (page.v = src[page.k] \/ Journalled(page.k))
    BY <1>2, <1>16, ZenonT(30) DEF CopyInv
  <2>3. page.v <= src'[page.k]
    BY <1>5, <1>6, <2>1, <2>2
  <2>4. page.v = src'[page.k] \/ Journalled(page.k)'
    <3>1. PICK k \in Keys : k = page.k
      BY <2>1, Zenon
    <3>2. k = KeyOf[m] \/ src'[k] = src[k]
      BY <1>5, Zenon
    <3>3. Journalled(k) \/ k = KeyOf[m] => Journalled(k)'
      BY <1>8, Zenon
    <3>4. Journalled(k)' => Journalled(page.k)'
      BY <1>1, <3>1, Zenon DEF Journalled
    <3> QED BY <2>2, <3>1, <3>2, <3>3, <3>4, Zenon
  <2> QED BY <2>3, <2>4, ZenonT(30)
<1>17. stage \in {"replay", "copied", "final"} => source'.ids \subseteq staging[change].ids
  BY <1>2, <1>5, Zenon DEF CopyInv
<1> QED
  BY <1>1, <1>5, <1>10, <1>11, <1>13, <1>14, <1>15, <1>16, <1>17, ZenonT(30) DEF CopyInv

LEMMA CopyOfOpen ==
    ASSUME TypeOK, StageInv, CleanInv, JournalInv, PrepareDestination
    PROVE  CopyInv'
<1> SUFFICES ASSUME CleanAttempt' PROVE CopyInv'
  BY Zenon DEF CopyInv
<1>1. /\ stage = "sourced" /\ stage' = "snapshot" /\ change' = change /\ lost' = lost /\ watermark' = 0
      /\ todo' = source.keys /\ page' = page /\ source' = source /\ src' = src
  BY Zenon DEF PrepareDestination, nodes, faults
<1>2. source.on /\ page = NoPage
  BY <1>1 DEF StageInv
<1>3. change \in 1 .. MaxChanges
  BY <1>1, ActiveChange DEF Changes
<1>4. staging[change].state = "none"
  BY <1>1, <1>3, Zenon DEF CleanInv, CleanAttempt, AllDiscarded
<1>5. staging'[change].rec = [k \in Keys |-> 0] /\ staging'[change].wm = 0
  BY <1>4, OpenStep, Zenon
<1>6. \A k \in Keys : staging'[change].rec[k] = 0
  BY <1>5, Zenon
<1>7. \A k \in Keys : src[k] \in Nat
  BY BoundTypes, Zenon DEF TypeOK, Records
<1>8. \A k \in Keys : 0 <= src[k]
  BY <1>7
<1>9. 0 <= Len(source.log) /\ 1 .. 0 = {}
  BY SourceParts DEF TypeOK
<1>10. \A k \in Keys : k \in source.keys \/ src[k] = 0 \/ Journalled(k)
  BY <1>2, Zenon DEF JournalInv
<1>11. \A k : Journalled(k)' <=> Journalled(k)
  BY <1>1, Zenon DEF Journalled
<1>12. stage' \notin {"replay", "copied", "final"}
  BY <1>1, Zenon
<1> QED
  BY <1>1, <1>2, <1>5, <1>6, <1>8, <1>9, <1>10, <1>11, <1>12, ZenonT(30) DEF CopyInv

LEMMA CopyOfRead ==
    ASSUME TypeOK, StageInv, CopyInv, NEW k \in Keys, ReadSnapshot(k)
    PROVE  CopyInv'
<1> SUFFICES ASSUME CleanAttempt' PROVE CopyInv'
  BY Zenon DEF CopyInv
<1>1. /\ stage' = stage /\ staging' = staging /\ change' = change /\ lost' = lost /\ watermark' = watermark
      /\ todo' = todo /\ page' = [k |-> k, v |-> src[k]] /\ source' = source /\ src' = src
  BY Zenon DEF ReadSnapshot, nodes, faults
<1>2. CleanAttempt
  BY <1>1, Zenon DEF CleanAttempt, AllDiscarded
<1>3. page'.k = k /\ page'.v = src[k]
  BY <1>1
<1>4. src[k] <= src[k]
  BY BoundTypes DEF TypeOK, Records
<1>5. \A j : Journalled(j)' <=> Journalled(j)
  BY <1>1, Zenon DEF Journalled
<1> QED
  BY <1>1, <1>2, <1>3, <1>4, <1>5, ZenonT(30) DEF CopyInv

LEMMA CopyOfPage ==
    ASSUME TypeOK, StageInv, CopyInv, ApplySnapshot
    PROVE  CopyInv'
<1> SUFFICES ASSUME CleanAttempt' PROVE CopyInv'
  BY Zenon DEF CopyInv
<1>1. /\ stage' = stage /\ stage = "snapshot" /\ change' = change /\ lost' = lost /\ watermark' = watermark
      /\ todo' = todo \ {page.k} /\ page' = NoPage /\ page # NoPage /\ source' = source /\ src' = src
  BY Zenon DEF ApplySnapshot, nodes, faults
<1>2. PICK p \in Keys, v \in Version : p = page.k /\ v = page.v
  BY PageStep, Zenon
<1>3. /\ staging'[change].state = staging[change].state /\ staging'[change].ids = staging[change].ids
      /\ staging'[change].wm = staging[change].wm
      /\ staging'[change].rec[p] = Newer(staging[change].rec[p], v)
      /\ \A k \in Keys : k # p => staging'[change].rec[k] = staging[change].rec[k]
  BY <1>2, PageStep, Zenon
<1>4. CleanAttempt
  BY <1>1, <1>3, Zenon DEF CleanAttempt, AllDiscarded
<1>5. \A k \in Keys : src[k] \in Nat /\ staging[change].rec[k] \in Nat
  <2>1. staging[change] \in Staging
    BY <1>1, ActiveChange
  <2> QED BY <2>1, StagingParts, BoundTypes, ZenonT(30) DEF TypeOK, Records
<1>6. v \in Nat /\ v <= src[p] /\ (v = src[p] \/ Journalled(p))
  <2>1. v \in Nat
    BY BoundTypes, Zenon
  <2>2. v <= src[p] /\ (v = src[p] \/ Journalled(page.k))
    BY <1>1, <1>2, <1>4, Zenon DEF CopyInv
  <2>3. Journalled(page.k) => Journalled(p)
    BY <1>2, Zenon
  <2> QED BY <2>1, <2>2, <2>3, Zenon
<1>7. \A k \in Keys : staging[change].rec[k] <= src[k]
  BY <1>4, ZenonT(30) DEF CopyInv
<1>8. /\ staging[change].rec[p] <= staging'[change].rec[p] /\ staging'[change].rec[p] <= src[p]
      /\ v = src[p] => staging'[change].rec[p] = src[p]
      /\ staging'[change].rec[p] \in Nat
  <2>1. PICK a, b, x : a = staging[change].rec[p] /\ b = staging'[change].rec[p] /\ x = src[p]
    BY Zenon
  <2>2. a \in Nat /\ x \in Nat /\ a <= x /\ v \in Nat /\ v <= x /\ b = Newer(a, v)
    BY <1>3, <1>5, <1>6, <1>7, <2>1, ZenonT(30)
  <2>3. a <= b /\ b <= x /\ (v = x => b = x) /\ b \in Nat
    BY <2>2 DEF Newer
  <2> QED BY <2>1, <2>3, ZenonT(30)
<1>9. \A k \in Keys : staging'[change].rec[k] <= src[k]
  BY <1>3, <1>7, <1>8, Zenon
<1>10. \A k \in Keys : k \in todo \ {p} \/ staging'[change].rec[k] = src[k] \/ Journalled(k)
  <2> SUFFICES ASSUME NEW k \in Keys PROVE k \in todo \ {p} \/ staging'[change].rec[k] = src[k] \/ Journalled(k)
    BY Zenon
  <2>1. CASE k = p
    BY <1>6, <1>8, <2>1, Zenon
  <2>2. CASE k # p
    BY <1>3, <1>4, <2>2, Zenon DEF CopyInv
  <2> QED BY <2>1, <2>2, Zenon
<1>11. ASSUME NEW i \in 1 .. watermark
       PROVE  /\ source.log[i].v <= staging'[change].rec[source.log[i].k]
              /\ source.log[i].m \in staging'[change].ids
  <2>1. /\ source.log[i].v <= staging[change].rec[source.log[i].k] /\ source.log[i].m \in staging[change].ids
        /\ watermark <= Len(source.log)
    BY <1>4, ZenonT(30) DEF CopyInv
  <2>2. i \in 1 .. Len(source.log)
    <3>1. Len(source.log) \in Nat /\ watermark \in Nat /\ watermark <= Len(source.log)
      BY <2>1, SourceParts, ZenonT(30) DEF TypeOK
    <3> QED BY <3>1
  <2>3. PICK k \in Keys : k = source.log[i].k
    BY <2>2, SourceParts, ZenonT(30) DEF TypeOK
  <2>4. source.log[i].v \in Nat
    BY <2>2, SourceParts, ZenonT(30) DEF TypeOK
  <2>5. CASE k = p
    <3>1. PICK a, b, u : /\ a = staging[change].rec[p] /\ b = staging'[change].rec[p]
                         /\ u = source.log[i].v
      BY Zenon
    <3>2. a \in Nat /\ b \in Nat /\ u \in Nat /\ u <= a /\ a <= b
      BY <1>5, <1>8, <2>1, <2>3, <2>4, <2>5, <3>1, ZenonT(30)
    <3>3. u <= b
      BY <3>2
    <3> QED BY <1>3, <2>1, <2>3, <2>5, <3>1, <3>3, ZenonT(30)
  <2>6. CASE k # p
    BY <1>3, <2>1, <2>3, <2>6, ZenonT(30)
  <2> QED BY <2>5, <2>6, Zenon
<1>12. staging'[change].wm = watermark /\ watermark <= Len(source.log)
  BY <1>3, <1>4, Zenon DEF CopyInv
<1>13. \A j : Journalled(j)' <=> Journalled(j)
  BY <1>1, Zenon DEF Journalled
<1>14. stage' \notin {"replay", "copied", "final"}
  BY <1>1, Zenon
<1> QED
  BY <1>1, <1>2, <1>9, <1>10, <1>11, <1>12, <1>13, <1>14, ZenonT(30) DEF CopyInv

LEMMA CopyOfReceipts ==
    ASSUME TypeOK, StageInv, CopyInv, CopyReceipts
    PROVE  CopyInv'
<1> SUFFICES ASSUME CleanAttempt' PROVE CopyInv'
  BY Zenon DEF CopyInv
<1>1. /\ stage = "receipts" /\ stage' = "replay" /\ change' = change /\ lost' = lost /\ watermark' = watermark
      /\ todo' = todo /\ page' = page /\ source' = source /\ src' = src
  BY Zenon DEF CopyReceipts, nodes, progress, faults
<1>2. /\ staging'[change].state = staging[change].state /\ staging'[change].rec = staging[change].rec
      /\ staging'[change].wm = staging[change].wm
      /\ staging'[change].ids = staging[change].ids \cup source.ids
  BY ReceiptStep, Zenon
<1>3. CleanAttempt
  BY <1>1, <1>2, Zenon DEF CleanAttempt, AllDiscarded, Attempt
<1>4. page = NoPage
  BY <1>1 DEF StageInv
<1>5. /\ staging'[change].wm = watermark /\ watermark <= Len(source.log)
      /\ \A k \in Keys : /\ staging'[change].rec[k] <= src[k]
                         /\ k \in todo \/ staging'[change].rec[k] = src[k] \/ Journalled(k)
  BY <1>2, <1>3, Zenon DEF CopyInv
<1>6. \A i \in 1 .. watermark : /\ source.log[i].v <= staging'[change].rec[source.log[i].k]
                                /\ source.log[i].m \in staging'[change].ids
  BY <1>2, <1>3, Zenon DEF CopyInv
<1>7. source.ids \subseteq staging'[change].ids
  BY <1>2, Zenon
<1>8. \A j : Journalled(j)' <=> Journalled(j)
  BY <1>1, Zenon DEF Journalled
<1> QED
  BY <1>1, <1>4, <1>5, <1>6, <1>7, <1>8, ZenonT(30) DEF CopyInv

LEMMA CopyOfReplay ==
    ASSUME TypeOK, StageInv, JournalInv, CopyInv, NEW to \in Nat, ReplayPage(to)
    PROVE  CopyInv'
<1> SUFFICES ASSUME CleanAttempt' PROVE CopyInv'
  BY Zenon DEF CopyInv
<1>1. /\ stage' = stage /\ stage \in {"replay", "final"} /\ change' = change /\ lost' = lost /\ watermark' = to
      /\ todo' = todo /\ page' = page /\ source' = source /\ src' = src
  BY Zenon DEF ReplayPage, nodes, faults
<1>2. PICK old, new : old = staging[change] /\ new = staging'[change]
  BY Zenon
<1>3. /\ old.state = "open" /\ watermark \in Nat /\ new.wm = Newer(old.wm, to) /\ to <= Len(source.log)
      /\ old.ids \subseteq new.ids
      /\ \A i \in old.wm + 1 .. to : source.log[i].m \in new.ids /\ source.log[i].v <= new.rec[source.log[i].k]
  BY <1>2, ReplayStep, Zenon
<1>4. \A k \in Keys : /\ old.rec[k] <= new.rec[k]
                      /\ \/ new.rec[k] = old.rec[k]
                         \/ \E i \in 1 .. Len(source.log) : source.log[i].k = k /\ source.log[i].v = new.rec[k]
  BY <1>2, ReplayStep, Zenon
<1>5. CleanAttempt
  BY <1>1, <1>2, <1>3, Zenon DEF CleanAttempt, AllDiscarded, Attempt
<1>6. /\ old.wm = watermark /\ watermark <= Len(source.log) /\ source.ids \subseteq old.ids
      /\ \A k \in Keys : old.rec[k] <= src[k] /\ (k \in todo \/ old.rec[k] = src[k] \/ Journalled(k))
  BY <1>1, <1>2, <1>5, ZenonT(30) DEF CopyInv
<1>7. \A i \in 1 .. watermark : source.log[i].v <= old.rec[source.log[i].k] /\ source.log[i].m \in old.ids
  BY <1>2, <1>5, Zenon DEF CopyInv
<1>8. to \in watermark + 1 .. Len(source.log)
  BY Zenon DEF ReplayPage
<1>9. new.wm = to
  BY <1>3, <1>6, <1>8 DEF Newer
<1>10. \A k \in Keys : old.rec[k] \in Nat /\ new.rec[k] \in Nat /\ src[k] \in Nat
  <2>1. old \in Staging
    <3>1. stage # "idle"
      BY <1>1
    <3> QED BY <1>2, <3>1, ActiveChange, ZenonT(30)
  <2>2. change \in Changes /\ staging' \in Stagings
    BY <1>1, ActiveChange, ReplayStep
  <2>3. new \in Staging
    BY <1>2, <2>2, Zenon DEF Stagings
  <2>4. old.rec \in Records /\ new.rec \in Records /\ src \in Records
    BY <2>1, <2>3, StagingParts, ZenonT(30) DEF TypeOK
  <2> QED BY <2>4, BoundTypes, Zenon DEF Records
<1>11. source.on
  BY <1>1 DEF StageInv
<1>12. ASSUME NEW k \in Keys PROVE new.rec[k] <= src[k]
  <2>1. CASE new.rec[k] = old.rec[k]
    BY <1>6, <2>1, Zenon
  <2>2. CASE \E i \in 1 .. Len(source.log) : source.log[i].k = k /\ source.log[i].v = new.rec[k]
    BY <1>11, <2>2, Zenon DEF JournalInv
  <2> QED BY <1>4, <2>1, <2>2, Zenon
<1>13. ASSUME NEW k \in Keys PROVE k \in todo \/ new.rec[k] = src[k] \/ Journalled(k)
  <2>1. CASE old.rec[k] = src[k]
    BY <1>4, <1>10, <1>12, <2>1
  <2> QED BY <1>6, <2>1, ZenonT(30)
<1>14. ASSUME NEW i \in 1 .. to
       PROVE  source.log[i].v <= new.rec[source.log[i].k] /\ source.log[i].m \in new.ids
  <2>1. i \in 1 .. watermark \/ i \in old.wm + 1 .. to
    BY <1>3, <1>6
  <2>2. CASE i \in old.wm + 1 .. to
    BY <1>3, <2>2, Zenon
  <2>3. CASE i \in 1 .. watermark
    <3>1. i \in 1 .. Len(source.log)
      <4>1. Len(source.log) \in Nat /\ watermark \in Nat /\ watermark <= Len(source.log)
        BY <1>3, <1>6, SourceParts, ZenonT(30) DEF TypeOK
      <4> QED BY <2>3, <4>1
    <3>2. source.log[i].k \in Keys /\ source.log[i].v \in Nat
      BY <3>1, SourceParts, ZenonT(30) DEF TypeOK
    <3>3. source.log[i].v <= old.rec[source.log[i].k] /\ old.rec[source.log[i].k] <= new.rec[source.log[i].k]
      BY <1>4, <1>7, <2>3, <3>2, ZenonT(30)
    <3>4. source.log[i].v <= new.rec[source.log[i].k]
      BY <1>10, <3>2, <3>3
    <3> QED BY <1>3, <1>7, <2>3, <3>4, ZenonT(30)
  <2> QED BY <2>1, <2>2, <2>3, ZenonT(30)
<1>15. page = NoPage
  BY <1>1 DEF StageInv
<1>16. \A j : Journalled(j)' <=> Journalled(j)
  BY <1>1, Zenon DEF Journalled
<1>17. source.ids \subseteq new.ids
  BY <1>3, <1>6, Zenon
<1> QED
  BY <1>1, <1>2, <1>3, <1>9, <1>12, <1>13, <1>14, <1>15, <1>16, <1>17, ZenonT(30) DEF CopyInv

LEMMA CopyStep ==
    ASSUME TypeOK, StageInv, CleanInv, JournalInv, CopyInv, [Next]_vars
    PROVE  CopyInv'
<1>1. ASSUME NEW m \in Mutations, WriteAtDestination(m) PROVE CopyInv'
  <2>1. stage' \notin Attempt
    BY <1>1 DEF WriteAtDestination, StageInv, Attempt, coordinator
  <2> QED BY <2>1, NoAttempt, ZenonT(30)
<1>2. ASSUME NEW k \in Keys, Lapse(k) \/ SweepDestination(k) PROVE CopyInv'
  BY <1>2, CopyKept, ZenonT(30) DEF Lapse, SweepDestination, nodes, coordinator, progress, faults
<1>3. ASSUME NEW k \in Keys, SweepSource(k) PROVE CopyInv'
  <2>1. stage' \notin Attempt
    BY <1>3 DEF SweepSource, StageInv, Attempt, coordinator
  <2> QED BY <2>1, NoAttempt, Zenon
<1>4. ASSUME SnapshotDone \/ ReplayDone PROVE CopyInv'
  BY <1>4, CopyKept, Zenon DEF SnapshotDone, ReplayDone, nodes, progress, faults
<1>5. ASSUME PauseRange PROVE CopyInv'
  <2>1. source'.log = source.log /\ source'.ids = source.ids
    BY <1>5, Pausing, ZenonT(30) DEF PauseRange, TypeOK
  <2> QED BY <1>5, <2>1, CopyKept, Zenon DEF PauseRange, nodes, progress, faults
<1>6. ASSUME \/ BeginChange \/ PrepareSource \/ VerifyRange \/ CommitRange \/ VerifyInstance \/ Publish
             \/ InstallTopology \/ ActivateRange \/ SetActivationReady \/ CleanupSource
             \/ Interrupt \/ Fail \/ Reset \/ FinishAbort \/ RecoverJoin
      PROVE  CopyInv'
  <2>1. stage' \in {"planned", "sourced", "verified", "committed", "checked", "published", "installed", "activated",
                    "serving", "complete", "resetting", "aborting", "aborted"}
    BY <1>6, ZenonT(30) DEF BeginChange, PrepareSource, VerifyRange, CommitRange, VerifyInstance, Publish,
       InstallTopology, ActivateRange, SetActivationReady, CleanupSource, Interrupt, Fail, Reset, FinishAbort,
       RecoverJoin
  <2>2. stage' \notin Attempt
    BY <2>1 DEF Attempt
  <2> QED BY <2>2, NoAttempt, Zenon
<1>7. ASSUME CrashDestination PROVE CopyInv'
  <2>1. change' = change /\ stage' = stage /\ \A c \in Changes : staging'[c].state = "none"
    BY <1>7, NoStagingParts, Zenon DEF CrashDestination, coordinator, progress, Changes
  <2>2. stage \in Attempt => change \in Changes
    BY ActiveChange DEF Attempt
  <2>3. ~CleanAttempt'
    BY <2>1, <2>2, Zenon DEF CleanAttempt
  <2> QED BY <2>3, Zenon DEF CopyInv
<1>8. ASSUME RestartDestination \/ UNCHANGED vars PROVE CopyInv'
  BY <1>8, CopyKept, Zenon DEF RestartDestination, vars, nodes, coordinator, progress, faults
<1>9. ASSUME CoordinatorStep PROVE CopyInv'
  <2>1. \A to \in 1 .. Len(source.log) : to \in Nat
    OBVIOUS
  <2> QED BY <1>4, <1>5, <1>6, <1>9, <2>1, CopyOfOpen, CopyOfRead, CopyOfPage, CopyOfReceipts, CopyOfReplay, ZenonT(30)
          DEF CoordinatorStep
<1> QED
  BY <1>1, <1>2, <1>3, <1>6, <1>7, <1>8, <1>9, CopyOfWrite, ZenonT(30) DEF Next

-----------------------------------------------------------------------------
(* What is verified and committed.                                         *)

Verified == {"verified"} \cup Committing \cup {"activated"}

(* Steps that leave the records of both nodes and the staging of the       *)
(* change alone.                                                           *)
LEMMA CommitKept ==
    ASSUME StageInv, CommitInv, src' = src, srcIds' = srcIds, dst' = dst, dstIds' = dstIds, lapsed \subseteq lapsed',
           change' = change, lost' = lost,
           change # 0 => /\ staging'[change].state = staging[change].state
                         /\ staging'[change].rec = staging[change].rec \/ staging[change].state = "open"
                         /\ stage' = "verified" =>
                              staging'[change].rec = staging[change].rec /\ staging'[change].ids = staging[change].ids,
           stage' = stage \/ stage' \notin Verified \/ (stage \in Committing /\ stage' \in Committing)
    PROVE  CommitInv'
<1>1. change' # 0 /\ staging'[change'].state = "committed" => Follows(dst, staging[change].rec)'
  <2>1. ASSUME change # 0, staging'[change].state = "committed" PROVE Follows(dst, staging[change].rec)
    BY <2>1, ZenonT(30) DEF CommitInv
  <2>2. ASSUME change # 0, staging'[change].state = "committed" PROVE staging'[change].rec = staging[change].rec
    BY <2>2
  <2> QED BY <2>1, <2>2, Zenon DEF Follows
<1>2. ASSUME stage' = "verified", staging'[change].state # "none"
      PROVE  /\ staging'[change].rec = src'
             /\ AllDiscarded => srcIds' \subseteq staging'[change].ids
  <2>1. stage = "verified" /\ change # 0
    BY <1>2 DEF Verified, Committing, StageInv
  <2>2. /\ staging'[change].state = staging[change].state
        /\ staging'[change].rec = staging[change].rec /\ staging'[change].ids = staging[change].ids
    BY <1>2, <2>1
  <2>3. staging[change].rec = src /\ (AllDiscarded => srcIds \subseteq staging[change].ids)
    BY <1>2, <2>1, <2>2, Zenon DEF CommitInv
  <2> QED BY <2>2, <2>3, ZenonT(30)
<1>3. ASSUME stage' \in Committing \cup {"activated"}, staging'[change].state # "none"
      PROVE  Follows(dst, src)' /\ (AllDiscarded => srcIds' \subseteq dstIds')
  <2>1. stage \in Committing \cup {"activated"} /\ change # 0
    BY <1>3 DEF Verified, Committing, StageInv
  <2>2. Follows(dst, src) /\ (AllDiscarded => srcIds \subseteq dstIds)
    BY <1>3, <2>1, Zenon DEF CommitInv
  <2> QED BY <2>2, ZenonT(30) DEF Follows
<1> QED
  BY <1>1, <1>2, <1>3, Zenon DEF CommitInv, AllDiscarded

(* Steps after which no staging of the change is committed or verified. *)
LEMMA NothingCommitted ==
    ASSUME stage' \notin Verified, change' # 0 => staging'[change'].state # "committed"
    PROVE  CommitInv'
BY Zenon DEF CommitInv, Verified

LEMMA CommitOfVerify ==
    ASSUME TypeOK, StageInv, CleanInv, JournalInv, CopyInv, CommitInv, VerifyRange
    PROVE  CommitInv'
<1>1. /\ stage = "final" /\ stage' = "verified" /\ watermark = Len(source.log) /\ staging[change].rec = src
      /\ staging[change].state # "none" /\ change' = change /\ staging' = staging /\ lost' = lost
      /\ src' = src /\ srcIds' = srcIds /\ dst' = dst /\ lapsed' = lapsed
  BY Zenon DEF VerifyRange, DigestsAgree, nodes, progress, history, faults
<1>2. ASSUME AllDiscarded PROVE srcIds \subseteq staging[change].ids
  <2>1. staging[change].state = "open" /\ source.on
    <3>1. stage \in Prepublication \ Committing /\ source.on
      BY <1>1 DEF Prepublication, Copying, Committing, StageInv
    <3> QED BY <1>1, <1>2, <3>1, ZenonT(30) DEF CleanInv
  <2>2. CleanAttempt
    BY <1>1, <1>2, <2>1 DEF CleanAttempt, Attempt
  <2>3. source.ids \subseteq staging[change].ids /\ \A i \in 1 .. watermark : source.log[i].m \in staging[change].ids
    BY <1>1, <2>2, Zenon DEF CopyInv
  <2>4. srcIds = source.ids \cup {source.log[i].m : i \in 1 .. Len(source.log)}
    BY <2>1, Zenon DEF JournalInv
  <2> QED BY <1>1, <2>3, <2>4, Zenon
<1>3. stage' \notin Committing \cup {"activated"}
  BY <1>1 DEF Committing
<1>4. change' # 0 /\ staging'[change'].state = "committed" => Follows(dst, staging[change].rec)'
  BY <1>1, Zenon DEF CommitInv, Follows
<1> QED
  BY <1>1, <1>2, <1>3, <1>4, ZenonT(30) DEF CommitInv, AllDiscarded

LEMMA CommitOfCommit ==
    ASSUME TypeOK, StageInv, StagingInv, CleanInv, CommitInv, CommitRange
    PROVE  CommitInv'
<1>1. /\ stage = "verified" /\ stage' = "committed" /\ change' = change /\ lost' = lost
      /\ src' = src /\ srcIds' = srcIds /\ lapsed' = lapsed
  BY Zenon DEF CommitRange, progress, history, faults
<1>2. change \in Changes /\ staging[change] \in Staging
  BY <1>1, ActiveChange
<1>3. staging[change].state # "none" /\ staging'[change].state = "committed"
      /\ staging'[change].rec = staging[change].rec
  BY CommitStep, Zenon
<1>4. staging[change].rec = src /\ (AllDiscarded => srcIds \subseteq staging[change].ids)
  BY <1>1, <1>3, Zenon DEF CommitInv
<1>5. staging[change].state \in {"open", "committed"} /\ (AllDiscarded => staging[change].state = "open")
  <2>1. staging[change].state \in {"none", "open", "committed", "active"}
    BY <1>2, StagingParts, ZenonT(30)
  <2>2. staging[change].state # "active"
    BY <1>1, <1>2 DEF StagingInv, Changes
  <2>3. stage \in Prepublication \ Committing
    BY <1>1 DEF Prepublication, Copying, Committing
  <2> QED BY <1>3, <2>1, <2>2, <2>3, ZenonT(30) DEF CleanInv
<1>6. Follows(dst', src)
  <2>1. CASE staging[change].state = "open"
    BY <1>4, <2>1, Zenon DEF CommitRange, Follows
  <2>2. CASE staging[change].state = "committed"
    <3>1. dst' = dst
      BY <2>2, Zenon DEF CommitRange
    <3>2. change # 0
      BY <1>1 DEF StageInv
    <3> QED BY <1>4, <2>2, <3>1, <3>2, Zenon DEF CommitInv
  <2> QED BY <1>5, <2>1, <2>2, Zenon
<1>7. AllDiscarded => srcIds \subseteq dstIds'
  BY <1>4, <1>5, Zenon DEF CommitRange
<1>8. Follows(dst, src)' /\ Follows(dst, staging[change].rec)'
  BY <1>1, <1>3, <1>4, <1>6, Zenon DEF Follows
<1>9. stage' # "verified"
  BY <1>1, Zenon
<1> QED
  BY <1>1, <1>7, <1>8, <1>9, ZenonT(30) DEF CommitInv, AllDiscarded

LEMMA CommitStepInv ==
    ASSUME TypeOK, StageInv, ProcessInv, StagingInv, CleanInv, JournalInv, CopyInv, CommitInv, [Next]_vars
    PROVE  CommitInv'
<1>0. /\ lapsed \subseteq lapsed
      /\ {"sourced", "snapshot", "receipts", "replay", "copied", "final", "planned", "resetting", "aborting",
          "aborted", "serving", "complete"} \cap Verified = {}
      /\ {"committed", "checked", "published", "installed"} \subseteq Committing
  BY DEF Verified, Committing
<1>1. ASSUME NEW m \in Mutations, WriteAtSource(m) PROVE CommitInv'
  <2>1. stage \notin Verified
    BY <1>1 DEF WriteAtSource, StageInv, Verified, Committing, Cutover
  <2>2. /\ dst' = dst /\ lapsed' = lapsed /\ change' = change /\ staging' = staging /\ stage' = stage
    BY <1>1, Zenon DEF WriteAtSource, coordinator, progress
  <2>3. change' # 0 /\ staging'[change'].state = "committed" => Follows(dst, staging[change].rec)'
    BY <2>2, Zenon DEF CommitInv, Follows
  <2> QED BY <2>1, <2>2, <2>3, ZenonT(30) DEF CommitInv, Verified
<1>2. ASSUME NEW m \in Mutations, WriteAtDestination(m) PROVE CommitInv'
  <2>1. stage' = stage /\ staging' = staging /\ change' = change /\ stage \in {"serving", "complete"}
    BY <1>2, ZenonT(30) DEF WriteAtDestination, StageInv, coordinator, progress
  <2>2. staging[change].state # "committed"
    BY <2>1 DEF StagingInv
  <2> QED BY <1>0, <2>1, <2>2, NothingCommitted, ZenonT(30)
<1>3. ASSUME NEW k \in Keys, Lapse(k) PROVE CommitInv'
  <2>1. lapsed \subseteq lapsed'
    BY <1>3, ZenonT(30) DEF Lapse
  <2> QED BY <1>3, <2>1, CommitKept, Zenon DEF Lapse, nodes, coordinator, progress, faults
<1>4. ASSUME NEW k \in Keys, SweepSource(k) PROVE CommitInv'
  <2>1. stage \notin Verified
    BY <1>4 DEF SweepSource, StageInv, Verified, Committing
  <2>2. /\ dst' = dst /\ lapsed' = lapsed /\ change' = change /\ staging' = staging /\ stage' = stage
    BY <1>4, Zenon DEF SweepSource, coordinator, progress, history
  <2>3. change' # 0 /\ staging'[change'].state = "committed" => Follows(dst, staging[change].rec)'
    BY <2>2, Zenon DEF CommitInv, Follows
  <2> QED BY <2>1, <2>2, <2>3, Zenon DEF CommitInv, Verified
<1>5. ASSUME NEW k \in Keys, SweepDestination(k) PROVE CommitInv'
  <2>1. /\ src' = src /\ srcIds' = srcIds /\ dstIds' = dstIds /\ lapsed' = lapsed /\ change' = change
        /\ staging' = staging /\ stage' = stage /\ lost' = lost /\ dst[k] \in lapsed
        /\ dst' = [dst EXCEPT ![k] = 0] /\ dst \in Records
    BY <1>5, Zenon DEF SweepDestination, TypeOK, coordinator, progress, history, faults
  <2>2. dst'[k] = 0 /\ \A j \in Keys : j # k => dst'[j] = dst[j]
    BY <2>1, Zenon DEF Records
  <2>3. \A others : Follows(dst, others) => Follows(dst', others)
    BY <2>1, <2>2, Zenon DEF Follows
  <2>4. Follows(dst', src) <=> Follows(dst, src)'
    BY <2>1, Zenon DEF Follows
  <2>5. Follows(dst', staging[change].rec) <=> Follows(dst, staging[change].rec)'
    BY <2>1, Zenon DEF Follows
  <2> QED BY <2>1, <2>3, <2>4, <2>5, ZenonT(30) DEF CommitInv, AllDiscarded
<1>6. ASSUME BeginChange PROVE CommitInv'
  <2>1. stage' = "planned" /\ staging' = staging /\ change' = change + 1 /\ change < MaxChanges
    BY <1>6, Zenon DEF BeginChange
  <2>2. change' \in 1 .. MaxChanges /\ change' > change
    <3>1. change \in 0 .. MaxChanges /\ MaxChanges \in Nat
      BY BoundsAssumption, ZenonT(30) DEF TypeOK
    <3> QED BY <2>1, <3>1
  <2>3. staging'[change'].state # "committed"
    BY <2>1, <2>2 DEF StagingInv
  <2> QED BY <1>0, <2>1, <2>3, NothingCommitted, Zenon
<1>7. ASSUME PrepareDestination PROVE CommitInv'
  <2>1. /\ src' = src /\ srcIds' = srcIds /\ dst' = dst /\ dstIds' = dstIds /\ lapsed' = lapsed
        /\ stage' = "snapshot" /\ change' = change /\ lost' = lost
    BY <1>7, Zenon DEF PrepareDestination, nodes, history, faults
  <2>2. CASE staging' = staging
    BY <1>0, <2>1, <2>2, CommitKept, ZenonT(30)
  <2>3. CASE staging'[change].state = "open"
    BY <1>0, <2>1, <2>3, NothingCommitted, Zenon
  <2> QED BY <1>7, <2>2, <2>3, OpenStep, ZenonT(30)
<1>8. ASSUME ApplySnapshot PROVE CommitInv'
  <2>1. /\ src' = src /\ srcIds' = srcIds /\ dst' = dst /\ dstIds' = dstIds /\ lapsed' = lapsed
        /\ stage' = stage /\ stage' # "verified" /\ change' = change /\ lost' = lost
    BY <1>8, Zenon DEF ApplySnapshot, nodes, history, faults
  <2> QED BY <1>0, <1>8, <2>1, PageStep, CommitKept, ZenonT(30)
<1>9. ASSUME CopyReceipts PROVE CommitInv'
  <2>1. /\ src' = src /\ srcIds' = srcIds /\ dst' = dst /\ dstIds' = dstIds /\ lapsed' = lapsed
        /\ stage' = "replay" /\ stage' # "verified" /\ change' = change /\ lost' = lost
    BY <1>9, Zenon DEF CopyReceipts, nodes, progress, history, faults
  <2> QED BY <1>0, <1>9, <2>1, ReceiptStep, CommitKept, ZenonT(30)
<1>10. ASSUME NEW to \in Nat, ReplayPage(to) PROVE CommitInv'
  <2>1. stage' \in {"replay", "final"} /\ change' = change /\ staging'[change].state = "open"
    BY <1>10, ReplayStep, Zenon DEF ReplayPage
  <2> QED BY <1>0, <2>1, NothingCommitted, Zenon
<1>11. ASSUME \/ \E k \in Keys : ReadSnapshot(k)
              \/ PrepareSource \/ SnapshotDone \/ ReplayDone \/ PauseRange \/ VerifyInstance \/ Publish
              \/ InstallTopology \/ Interrupt \/ RestartDestination
       PROVE  CommitInv'
  <2>1. /\ src' = src /\ srcIds' = srcIds /\ dst' = dst /\ dstIds' = dstIds /\ lapsed' = lapsed
        /\ change' = change /\ lost' = lost /\ staging' = staging
    BY <1>11, Zenon DEF ReadSnapshot, PrepareSource, SnapshotDone, ReplayDone, PauseRange, VerifyInstance, Publish,
       InstallTopology, Interrupt, RestartDestination, nodes, coordinator, progress, history, faults
  <2>2. stage' = stage \/ stage' \notin Verified \/ (stage \in Committing /\ stage' \in Committing)
    BY <1>0, <1>11, Zenon DEF ReadSnapshot, PrepareSource, SnapshotDone, ReplayDone, PauseRange, VerifyInstance,
       Publish, InstallTopology, Interrupt, RestartDestination, coordinator
  <2> QED BY <1>0, <2>1, <2>2, CommitKept, ZenonT(30)
<1>12. ASSUME Fail PROVE CommitInv'
  <2>1. stage' \in {"resetting", "aborting"}
    BY <1>12, Zenon DEF Fail
  <2> QED BY <1>0, <1>12, <2>1, CommitKept, Zenon DEF Fail, nodes, history, faults
<1>13. ASSUME ActivateRange PROVE CommitInv'
  <2>1. /\ src' = src /\ srcIds' = srcIds /\ dst' = dst /\ dstIds' = dstIds /\ lapsed' = lapsed
        /\ stage = "installed" /\ stage' = "activated" /\ change' = change /\ lost' = lost
        /\ staging[change].state # "none"
    BY <1>13, Zenon DEF ActivateRange, nodes, progress, history, faults
  <2>2. staging'[change].state = "active"
    BY <1>13, ActivateStep, Zenon
  <2>3. Follows(dst, src) /\ (AllDiscarded => srcIds \subseteq dstIds)
    BY <1>0, <2>1, Zenon DEF CommitInv
  <2>4. Follows(dst, src)'
    BY <2>1, <2>3, Zenon DEF Follows
  <2> QED BY <2>1, <2>2, <2>3, <2>4, ZenonT(30) DEF CommitInv, AllDiscarded
<1>14. ASSUME SetActivationReady PROVE CommitInv'
  <2>1. stage' = "serving" /\ staging' = staging /\ change' = change /\ stage = "activated"
    BY <1>14, ZenonT(30) DEF SetActivationReady, progress
  <2>2. staging[change].state # "committed"
    BY <2>1 DEF StagingInv
  <2> QED BY <1>0, <2>1, <2>2, NothingCommitted, ZenonT(30)
<1>15. ASSUME CleanupSource PROVE CommitInv'
  <2>1. stage' = "complete" /\ staging' = staging /\ change' = change /\ stage = "serving"
    BY <1>15, Zenon DEF CleanupSource, progress
  <2>2. staging[change].state # "committed"
    BY <2>1 DEF StagingInv
  <2> QED BY <1>0, <2>1, <2>2, NothingCommitted, Zenon
<1>16. ASSUME Reset \/ FinishAbort PROVE CommitInv'
  <2>1. /\ src' = src /\ srcIds' = srcIds /\ dst' = dst /\ dstIds' = dstIds /\ lapsed' = lapsed
        /\ stage \in {"resetting", "aborting"} /\ stage # "idle" /\ stage' \in {"planned", "aborted"}
        /\ change' = change /\ ClearNodes
    BY <1>16 DEF Reset, FinishAbort, nodes, progress, history
  <2>2. CASE staging'[change].state = "none"
    BY <1>0, <2>1, <2>2, NothingCommitted, ZenonT(30)
  <2>3. CASE staging' = staging
    <3>1. change' # 0 /\ staging'[change'].state = "committed" => Follows(dst, staging[change].rec)'
      BY <2>1, <2>3, ZenonT(30) DEF CommitInv, Follows
    <3> QED BY <1>0, <2>1, <3>1, ZenonT(30) DEF CommitInv, Verified
  <2> QED BY <2>1, <2>2, <2>3, ClearStep, ZenonT(30)
<1>17. ASSUME CrashDestination PROVE CommitInv'
  <2>1. change' = change /\ stage' = stage /\ \A c \in Changes : staging'[c].state = "none"
    BY <1>17, NoStagingParts, ZenonT(30) DEF CrashDestination, coordinator, progress, Changes
  <2>2. change # 0 => change \in Changes
    BY BoundTypes DEF TypeOK, Changes
  <2>3. stage \in Verified => change # 0
    BY DEF StageInv, Verified, Committing
  <2> QED BY <2>1, <2>2, <2>3, ZenonT(30) DEF CommitInv, Verified
<1>18. ASSUME RecoverJoin PROVE CommitInv'
  <2>1. process = 0 /\ staging' = staging /\ change' = change /\ stage' = "aborted"
    BY <1>18, ZenonT(30) DEF RecoverJoin
  <2>2. change # 0 => change \in 1 .. MaxChanges
    BY BoundTypes DEF TypeOK
  <2>3. change' # 0 => staging'[change'].state # "committed"
    BY <2>1, <2>2, Zenon DEF ProcessInv
  <2> QED BY <1>0, <2>1, <2>3, NothingCommitted, ZenonT(30)
<1>19. ASSUME UNCHANGED vars PROVE CommitInv'
  BY <1>0, <1>19, CommitKept, Zenon DEF vars, nodes, coordinator, progress, history, faults
<1>20. ASSUME CoordinatorStep PROVE CommitInv'
  <2>1. \A to \in 1 .. Len(source.log) : to \in Nat
    OBVIOUS
  <2> QED BY <1>7, <1>8, <1>9, <1>10, <1>11, <1>12, <1>13, <1>14, <1>15, <1>16, <1>18, <1>20, <2>1, CommitOfVerify,
             CommitOfCommit, ZenonT(30) DEF CoordinatorStep
<1> QED
  BY <1>1, <1>2, <1>3, <1>4, <1>5, <1>6, <1>11, <1>17, <1>19, <1>20, ZenonT(30) DEF Next

-----------------------------------------------------------------------------
(* What is served.                                                         *)

LEMMA ServedKept ==
    ASSUME ServedInv, src' = src, srcIds' = srcIds, dst' = dst, dstIds' = dstIds, latest' = latest,
           lapsed \subseteq lapsed', applied' = applied, lost' = lost,
           serves' = serves \/ (serves # "destination" /\ serves' # "destination")
    PROVE  ServedInv'
<1>1. /\ Holds(src) => Holds(src)'
      /\ Holds(dst) => Holds(dst)'
  BY Zenon DEF Holds, Follows
<1>2. CASE serves' # "destination"
  <2>1. serves # "destination"
    BY <1>2, Zenon
  <2> QED BY <1>1, <1>2, <2>1, ZenonT(30) DEF ServedInv
<1>3. CASE serves' = "destination"
  <2>1. serves = "destination"
    BY <1>3, Zenon
  <2> QED BY <1>1, <1>3, <2>1, Zenon DEF ServedInv, AllDiscarded
<1> QED
  BY <1>2, <1>3, Zenon

LEMMA ServedOfWrite ==
    ASSUME TypeOK, StageInv, JournalInv, ServedInv, NEW m \in Mutations, WriteAtSource(m)
    PROVE  ServedInv'
<1>1. /\ serves = "source" /\ serves' = serves /\ m \notin srcIds /\ srcIds' = srcIds \cup {m}
      /\ src' = [src EXCEPT ![KeyOf[m]] = next + 1] /\ latest' = [latest EXCEPT ![KeyOf[m]] = next + 1]
      /\ applied' = [applied EXCEPT ![m] = @ + 1] /\ lapsed' = lapsed
  BY Zenon DEF WriteAtSource
<1>2. src \in Records /\ latest \in Records /\ applied \in [Mutations -> Nat] /\ KeyOf[m] \in Keys
  BY BoundTypes, Zenon DEF TypeOK
<1>3. /\ src'[KeyOf[m]] = latest'[KeyOf[m]]
      /\ \A k \in Keys : k # KeyOf[m] => src'[k] = src[k] /\ latest'[k] = latest[k]
  BY <1>1, <1>2, ZenonT(30) DEF Records
<1>4. Holds(src) /\ \A n \in Mutations : applied[n] = IF n \in srcIds THEN 1 ELSE 0
  BY <1>1 DEF ServedInv
<1>5. Holds(src)'
  <2>1. ASSUME NEW k \in Keys PROVE src'[k] = latest'[k] \/ (src'[k] = 0 /\ latest'[k] \in lapsed)
    <3>1. CASE k = KeyOf[m]
      BY <1>3, <3>1, Zenon
    <3>2. CASE k # KeyOf[m]
      BY <1>3, <1>4, <3>2, Zenon DEF Holds, Follows
    <3> QED BY <3>1, <3>2, Zenon
  <2> QED BY <1>1, <2>1, Zenon DEF Holds, Follows
<1>6. applied[m] = 0
  BY <1>1, <1>4, Zenon
<1>7. applied'[m] = 1 /\ \A n \in Mutations : n # m => applied'[n] = applied[n]
  BY <1>1, <1>2, <1>6
<1>8. \A n \in Mutations : applied'[n] = IF n \in srcIds' THEN 1 ELSE 0
  BY <1>1, <1>4, <1>7, Zenon
<1>9. serves' # "destination"
  BY <1>1
<1> QED
  BY <1>5, <1>8, <1>9, Zenon DEF ServedInv

LEMMA ServedOfHandedOver ==
    ASSUME TypeOK, ServedInv, NEW m \in Mutations, WriteAtDestination(m)
    PROVE  ServedInv'
<1>1. /\ serves = "destination" /\ serves' = serves /\ m \notin dstIds /\ dstIds' = dstIds \cup {m}
      /\ dst' = [dst EXCEPT ![KeyOf[m]] = next + 1] /\ latest' = [latest EXCEPT ![KeyOf[m]] = next + 1]
      /\ applied' = [applied EXCEPT ![m] = @ + 1] /\ lapsed' = lapsed /\ lost' = lost
  BY Zenon DEF WriteAtDestination, faults
<1>2. dst \in Records /\ latest \in Records /\ applied \in [Mutations -> Nat] /\ KeyOf[m] \in Keys
  BY BoundTypes, Zenon DEF TypeOK
<1>3. /\ dst'[KeyOf[m]] = latest'[KeyOf[m]]
      /\ \A k \in Keys : k # KeyOf[m] => dst'[k] = dst[k] /\ latest'[k] = latest[k]
  BY <1>1, <1>2, Zenon DEF Records
<1>4. Holds(dst)
  BY <1>1, Zenon DEF ServedInv
<1>5. Holds(dst)'
  <2>1. ASSUME NEW k \in Keys PROVE dst'[k] = latest'[k] \/ (dst'[k] = 0 /\ latest'[k] \in lapsed)
    <3>1. CASE k = KeyOf[m]
      BY <1>3, <3>1, Zenon
    <3>2. CASE k # KeyOf[m]
      BY <1>3, <1>4, <3>2, Zenon DEF Holds, Follows
    <3> QED BY <3>1, <3>2, Zenon
  <2> QED BY <1>1, <2>1, Zenon DEF Holds, Follows
<1>6. ASSUME AllDiscarded, NEW n \in Mutations PROVE applied'[n] <= 1 /\ (n \in dstIds' \/ applied'[n] = 0)
  <2>1. applied[n] <= 1 /\ (n \in dstIds \/ applied[n] = 0)
    BY <1>1, <1>6, Zenon DEF ServedInv
  <2>2. CASE n = m
    BY <1>1, <1>2, <2>1, <2>2
  <2>3. CASE n # m
    BY <1>1, <1>2, <2>1, <2>3, Zenon
  <2> QED BY <2>2, <2>3, Zenon
<1> QED
  BY <1>1, <1>5, <1>6, Zenon DEF ServedInv, AllDiscarded

(* A sweep takes away only what has expired. *)
LEMMA ServedOfSweep ==
    ASSUME TypeOK, ServedInv, NEW k \in Keys, SweepSource(k) \/ SweepDestination(k)
    PROVE  ServedInv'
<1>1. /\ srcIds' = srcIds /\ dstIds' = dstIds /\ latest' = latest /\ lapsed' = lapsed /\ applied' = applied
      /\ lost' = lost /\ serves' = serves
  BY Zenon DEF SweepSource, SweepDestination, history, faults
<1>2. src \in Records /\ dst \in Records
  BY Zenon DEF TypeOK
<1>3. CASE SweepSource(k)
  <2>1. src[k] \in lapsed /\ src' = [src EXCEPT ![k] = 0] /\ dst' = dst
    BY <1>3, Zenon DEF SweepSource
  <2>2. src'[k] = 0 /\ \A j \in Keys : j # k => src'[j] = src[j]
    BY <1>2, <2>1, Zenon DEF Records
  <2>3. Holds(src) => Holds(src)'
    BY <1>1, <2>1, <2>2, Zenon DEF Holds, Follows
  <2>4. Holds(dst) => Holds(dst)'
    BY <1>1, <2>1, Zenon DEF Holds, Follows
  <2> QED BY <1>1, <2>3, <2>4, Zenon DEF ServedInv, AllDiscarded
<1>4. CASE SweepDestination(k)
  <2>1. dst[k] \in lapsed /\ dst' = [dst EXCEPT ![k] = 0] /\ src' = src
    BY <1>4, Zenon DEF SweepDestination
  <2>2. dst'[k] = 0 /\ \A j \in Keys : j # k => dst'[j] = dst[j]
    BY <1>2, <2>1, ZenonT(30) DEF Records
  <2>3. Holds(dst) => Holds(dst)'
    BY <1>1, <2>1, <2>2, Zenon DEF Holds, Follows
  <2>4. Holds(src) => Holds(src)'
    BY <1>1, <2>1, Zenon DEF Holds, Follows
  <2> QED BY <1>1, <2>3, <2>4, Zenon DEF ServedInv, AllDiscarded
<1> QED
  BY <1>3, <1>4, Zenon

(* The destination takes over with all records and receipts. *)
LEMMA ServedOfHandover ==
    ASSUME TypeOK, StageInv, ProcessInv, CommitInv, ServedInv, SetActivationReady
    PROVE  ServedInv'
<1>1. /\ stage = "activated" /\ process # 0 /\ serves' = "destination" /\ dst' = dst /\ dstIds' = dstIds
      /\ latest' = latest /\ lapsed' = lapsed /\ applied' = applied /\ lost' = lost
  BY Zenon DEF SetActivationReady, nodes, history, faults
<1>2. staging[change].state # "none"
  BY <1>1, Zenon DEF ProcessInv
<1>3. Follows(dst, src) /\ (AllDiscarded => srcIds \subseteq dstIds)
  BY <1>1, <1>2, Zenon DEF CommitInv
<1>4. serves # "destination"
  BY <1>1 DEF StageInv
<1>5. Holds(src) /\ \A m \in Mutations : applied[m] = IF m \in srcIds THEN 1 ELSE 0
  BY <1>4, Zenon DEF ServedInv
<1>6. Holds(dst)'
  BY <1>1, <1>3, <1>5, Zenon DEF Holds, Follows
<1>7. \A m \in Mutations : applied[m] <= 1
  BY <1>5
<1>8. ASSUME AllDiscarded, NEW m \in Mutations PROVE m \in dstIds \/ applied[m] = 0
  BY <1>3, <1>5, <1>8, Zenon
<1> QED
  BY <1>1, <1>6, <1>7, <1>8, Zenon DEF ServedInv, AllDiscarded

LEMMA ServedStep ==
    ASSUME TypeOK, StageInv, ProcessInv, JournalInv, CommitInv, ServedInv, [Next]_vars
    PROVE  ServedInv'
<1>0. lapsed \subseteq lapsed
  OBVIOUS
<1>1. ASSUME NEW k \in Keys, Lapse(k) PROVE ServedInv'
  <2>1. lapsed \subseteq lapsed'
    BY <1>1, Zenon DEF Lapse
  <2> QED BY <1>1, <2>1, ServedKept, Zenon DEF Lapse, nodes, faults
<1>2. ASSUME \/ BeginChange \/ PrepareSource \/ PrepareDestination \/ ApplySnapshot \/ SnapshotDone \/ CopyReceipts
             \/ \E k \in Keys : ReadSnapshot(k)
             \/ \E to \in 1 .. Len(source.log) : ReplayPage(to)
             \/ ReplayDone \/ PauseRange \/ VerifyRange
      PROVE  ServedInv'
  <2>1. /\ src' = src /\ srcIds' = srcIds /\ dst' = dst /\ dstIds' = dstIds /\ latest' = latest
        /\ lapsed' = lapsed /\ applied' = applied /\ lost' = lost /\ serves' = serves
    BY <1>2, ZenonT(30) DEF BeginChange, PrepareSource, PrepareDestination, ApplySnapshot, SnapshotDone, CopyReceipts,
       ReadSnapshot, ReplayPage, ReplayDone, PauseRange, VerifyRange, nodes, history, faults
  <2> QED BY <1>0, <2>1, ServedKept, Zenon
<1>3. ASSUME VerifyInstance \/ Publish \/ ActivateRange \/ Interrupt \/ Fail \/ RestartDestination PROVE ServedInv'
  <2>1. /\ src' = src /\ srcIds' = srcIds /\ dst' = dst /\ dstIds' = dstIds /\ latest' = latest
        /\ lapsed' = lapsed /\ applied' = applied /\ lost' = lost /\ serves' = serves
    BY <1>3, Zenon DEF VerifyInstance, Publish, ActivateRange, Interrupt, Fail, RestartDestination, nodes,
       history, faults
  <2> QED BY <1>0, <2>1, ServedKept, Zenon
<1>4. ASSUME InstallTopology \/ RecoverJoin PROVE ServedInv'
  <2>1. serves # "destination" /\ serves' # "destination"
    BY <1>4 DEF InstallTopology, RecoverJoin, StageInv
  <2>2. /\ src' = src /\ srcIds' = srcIds /\ dst' = dst /\ dstIds' = dstIds /\ latest' = latest
        /\ lapsed' = lapsed /\ applied' = applied /\ lost' = lost
    BY <1>4, Zenon DEF InstallTopology, RecoverJoin, nodes, history, faults
  <2> QED BY <1>0, <2>1, <2>2, ServedKept, Zenon
<1>5. ASSUME CommitRange \/ CrashDestination \/ Reset \/ FinishAbort PROVE ServedInv'
  <2>1. stage \notin {"serving", "complete"}
    BY <1>5 DEF CommitRange, CrashDestination, Reset, FinishAbort
  <2>2. serves # "destination"
    BY <2>1, Zenon DEF StageInv
  <2>3. src' = src /\ srcIds' = srcIds /\ latest' = latest /\ lapsed' = lapsed /\ applied' = applied /\ serves' = serves
    BY <1>5, Zenon DEF CommitRange, CrashDestination, Reset, FinishAbort, nodes, history
  <2>4. Holds(src)'
    BY <2>2, <2>3, Zenon DEF ServedInv, Holds, Follows
  <2> QED BY <2>2, <2>3, <2>4, Zenon DEF ServedInv
<1>6. ASSUME CleanupSource PROVE ServedInv'
  <2>1. serves = "destination"
    BY <1>6, Zenon DEF CleanupSource, StageInv
  <2>2. /\ serves' = serves /\ dst' = dst /\ dstIds' = dstIds /\ latest' = latest /\ lapsed' = lapsed
        /\ applied' = applied /\ lost' = lost
    BY <1>6, Zenon DEF CleanupSource, history, faults
  <2>3. Holds(dst)'
    BY <2>1, <2>2, Zenon DEF ServedInv, Holds, Follows
  <2> QED BY <2>1, <2>2, <2>3, Zenon DEF ServedInv, AllDiscarded
<1>7. ASSUME UNCHANGED vars PROVE ServedInv'
  BY <1>0, <1>7, ServedKept, Zenon DEF vars, nodes, history, faults
<1>8. ASSUME CoordinatorStep PROVE ServedInv'
  BY <1>2, <1>3, <1>4, <1>5, <1>6, <1>8, ServedOfHandover, ZenonT(30) DEF CoordinatorStep
<1> QED
  BY <1>1, <1>2, <1>3, <1>5, <1>7, <1>8, ServedOfWrite, ServedOfHandedOver, ServedOfSweep, ZenonT(30) DEF Next

-----------------------------------------------------------------------------
(* The invariant holds initially, and in all states.                       *)

LEMMA MoveInit == Init => MoveInv
<1> SUFFICES ASSUME Init PROVE MoveInv
  OBVIOUS
<1>1. /\ stage = "idle" /\ serves = "source" /\ change = 0 /\ page = NoPage /\ todo = {} /\ process = 1
      /\ crashes = 0 /\ lost = 0 /\ lapsed = {} /\ latest = src /\ next = 1 /\ srcIds = {} /\ dstIds = {}
      /\ dst = [k \in Keys |-> 0] /\ source = NoSource /\ watermark = 0 /\ expected = 0 /\ fails = 0
  BY Zenon DEF Init
<1>2. src \in Records /\ \A k \in Keys : src[k] <= next
  <2>1. src \in [Keys -> {0, 1}] /\ {0, 1} \subseteq Version
    BY BoundsAssumption DEF Init, Version
  <2>2. \A k \in Keys : src[k] \in {0, 1}
    BY <2>1, Zenon
  <2> QED BY <1>1, <2>1, <2>2 DEF Records
<1>3. /\ staging = [c \in 1 .. MaxChanges |-> NoStaging] /\ staging \in [1 .. MaxChanges -> Staging]
      /\ \A c \in 1 .. MaxChanges : staging[c].state = "none"
  BY NoStagingParts, Zenon DEF Init
<1>4. applied \in [Mutations -> Nat] /\ \A m \in Mutations : applied[m] = 0
  BY DEF Init
<1>5. TypeOK
  <2>1. next \in Version \ {0} /\ watermark \in Nat /\ fails \in 0 .. MaxFails /\ lost \in 0 .. MaxLost
        /\ crashes \in 0 .. MaxCrashes /\ process \in 0 .. MaxCrashes + 1 /\ expected \in 0 .. MaxCrashes + 1
        /\ change \in 0 .. MaxChanges
    BY <1>1, BoundsAssumption DEF Version
  <2>2. source \in Source /\ Unique(source.log)
    BY <1>1, NoSourceParts DEF Unique
  <2>3. dst \in Records /\ stage \in Stage
    BY <1>1, BoundTypes, StageNames, ZenonT(30)
  <2> QED BY <1>1, <1>2, <1>3, <1>4, <2>1, <2>2, <2>3, ZenonT(30) DEF TypeOK, Unique
<1>6. StageInv
  BY <1>1, NoSourceParts DEF StageInv, Cutover
<1>7. ProcessInv
  BY <1>1, <1>3 DEF ProcessInv, Prepublication, Copying
<1>8. StagingInv /\ CleanInv
  BY <1>1, <1>3 DEF StagingInv, CleanInv, Prepublication, Copying, Committing
<1>9. JournalInv
  BY <1>1, <1>2, NoSourceParts, ZenonT(30) DEF JournalInv
<1>10. CopyInv
  <2>1. stage \notin Attempt
    BY <1>1 DEF Attempt
  <2> QED BY <2>1, Zenon DEF CopyInv, CleanAttempt
<1>11. CommitInv
  BY <1>1 DEF CommitInv, Committing
<1>12. ServedInv
  <2>1. Holds(src) /\ serves # "destination"
    BY <1>1 DEF Holds, Follows
  <2> QED BY <1>1, <1>4, <2>1, ZenonT(30) DEF ServedInv
<1> QED
  BY <1>5, <1>6, <1>7, <1>8, <1>9, <1>10, <1>11, <1>12, ZenonT(30) DEF MoveInv

LEMMA MoveStep ==
    MoveInv /\ [Next]_vars => MoveInv'
<1> SUFFICES ASSUME MoveInv, [Next]_vars PROVE MoveInv'
  BY Zenon
<1>1. TypeOK /\ StageInv /\ ProcessInv /\ StagingInv /\ CleanInv /\ JournalInv /\ CopyInv /\ CommitInv /\ ServedInv
  BY Zenon DEF MoveInv
<1> QED
  BY <1>1, TypeStep, StageStep, ProcessStep, StagingStep, JournalStep, CopyStep, CommitStepInv, ServedStep, ZenonT(30)
     DEF MoveInv

(* The invariant is inductive. *)
THEOREM MoveInvariant == Spec => []MoveInv
BY MoveInit, MoveStep, PTL DEF Spec

(* For any keys, mutations, changes, interruptions, lost discards, lost    *)
(* processes and expiring records: the node that serves the range has the  *)
(* latest version of each record, unless it has expired.  Pause, replay,   *)
(* digests and instance checks of execute_change leave no write behind.    *)
THEOREM MovedRangeServesLatest == Spec => []LatestIsServed
<1>1. MoveInv => LatestIsServed
  <2> SUFFICES ASSUME MoveInv PROVE LatestIsServed
    BY Zenon
  <2>1. TypeOK /\ ServedInv
    BY Zenon DEF MoveInv
  <2>2. serves = "source" => serves # "destination"
    OBVIOUS
  <2> QED BY <2>1, <2>2, Zenon DEF LatestIsServed, ServedInv
<1> QED
  BY <1>1, MoveInvariant, PTL

(* A retry of put or delete is applied once, whichever node answers it, if *)
(* no discard of staging was lost.                                         *)
THEOREM MovedReceiptsPreventReplay == Spec => []RetryAppliedOnce
<1>1. MoveInv => RetryAppliedOnce
  <2> SUFFICES ASSUME MoveInv, AllDiscarded PROVE AppliedOnce
    BY Zenon DEF RetryAppliedOnce
  <2>1. ServedInv
    BY Zenon DEF MoveInv
  <2>2. CASE serves = "destination"
    BY <2>1, <2>2, Zenon DEF ServedInv, AppliedOnce
  <2>3. CASE serves # "destination"
    <3>1. \A m \in Mutations : applied[m] = IF m \in srcIds THEN 1 ELSE 0
      BY <2>1, <2>3, Zenon DEF ServedInv
    <3> QED BY <3>1 DEF AppliedOnce
  <2> QED BY <2>2, <2>3, Zenon
<1> QED
  BY <1>1, MoveInvariant, PTL

(* When the journal is replayed to its end, the copy of an attempt that    *)
(* started clean verifies: finalize_range refuses no such attempt.         *)
THEOREM CleanCopiesVerify == Spec => []ReplayedCopyVerifies
<1>1. MoveInv => ReplayedCopyVerifies
  <2> SUFFICES ASSUME MoveInv, AllDiscarded, stage = "final", Staged, watermark = Len(source.log)
               PROVE  DigestsAgree
    BY Zenon DEF ReplayedCopyVerifies
  <2>1. TypeOK /\ StageInv /\ JournalInv /\ CopyInv
    BY Zenon DEF MoveInv
  <2>2. CleanAttempt /\ source.on /\ todo = {} /\ staging[change] \in Staging
    BY <2>1, ActiveChange DEF CleanAttempt, Attempt, Staged, StageInv
  <2>3. staging[change].rec \in Records /\ src \in Records
    BY <2>1, <2>2, StagingParts, ZenonT(30) DEF TypeOK
  <2>4. \A k \in Keys : src[k] \in Nat /\ staging[change].rec[k] \in Nat
    BY <2>3, BoundTypes, Zenon DEF Records
  <2>5. ASSUME NEW k \in Keys PROVE staging[change].rec[k] = src[k]
    <3>1. staging[change].rec[k] <= src[k] /\ (staging[change].rec[k] = src[k] \/ Journalled(k))
      BY <2>1, <2>2, ZenonT(30) DEF CopyInv
    <3>2. CASE Journalled(k)
      <4>1. PICK i \in 1 .. Len(source.log) : source.log[i].k = k /\ source.log[i].v = src[k]
        BY <2>1, <2>2, <3>2, Zenon DEF JournalInv
      <4>2. src[k] <= staging[change].rec[k]
        BY <2>1, <2>2, <4>1, ZenonT(30) DEF CopyInv
      <4> QED BY <2>4, <3>1, <4>2
    <3> QED BY <3>1, <3>2, Zenon
  <2>6. staging[change].rec = src
    BY <2>3, <2>5 DEF Records
  <2>7. staging[change].wm = Len(source.log)
    BY <2>1, <2>2, Zenon DEF CopyInv
  <2> QED BY <2>6, <2>7, Zenon DEF DigestsAgree
<1> QED
  BY <1>1, MoveInvariant, PTL

(* A completed move leaves the destination open for writes of the range if *)
(* no discard was lost: activate_destination_range ends the only fence.    *)
THEOREM CompletedMoveIsOpen == Spec => []MoveEndsItsFence
<1>1. MoveInv => MoveEndsItsFence
  <2> SUFFICES ASSUME MoveInv, AllDiscarded, stage = "complete" PROVE AcceptsWrites
    BY Zenon DEF MoveEndsItsFence, MovedRangeTakesWrites
  <2>1. StagingInv /\ CleanInv
    BY Zenon DEF MoveInv
  <2>2. staging[change].state = "active"
    BY <2>1, Zenon DEF StagingInv
  <2>3. \A c \in 1 .. MaxChanges : c # change => staging[c].state = "none"
    BY <2>1, Zenon DEF CleanInv
  <2>4. ASSUME NEW c \in 1 .. MaxChanges PROVE staging[c].state \in {"none", "active"}
    BY <2>2, <2>3, Zenon
  <2>5. \A c \in 1 .. MaxChanges : staging[c].state \notin {"open", "committed"}
    BY <2>4
  <2> QED BY <2>5, Zenon DEF AcceptsWrites
<1> QED
  BY <1>1, MoveInvariant, PTL
=============================================================================

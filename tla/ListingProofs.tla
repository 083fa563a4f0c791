---------------------------- MODULE ListingProofs ----------------------------
(***************************************************************************)
(* What the listings return is exact, for any ring, any changes of it and  *)
(* any page limits.  A page lists all that its node owns between two       *)
(* tokens, and what a node owns under its installed topology is what the   *)
(* owner holds, because both owners hold a moving key until every node has *)
(* the new topology; so a walk, a scan or a search that has come to a      *)
(* token has seen the keys before it.                                      *)
(***************************************************************************)
EXTENDS Listing, TLAPS, FiniteSetTheorems

(* The least of a non-empty set of natural numbers is its least element. *)
LEMMA LeastIs ==
    ASSUME NEW S, S \subseteq Nat, S # {}
    PROVE  Least(S) \in S /\ \A u \in S : Least(S) <= u
<1>1. IsWellFoundedOn(OpToRel(<, Nat), Nat)
  BY NatLessThanWellFounded, Zenon
<1>2. PICK x \in S : \A y \in S : ~(<<y, x>> \in OpToRel(<, Nat))
  BY <1>1, WFMin, Zenon
<1>3. \A y \in S : ~(y < x)
  BY <1>2, Zenon DEF OpToRel
<1>4. \A y \in S : x <= y
  <2> SUFFICES ASSUME NEW y \in S PROVE x <= y
    BY Zenon
  <2>1. x \in Nat /\ y \in Nat
    BY Zenon
  <2> QED BY <1>3, <2>1
<1> QED
  BY <1>4, Zenon DEF Least

-----------------------------------------------------------------------------
(* The ring. *)

Places == 0..MaxToken

LEMMA OwnerIs ==
    ASSUME NEW e \in DOMAIN Assignments, NEW t \in Places
    PROVE  OwnerAt(e, t) = OwnerForToken(e, t)
BY Zenon DEF OwnerAt, OwnerTable, Places

LEMMA RingShape ==
    ASSUME NEW e \in DOMAIN Assignments
    PROVE  /\ Assignments[e] # {}
           /\ \A a \in Assignments[e] : a[1] \in Places /\ a[2] \in Nodes
           /\ Tokens(e) \subseteq Nat /\ Owners(e) \subseteq Nodes
<1>1. Assignments[e] \subseteq Places \X Nodes /\ Assignments[e] # {}
  BY ListingAssumption DEF Places
<1>2. \A a \in Assignments[e] : a[1] \in Places /\ a[2] \in Nodes
  BY <1>1
<1>3. Places \subseteq Nat
  BY ListingAssumption DEF Places
<1> QED BY <1>1, <1>2, <1>3, Zenon DEF Tokens, Owners

(* Every token has an owner, and it is one of the owners of the ring. *)
LEMMA OwnerMember ==
    ASSUME NEW e \in DOMAIN Assignments, NEW t \in Places
    PROVE  OwnerAt(e, t) \in Owners(e) /\ OwnerAt(e, t) \in Nodes
<1> DEFINE after == {u \in Tokens(e) : u >= t}
           S == IF after = {} THEN Tokens(e) ELSE after
<1>1. S \subseteq Tokens(e) /\ S # {} /\ S \subseteq Nat
  <2>1. Tokens(e) # {} /\ Tokens(e) \subseteq Nat
    BY RingShape, Zenon DEF Tokens
  <2> QED BY <2>1, Zenon
<1>2. Least(S) \in Tokens(e)
  <2> HIDE DEF S
  <2> QED BY <1>1, LeastIs, Zenon
<1>3. At(e, Least(S)) \in Assignments[e]
  BY <1>2, Zenon DEF Tokens, At
<1>4. OwnerAt(e, t) = At(e, Least(S))[2]
  BY OwnerIs, Zenon DEF OwnerForToken
<1> HIDE DEF S
<1> QED BY <1>3, <1>4, RingShape, Zenon DEF Owners

(* Ownership changes only after a token of the ring. *)
LEMMA OwnerStretch ==
    ASSUME NEW e \in DOMAIN Assignments, NEW t \in Places, t - 1 \in Places,
           t - 1 \notin Tokens(e)
    PROVE  OwnerAt(e, t) = OwnerAt(e, t - 1)
<1>1. \A u \in Tokens(e) : u >= t <=> u >= t - 1
  <2> SUFFICES ASSUME NEW u \in Tokens(e) PROVE u >= t <=> u >= t - 1
    BY Zenon
  <2>1. u \in Nat /\ u # t - 1
    BY RingShape, Zenon
  <2>2. t \in Int
    BY DEF Places
  <2> QED BY <2>1, <2>2
<1>2. {u \in Tokens(e) : u >= t} = {u \in Tokens(e) : u >= t - 1}
  BY <1>1, Zenon
<1> QED BY <1>2, OwnerIs, Zenon DEF OwnerForToken
-----------------------------------------------------------------------------
(* Pages. *)

LEMMA NextTokenIs ==
    ASSUME NEW n, NEW start \in 0..End, NEW stretch
    PROVE  /\ NextToken(n, start, stretch) \in start..End
           /\ NextToken(n, start, stretch) \in Nat
           /\ \A t \in start..(NextToken(n, start, stretch) - 1) :
                 t \in Places /\ ~ EndsAt(n, start, stretch, t)
<1> DEFINE E == {t \in start..MaxToken : EndsAt(n, start, stretch, t)}
           S == E \cup {End}
           next == NextToken(n, start, stretch)
<1>1. MaxToken \in Nat /\ End = MaxToken + 1 /\ start \in Nat /\ start <= End
  BY ListingAssumption DEF End, Places
<1>2. E \subseteq start..MaxToken
  BY Zenon
<1>3. E \subseteq Nat /\ S \subseteq start..End
  <2> HIDE DEF E
  <2> QED BY <1>1, <1>2
<1>4. S \subseteq Nat /\ S # {}
  <2> HIDE DEF E
  <2> QED BY <1>1, <1>3
<1>5. next \in S /\ \A u \in S : next <= u
  <2>1. next = Least(S)
    BY Zenon DEF NextToken
  <2> HIDE DEF S
  <2> QED BY <1>4, <2>1, LeastIs, Zenon
<1>6. next \in start..End /\ next \in Nat
  <2> HIDE DEF E, next
  <2> QED BY <1>3, <1>4, <1>5, Zenon
<1>7. ASSUME NEW t \in start..(next - 1) PROVE t \in Places /\ t \in start..MaxToken /\ t < next
  <2> HIDE DEF E, next
  <2> QED BY <1>1, <1>6, <1>7 DEF Places
<1>8. ASSUME NEW t \in start..(next - 1) PROVE ~ EndsAt(n, start, stretch, t)
  <2>1. ASSUME EndsAt(n, start, stretch, t) PROVE FALSE
    <3>1. t \in S /\ t \in Int /\ t < next
      BY <1>7, <1>8, <2>1
    <3>2. next <= t
      BY <1>5, <3>1, Zenon
    <3> HIDE DEF E, next
    <3> QED BY <1>6, <3>1, <3>2
  <2> QED BY <2>1, Zenon
<1> QED BY <1>6, <1>7, <1>8, Zenon

(* A page lists the live keys its node owns, from its start to where it ends. *)
LEMMA PageIs ==
    ASSUME NEW n, NEW start, NEW stretch
    PROVE  /\ Page(n, start, stretch).next = NextToken(n, start, stretch)
           /\ Page(n, start, stretch).keys \subseteq Keys
           /\ \A k \in Keys :
                 k \in Page(n, start, stretch).keys <=>
                    /\ TokenOf[k] \in start..(Page(n, start, stretch).next - 1)
                    /\ holds[n][k] = "live" /\ Owner(inst[n], k) = n
<1> DEFINE next == NextToken(n, start, stretch)
           H == Held(n, start, next - 1)
<1>1. \A k \in Keys : k \in LiveOf(n, H) <=>
         TokenOf[k] \in start..(next - 1) /\ holds[n][k] = "live" /\ Owner(inst[n], k) = n
  <2> HIDE DEF next
  <2> QED BY Zenon DEF Held, LiveOf
<1>2. LiveOf(n, H) \subseteq Keys
  BY Zenon DEF Held, LiveOf
<1>3. Page(n, start, stretch) = [keys |-> LiveOf(n, H), next |-> next]
  BY Zenon DEF Page
<1> HIDE DEF next, H
<1>4. Page(n, start, stretch).next = next /\ Page(n, start, stretch).keys = LiveOf(n, H)
  <2>1. \A a, b : [keys |-> a, next |-> b].next = b /\ [keys |-> a, next |-> b].keys = a
    BY Zenon
  <2> QED BY <1>3, <2>1, Zenon
<1> QED BY <1>1, <1>2, <1>4, Zenon DEF next

(* Everything between the ends of a stretch is its node's, and a stretch gets past the
   token it starts at. *)
LEMMA StretchIsOwned ==
    ASSUME ShapeInv, NEW n \in Nodes, NEW start \in Places, OwnerAt(inst[n], start) = n
    PROVE  /\ NextToken(n, start, TRUE) > start
           /\ \A t \in start..(NextToken(n, start, TRUE) - 1) : OwnerAt(inst[n], t) = n
<1> DEFINE e == inst[n]
           next == NextToken(n, start, TRUE)
<1>1. e \in DOMAIN Assignments
  <2>1. inst[n] \in 1..ring /\ ring \in DOMAIN Assignments
    BY Zenon DEF ShapeInv
  <2>2. DOMAIN Assignments = 1..Len(Assignments) /\ Len(Assignments) \in Nat
    BY ListingAssumption
  <2> QED BY <2>1, <2>2
<1>2. /\ next \in start..End /\ next \in Nat /\ start \in Nat /\ MaxToken \in Nat
      /\ \A t \in start..(next - 1) : t \in Places /\ ~ EndsAt(n, start, TRUE, t)
  <2>1. start \in Nat /\ start \in 0..End /\ MaxToken \in Nat
    BY ListingAssumption DEF Places, End
  <2> QED BY <2>1, NextTokenIs, Zenon
<1>3. ~ EndsAt(n, start, TRUE, start)
  <2>1. Segments(e, start, start) = {start}
    <3>1. start..start = {start}
      BY <1>2
    <3> QED BY <3>1, Zenon DEF Segments, Begins
  <2>2. Held(n, start, start - 1) = {}
    <3>1. start..(start - 1) = {}
      BY <1>2
    <3> QED BY <3>1, Zenon DEF Held
  <2>3. Cardinality({start}) = 1 /\ Cardinality({}) = 0 /\ LiveOf(n, {}) = {}
    BY FS_Singleton, FS_EmptySet, Zenon DEF LiveOf
  <2>4. ~ Full(n, start, start, {start})
    <3>1. MaxExamined \in Nat \ {0, 1} /\ KeysPerPage \in Nat \ {0}
      BY ListingAssumption, Zenon
    <3> QED BY <2>2, <2>3, <3>1 DEF Full
  <2> QED BY <2>1, <2>4, Zenon DEF EndsAt
<1>4. next > start
  <2>1. ASSUME next = start PROVE FALSE
    <3> DEFINE S == {t \in start..MaxToken : EndsAt(n, start, TRUE, t)} \cup {End}
    <3>1. next \in S
      <4>1. S \subseteq Nat /\ S # {}
        <5>1. {t \in start..MaxToken : EndsAt(n, start, TRUE, t)} \subseteq start..MaxToken
          BY Zenon
        <5>2. start..MaxToken \subseteq Nat /\ End \in Nat
          BY <1>2 DEF End
        <5> QED BY <5>1, <5>2, Zenon
      <4>2. next = Least(S)
        BY Zenon DEF NextToken
      <4> HIDE DEF S
      <4> QED BY <4>1, <4>2, LeastIs, Zenon
    <3>2. start # End
      BY <1>2 DEF Places, End
    <3> QED BY <1>3, <2>1, <3>1, <3>2, Zenon
  <2> HIDE DEF next
  <2> QED BY <1>2, <2>1
<1> HIDE DEF e, next
<1>5. ASSUME NEW t \in start..(next - 1), OwnerAt(e, t) # n PROVE FALSE
  <2> DEFINE B == {u \in start..(next - 1) : OwnerAt(e, u) # n}
             b == Least(B)
  <2>1. B \subseteq Nat /\ B # {}
    <3>1. B \subseteq start..(next - 1) /\ t \in B
      BY <1>5, Zenon
    <3> HIDE DEF B
    <3> QED BY <1>2, <3>1
  <2>2. b \in B /\ \A u \in B : b <= u
    <3> HIDE DEF B
    <3> QED BY <2>1, LeastIs, Zenon
  <2>3. b \in start..(next - 1) /\ OwnerAt(e, b) # n
    BY <2>2, Zenon
  <2>4. b # start
    BY <2>3, Zenon DEF e
  <2> HIDE DEF b
  <2>5. b - 1 \in start..(next - 1) /\ ~(b <= b - 1)
    BY <1>2, <2>3, <2>4
  <2>6. OwnerAt(e, b - 1) = n
    BY <2>2, <2>5, Zenon
  <2>7. b \in Places /\ b - 1 \in Places
    BY <1>2, <2>3, <2>5, Zenon
  <2>8. b - 1 \in Tokens(e)
    BY <1>1, <2>3, <2>6, <2>7, OwnerStretch, Zenon
  <2>9. EndsAt(n, start, TRUE, b)
    BY <2>3, <2>8, Zenon DEF EndsAt, Begins, e
  <2> QED BY <1>2, <2>3, <2>9, Zenon
<1> QED BY <1>4, <1>5, Zenon DEF e, next
-----------------------------------------------------------------------------
(* What a node lists is what the cluster holds. *)

LEMMA Epochs ==
    ASSUME ShapeInv, NEW e \in 1..ring
    PROVE  /\ e \in DOMAIN Assignments
           /\ \A k \in Keys : Owner(e, k) \in Owners(e) /\ Owner(e, k) \in Nodes
<1>1. e \in DOMAIN Assignments
  <2>1. ring \in DOMAIN Assignments
    BY Zenon DEF ShapeInv
  <2>2. DOMAIN Assignments = 1..Len(Assignments) /\ Len(Assignments) \in Nat
    BY ListingAssumption
  <2> QED BY <2>1, <2>2
<1>2. \A k \in Keys : TokenOf[k] \in Places
  BY ListingAssumption, Zenon DEF Places
<1> QED BY <1>1, <1>2, OwnerMember, Zenon DEF Owner

LEMMA RingType ==
    ASSUME ShapeInv
    PROVE  ring \in Nat /\ ring \in 1..ring /\ ring \in 1..Len(Assignments)
           /\ Len(Assignments) \in Nat
<1>1. ring \in DOMAIN Assignments
  BY Zenon DEF ShapeInv
<1>2. DOMAIN Assignments = 1..Len(Assignments) /\ Len(Assignments) \in Nat
  BY ListingAssumption
<1> QED BY <1>1, <1>2

LEMMA HeldHere ==
    ASSUME ShapeInv, MoveInv, NEW n \in Nodes, NEW k \in Keys, Owner(inst[n], k) = n
    PROVE  holds[n][k] = holds[Owner(ring, k)][k]
BY Zenon DEF MoveInv

(* A page misses no key that was live throughout, and lists none that never was. *)
LEMMA PageIsTrue ==
    ASSUME ListingInv, op.pc # "idle", NEW n \in Nodes, NEW start, NEW stretch, NEW k \in Keys
    PROVE  /\ k \in Page(n, start, stretch).keys =>
                 /\ k \in ever /\ Owner(inst[n], k) = n
                 /\ TokenOf[k] \in start..(Page(n, start, stretch).next - 1)
           /\ /\ k \in stable /\ Owner(inst[n], k) = n
              /\ TokenOf[k] \in start..(Page(n, start, stretch).next - 1)
              => k \in Page(n, start, stretch).keys
<1> DEFINE page == Page(n, start, stretch)
<1>1. ShapeInv /\ MoveInv /\ HistoryInv
  BY Zenon DEF ListingInv
<1>2. k \in page.keys <=> /\ TokenOf[k] \in start..(page.next - 1)
                          /\ holds[n][k] = "live" /\ Owner(inst[n], k) = n
  BY PageIs
<1> HIDE DEF page
<1>3. Owner(inst[n], k) = n => holds[n][k] = holds[Owner(ring, k)][k]
  BY <1>1, HeldHere, Zenon
<1>4. /\ k \in stable => holds[Owner(ring, k)][k] = "live"
      /\ holds[Owner(ring, k)][k] = "live" => k \in ever
  BY <1>1, Zenon DEF HistoryInv
<1> QED BY <1>2, <1>3, <1>4, Zenon DEF page

-----------------------------------------------------------------------------
(* Steps of the cluster. *)

(* What has been listed stays right while keys come and go. *)
LEMMA ListedStays ==
    ASSUME ListingInv, op' = op, stable' \subseteq stable, ever \subseteq ever'
    PROVE  WalkInv' /\ ScanInv' /\ SearchInv' /\ SearchIsTruthful'
<1>1. \A k : Counted(k) => Counted(k)'
  BY Zenon DEF Counted
<1>2. \A k, p : CountedTo(k, p) => CountedTo(k, p)'
  BY <1>1, Zenon DEF CountedTo
<1>3. WalkInv'
  BY <1>2, Zenon DEF ListingInv, WalkInv, Owner, OwnerAt
<1>4. ScanInv'
  BY <1>1, <1>2, Zenon DEF ListingInv, ScanInv
<1>5. SearchInv'
  BY Zenon DEF ListingInv, SearchInv
<1>6. SearchIsTruthful'
  BY Zenon DEF ListingInv, SearchIsTruthful
<1> QED BY <1>3, <1>4, <1>5, <1>6, Zenon

LEMMA PublishStep ==
    ASSUME ListingInv, Publish
    PROVE  ListingInv'
<1>1. ShapeInv /\ MoveInv /\ HistoryInv
  BY Zenon DEF ListingInv
<1>2. /\ active /\ ring < Len(Assignments) /\ ring' = ring + 1 /\ active' = FALSE
      /\ UNCHANGED <<inst, leased, cached, op, stable, ever>>
  BY Zenon DEF Publish, history
<1>3. /\ ring' \in DOMAIN Assignments /\ ring \in Nat /\ ring' > 1 /\ ring' - 1 = ring
      /\ 1..ring \subseteq 1..ring' /\ ring' \in 1..ring'
  <2>1. DOMAIN Assignments = 1..Len(Assignments)
    BY ListingAssumption
  <2> QED BY <1>1, <1>2, <2>1, RingType
<1>4. \A n \in Nodes, k \in Keys :
        holds'[n][k] = IF n = Owner(ring + 1, k) THEN holds[Owner(ring, k)][k] ELSE holds[n][k]
  BY Zenon DEF Publish, HandedOver
<1>5. \A k \in Keys : Owner(ring, k) \in Nodes /\ Owner(ring + 1, k) \in Nodes
  <2>1. \A k \in Keys : TokenOf[k] \in Places
    BY ListingAssumption, Zenon DEF Places
  <2>2. \A k \in Keys : Owner(ring', k) \in Nodes
    BY <1>3, <2>1, OwnerMember, Zenon DEF Owner
  <2> QED BY <1>1, <1>2, <2>2, RingType, Epochs, Zenon
<1>6. /\ holds \in [Nodes -> [Keys -> {"none", "live", "dead"}]]
      /\ holds' = [n \in Nodes |-> [k \in Keys |->
            IF n = Owner(ring + 1, k) THEN holds[Owner(ring, k)][k] ELSE holds[n][k]]]
  BY <1>1, Zenon DEF ShapeInv, Publish, HandedOver
<1>7. holds' \in [Nodes -> [Keys -> {"none", "live", "dead"}]]
  <2> DEFINE V == {"none", "live", "dead"}
             new(n, k) == IF n = Owner(ring + 1, k) THEN holds[Owner(ring, k)][k] ELSE holds[n][k]
  <2> HIDE DEF V
  <2>1. \A n \in Nodes, k \in Keys : new(n, k) \in V
    BY <1>5, <1>6, Zenon DEF V
  <2>2. holds' = [n \in Nodes |-> [k \in Keys |-> new(n, k)]]
    BY <1>6, Zenon
  <2> HIDE DEF new
  <2> QED BY <2>1, <2>2 DEF V
<1>8. ShapeInv'
  <2>1. inst' \in [Nodes -> 1..ring'] /\ cached' \in 1..ring' /\ active' \in BOOLEAN
    BY <1>1, <1>2, <1>3, Zenon DEF ShapeInv
  <2> QED BY <1>1, <1>2, <1>3, <1>7, <2>1, Zenon DEF ShapeInv
<1>9. \A k \in Keys : /\ holds'[Owner(ring', k)][k] = holds[Owner(ring, k)][k]
                      /\ holds'[Owner(ring, k)][k] = holds[Owner(ring, k)][k]
  BY <1>2, <1>4, <1>5, Zenon
<1>10. MoveInv'
  <2>1. \A n \in Nodes : inst'[n] = ring' - 1
    BY <1>1, <1>2, <1>3, Zenon DEF MoveInv
  <2>2. \A k \in Keys : holds'[Owner(ring' - 1, k)][k] = holds'[Owner(ring', k)][k]
    BY <1>3, <1>9, Zenon
  <2> QED BY <1>2, <1>3, <2>1, <2>2, Zenon DEF MoveInv, Owner, OwnerAt
<1>11. HistoryInv'
  BY <1>1, <1>2, <1>9, Zenon DEF HistoryInv, Owner, OwnerAt
<1>12. WalkInv' /\ ScanInv' /\ SearchInv' /\ SearchIsTruthful'
  BY <1>2, ListedStays, Zenon
<1> QED BY <1>8, <1>10, <1>11, <1>12, Zenon DEF ListingInv
LEMMA InstallStep ==
    ASSUME ListingInv, (\E n \in Nodes : Install(n) \/ RenewLease(n)) \/ Activate
    PROVE  ListingInv'
<1>1. ShapeInv /\ MoveInv /\ HistoryInv
  BY Zenon DEF ListingInv
<1>2. UNCHANGED <<ring, holds, cached, op, stable, ever>>
  BY Zenon DEF Install, RenewLease, Activate, history
<1>3. ring \in 1..ring
  BY <1>1, RingType, Zenon
<1>4. leased' \subseteq Nodes /\ active' \in BOOLEAN /\ (active => active')
  BY <1>1, Zenon DEF ShapeInv, Install, RenewLease, Activate
<1>5. \A n \in Nodes : inst'[n] = ring \/ (inst'[n] = inst[n] /\ active' = active)
                       \/ inst[n] = ring
  BY <1>1, Zenon DEF ShapeInv, Install, RenewLease, Activate
<1>6. inst' \in [Nodes -> 1..ring]
  BY <1>1, <1>3, Zenon DEF ShapeInv, Install, RenewLease, Activate
<1>7. ShapeInv'
  BY <1>1, <1>2, <1>4, <1>6, Zenon DEF ShapeInv
<1>8. \A n \in Nodes : inst'[n] = ring \/ (~ active' /\ inst'[n] = ring - 1)
  BY <1>1, <1>3, <1>6, Zenon DEF MoveInv, ShapeInv, Install, RenewLease, Activate
<1>9. MoveInv'
  BY <1>1, <1>2, <1>4, <1>8, Zenon DEF MoveInv, Owner, OwnerAt
<1>10. HistoryInv'
  BY <1>1, <1>2, Zenon DEF HistoryInv, Owner, OwnerAt
<1>11. WalkInv' /\ ScanInv' /\ SearchInv' /\ SearchIsTruthful'
  BY <1>2, ListedStays, Zenon
<1> QED BY <1>7, <1>9, <1>10, <1>11, Zenon DEF ListingInv

(* A node drops only what it does not own, and nobody is behind by then. *)
LEMMA CleanupStep ==
    ASSUME ListingInv, NEW n \in Nodes, Cleanup(n)
    PROVE  ListingInv'
<1>1. ShapeInv /\ MoveInv /\ HistoryInv
  BY Zenon DEF ListingInv
<1>2. active /\ UNCHANGED <<ring, active, inst, leased, cached, op, stable, ever>>
  BY Zenon DEF Cleanup, CleanupWhen, history
<1>3. holds \in [Nodes -> [Keys -> {"none", "live", "dead"}]]
  BY <1>1, Zenon DEF ShapeInv
<1>4. holds' = [holds EXCEPT ![n] =
          [k \in Keys |-> IF k \in {j \in Keys : Owner(ring, j) # n} THEN "none" ELSE @[k]]]
  BY Zenon DEF Cleanup
<1>5. \A m \in Nodes, k \in Keys :
         holds'[m][k] = IF m = n /\ Owner(ring, k) # n THEN "none" ELSE holds[m][k]
  BY <1>3, <1>4, Zenon
<1>6. holds' \in [Nodes -> [Keys -> {"none", "live", "dead"}]]
  <2> DEFINE V == {"none", "live", "dead"}
             row == [k \in Keys |-> IF k \in {j \in Keys : Owner(ring, j) # n} THEN "none"
                                    ELSE holds[n][k]]
  <2>1. holds' = [holds EXCEPT ![n] = row]
    BY <1>4, Zenon
  <2>2. \A k \in Keys : (IF k \in {j \in Keys : Owner(ring, j) # n} THEN "none"
                         ELSE holds[n][k]) \in V
    BY <1>3, Zenon
  <2>3. row \in [Keys -> V]
    <3> HIDE DEF V
    <3> QED BY <2>2, Zenon
  <2> HIDE DEF V, row
  <2> QED BY <1>3, <2>1, <2>3, Zenon DEF V
<1>7. \A k \in Keys : Owner(ring, k) \in Nodes
  BY <1>1, RingType, Epochs, Zenon
<1>8. \A k \in Keys : holds'[Owner(ring, k)][k] = holds[Owner(ring, k)][k]
  BY <1>5, <1>7, Zenon
<1>9. ShapeInv'
  BY <1>1, <1>2, <1>6, Zenon DEF ShapeInv
<1>10. MoveInv'
  BY <1>1, <1>2, Zenon DEF MoveInv
<1>11. HistoryInv'
  BY <1>1, <1>2, <1>8, Zenon DEF HistoryInv, Owner, OwnerAt
<1>12. WalkInv' /\ ScanInv' /\ SearchInv' /\ SearchIsTruthful'
  BY <1>2, ListedStays, Zenon
<1> QED BY <1>9, <1>10, <1>11, <1>12, Zenon DEF ListingInv

LEMMA WriteStep ==
    ASSUME ListingInv, NEW k \in Keys, NEW to \in {"live", "dead"}, Write(k, to)
    PROVE  ListingInv'
<1> DEFINE n == Owner(ring, k)
<1>1. ShapeInv /\ MoveInv /\ HistoryInv
  BY Zenon DEF ListingInv
<1>2. /\ ~ active => n = Owner(ring - 1, k)
      /\ holds' = [holds EXCEPT ![n][k] = to]
      /\ stable' = stable \ {k} /\ ever' = IF to = "live" THEN ever \cup {k} ELSE ever
      /\ UNCHANGED <<ring, active, inst, leased, cached, op>>
  BY Zenon DEF Write
<1>3. holds \in [Nodes -> [Keys -> {"none", "live", "dead"}]]
  BY <1>1, Zenon DEF ShapeInv
<1>4. \A j \in Keys : Owner(ring, j) \in Nodes /\ (ring > 1 => Owner(ring - 1, j) \in Nodes)
  <2>1. ring \in 1..ring /\ (ring > 1 => ring - 1 \in 1..ring)
    BY <1>1, RingType
  <2> QED BY <1>1, <2>1, Epochs, Zenon
<1>5. \A m \in Nodes, j \in Keys : holds'[m][j] = IF m = n /\ j = k THEN to ELSE holds[m][j]
  BY <1>2, <1>3, <1>4, Zenon
<1>6. holds' \in [Nodes -> [Keys -> {"none", "live", "dead"}]]
  <2> DEFINE V == {"none", "live", "dead"}
             row == [holds[n] EXCEPT ![k] = to]
  <2>1. holds' = [holds EXCEPT ![n] = row]
    BY <1>2, Zenon
  <2>2. to \in V /\ holds[n] \in [Keys -> V]
    BY <1>3, <1>4, Zenon
  <2> HIDE DEF V
  <2>3. row \in [Keys -> V]
    BY <2>2, Zenon
  <2> HIDE DEF row
  <2> QED BY <1>3, <2>1, <2>3, Zenon DEF V
<1>7. stable' \subseteq stable /\ ever \subseteq ever' /\ stable' \subseteq ever' /\ ever' \subseteq Keys
  BY <1>1, <1>2, Zenon DEF ShapeInv
<1>8. ShapeInv'
  BY <1>1, <1>2, <1>6, <1>7, Zenon DEF ShapeInv
<1>9. MoveInv'
  <2>1. ASSUME ~ active, NEW j \in Keys
        PROVE  holds'[Owner(ring - 1, j)][j] = holds'[Owner(ring, j)][j]
    <3>1. ring > 1 /\ holds[Owner(ring - 1, j)][j] = holds[Owner(ring, j)][j]
      BY <1>1, <2>1, Zenon DEF MoveInv
    <3>2. CASE j = k
      BY <1>2, <2>1, <3>2, Zenon
    <3>3. CASE j # k
      BY <1>4, <1>5, <3>1, <3>3, Zenon
    <3> QED BY <3>2, <3>3, Zenon
  <2> QED BY <1>1, <1>2, <2>1, Zenon DEF MoveInv, Owner, OwnerAt
<1>10. HistoryInv'
  <2> SUFFICES ASSUME op.pc # "idle", NEW j \in Keys
               PROVE  /\ j \in stable' => holds'[Owner(ring, j)][j] = "live"
                      /\ holds'[Owner(ring, j)][j] = "live" => j \in ever'
    BY <1>2, Zenon DEF HistoryInv, Owner, OwnerAt
  <2>1. /\ j \in stable => holds[Owner(ring, j)][j] = "live"
        /\ holds[Owner(ring, j)][j] = "live" => j \in ever
    BY <1>1, Zenon DEF HistoryInv
  <2>2. CASE j = k
    <3>1. j \notin stable'
      BY <1>2, <2>2, Zenon
    <3>2. holds'[Owner(ring, j)][j] = to
      BY <1>4, <1>5, <2>2, Zenon
    <3>3. to = "live" => j \in ever'
      BY <1>2, <2>2, Zenon
    <3> QED BY <3>1, <3>2, <3>3, Zenon
  <2>3. CASE j # k
    <3>1. holds'[Owner(ring, j)][j] = holds[Owner(ring, j)][j]
      BY <1>4, <1>5, <2>3, Zenon
    <3> QED BY <1>7, <2>1, <3>1, Zenon
  <2> QED BY <2>2, <2>3, Zenon
<1>11. WalkInv' /\ ScanInv' /\ SearchInv' /\ SearchIsTruthful'
  BY <1>2, <1>7, ListedStays, Zenon
<1> QED BY <1>8, <1>9, <1>10, <1>11, Zenon DEF ListingInv
-----------------------------------------------------------------------------
(* Steps of the client. *)

(* Steps that change nothing but the client *)
LEMMA ClusterKept ==
    ASSUME ListingInv, UNCHANGED <<ring, active, inst, leased, holds>>, cached' \in 1..ring,
           op' \in OpType, stable' \subseteq ever', ever' \subseteq Keys,
           op'.pc # "idle" => op'.kind \in Kinds /\ op'.epoch \in 1..ring
    PROVE  ShapeInv' /\ MoveInv'
<1>1. ShapeInv /\ MoveInv
  BY Zenon DEF ListingInv
<1>2. ShapeInv'
  BY <1>1, Zenon DEF ShapeInv
<1>3. MoveInv'
  BY <1>1, Zenon DEF MoveInv, Owner, OwnerAt
<1> QED BY <1>2, <1>3, Zenon

LEMMA HistoryKept ==
    ASSUME ListingInv, UNCHANGED <<ring, holds, stable, ever>>, op.pc # "idle"
    PROVE  HistoryInv'
BY Zenon DEF ListingInv, HistoryInv, Owner, OwnerAt

LEMMA RefreshStep ==
    ASSUME ListingInv, Refresh
    PROVE  ListingInv'
<1>1. ShapeInv /\ HistoryInv
  BY Zenon DEF ListingInv
<1>2. UNCHANGED <<ring, active, inst, leased, holds, op, stable, ever>> /\ cached' = ring
  BY Zenon DEF Refresh, cluster, history
<1>3. ShapeInv' /\ MoveInv'
  BY <1>1, <1>2, RingType, ClusterKept, Zenon DEF ShapeInv
<1>4. HistoryInv'
  BY <1>1, <1>2, Zenon DEF HistoryInv, Owner, OwnerAt
<1>5. WalkInv' /\ ScanInv' /\ SearchInv' /\ SearchIsTruthful'
  BY <1>2, ListedStays, Zenon
<1> QED BY <1>3, <1>4, <1>5, Zenon DEF ListingInv

LEMMA IdleType == Idle \in OpType /\ DOMAIN Idle = {"pc", "kind", "epoch", "pos", "node",
                                                    "again", "left", "seen"}
<1>1. 0 \in 0..End
  BY ListingAssumption DEF End
<1> QED BY <1>1 DEF Idle, OpType, Kinds

(* A listing that begins, or starts over, has seen nothing. *)
IsFresh(f, kind, start, e) ==
    /\ f \in OpType /\ f.pc = "run" /\ f.kind = kind /\ f.epoch = e
    /\ f.seen = [k \in Keys |-> 0]
    /\ kind # "random" => f.pos = [n \in Nodes |-> 0]
    /\ kind = "random" => /\ f.again = TRUE /\ f.node = OwnerAt(e, start)
                          /\ f.left = Owners(e) \ {f.node}

LEMMA FreshIs ==
    ASSUME ShapeInv, NEW kind \in Kinds, NEW start \in Places, NEW e \in 1..ring
    PROVE  IsFresh(Fresh(kind, start, e), kind, start, e)
<1> DEFINE first == OwnerAt(e, start)
           run == [Idle EXCEPT !.pc = "run", !.kind = kind, !.epoch = e]
           search == [run EXCEPT !.pos = [n \in Nodes |-> start], !.node = first,
                                 !.again = TRUE, !.left = Owners(e) \ {first}]
<1>1. e \in DOMAIN Assignments /\ e \in Nat
  BY Epochs, RingType
<1>2. first \in Nodes /\ Owners(e) \subseteq Nodes
  BY <1>1, OwnerMember, RingShape, Zenon
<1>3. /\ run \in OpType /\ run.pc = "run" /\ run.kind = kind /\ run.epoch = e
      /\ run.seen = [k \in Keys |-> 0] /\ run.pos = [n \in Nodes |-> 0]
      /\ run.left = {} /\ run.again = FALSE
  <2>1. 0 \in 0..End
    BY ListingAssumption DEF End
  <2> QED BY <1>1, <2>1 DEF Idle, OpType
<1>4. [n \in Nodes |-> start] \in [Nodes -> 0..End]
  <2>1. start \in 0..End
    BY ListingAssumption DEF Places, End
  <2> QED BY <2>1, Zenon
<1>5. Fresh(kind, start, e) = IF kind # "random" THEN run ELSE search
  BY Zenon DEF Fresh
<1> HIDE DEF first, run
<1>6. /\ search \in OpType /\ search.pc = run.pc /\ search.kind = run.kind
      /\ search.epoch = run.epoch /\ search.seen = run.seen /\ search.again = TRUE
      /\ search.node = first /\ search.left = Owners(e) \ {first}
  <2>1. Owners(e) \ {first} \in SUBSET Nodes
    BY <1>2, Zenon
  <2> DEFINE p == [n \in Nodes |-> start]
             l == Owners(e) \ {first}
  <2> HIDE DEF p, l
  <2>2. p \in [Nodes -> 0..End] /\ l \in SUBSET Nodes /\ first \in Nodes \cup {0}
    BY <1>2, <1>4, <2>1, Zenon DEF p, l
  <2>3. search = [run EXCEPT !.pos = p, !.node = first, !.again = TRUE, !.left = l]
    BY Zenon DEF p, l
  <2>4. /\ search \in OpType /\ search.pc = run.pc /\ search.kind = run.kind
        /\ search.epoch = run.epoch /\ search.seen = run.seen /\ search.again = TRUE
        /\ search.node = first /\ search.left = l
    <3> HIDE DEF search
    <3> QED BY <1>3, <2>2, <2>3 DEF OpType
  <2> QED BY <2>4, Zenon DEF l
<1> HIDE DEF search
<1>7. CASE kind # "random"
  BY <1>3, <1>5, <1>7, Zenon DEF IsFresh
<1>8. CASE kind = "random"
  BY <1>3, <1>5, <1>6, <1>8, Zenon DEF IsFresh, first
<1> QED BY <1>7, <1>8, Zenon
LEMMA FreshInv ==
    ASSUME ShapeInv, NEW kind \in Kinds, NEW start \in Places, NEW e \in 1..ring,
           op' = Fresh(kind, start, e), stable' \subseteq Keys
    PROVE  /\ op' \in OpType /\ op'.kind \in Kinds /\ op'.epoch \in 1..ring
           /\ WalkInv' /\ ScanInv' /\ SearchInv' /\ SearchIsTruthful'
<1>1. /\ op' \in OpType /\ op'.pc = "run" /\ op'.kind = kind /\ op'.epoch = e
      /\ op'.seen = [k \in Keys |-> 0]
      /\ kind # "random" => op'.pos = [n \in Nodes |-> 0]
      /\ kind = "random" => /\ op'.again = TRUE /\ op'.node = OwnerAt(e, start)
                            /\ op'.left = Owners(e) \ {op'.node}
  <2>1. IsFresh(op', kind, start, e)
    BY FreshIs, Zenon
  <2> QED BY <2>1, Zenon DEF IsFresh
<1>9. op'.pc = "run" /\ op'.kind = kind /\ op'.epoch = e
  BY <1>1, Zenon
<1>2. \A k \in Keys : op'.seen[k] = 0 /\ ~ (TokenOf[k] < 0)
  <2>1. \A k \in Keys : op'.seen[k] = 0
    <3>1. op'.seen = [k \in Keys |-> 0]
      BY <1>1, Zenon
    <3> QED BY <3>1
  <2>2. \A k \in Keys : ~ (TokenOf[k] < 0)
    BY ListingAssumption
  <2> QED BY <2>1, <2>2, Zenon
<1>3. \A k \in Keys : CountedTo(k, 0)'
  BY <1>2, Zenon DEF CountedTo
<1>4. \A k \in Keys : Owner(e, k) \in Owners(e) /\ Owner(e, k) \in Nodes
  BY Epochs, Zenon
<1>5. WalkInv'
  <2>1. ASSUME kind = "walk", NEW k \in Keys PROVE CountedTo(k, op.pos[Owner(op.epoch, k)])'
    <3>1. op'.pos[Owner(e, k)] = 0
      <4>1. op'.pos = [n \in Nodes |-> 0]
        BY <1>1, <2>1
      <4> QED BY <1>4, <4>1, Zenon
    <3>2. op.pos[Owner(op.epoch, k)]' = 0
      BY <1>9, <3>1, Zenon DEF Owner, OwnerAt
    <3> QED BY <1>3, <3>2, Zenon DEF CountedTo, Counted
  <2> QED BY <1>9, <2>1, Zenon DEF WalkInv
<1>6. ScanInv'
  <2>1. ASSUME kind = "scan", NEW n \in Nodes
        PROVE  op'.pos[n] # End /\ \A k \in Keys : CountedTo(k, op.pos[n])'
    <3>1. op'.pos[n] = 0
      <4>1. op'.pos = [m \in Nodes |-> 0]
        BY <1>1, <2>1
      <4> QED BY <4>1, Zenon
    <3>2. 0 # End
      BY ListingAssumption DEF End
    <3> QED BY <1>3, <3>1, <3>2, Zenon DEF CountedTo, Counted
  <2> QED BY <1>9, <2>1, Zenon DEF ScanInv
<1>7. SearchInv'
  <2>1. ASSUME kind = "random"
        PROVE  /\ op'.node \in Nodes /\ \A k \in Keys : op'.seen[k] = 0
               /\ \A k \in stable' : \/ Owner(e, k) \in op'.left
                                     \/ Owner(e, k) = op'.node /\ op'.again
    <3>1. OwnerAt(e, start) \in Nodes
      BY Epochs, OwnerMember, Zenon
    <3> QED BY <1>1, <1>2, <1>4, <2>1, <3>1, Zenon
  <2> QED BY <1>9, <2>1, Zenon DEF SearchInv, Owner, OwnerAt
<1>8. SearchIsTruthful'
  BY <1>1, Zenon DEF SearchIsTruthful
<1> QED BY <1>1, <1>5, <1>6, <1>7, <1>8, Zenon

LEMMA StartsArePlaces == Starts \subseteq Places /\ 0 \in Places
BY ListingAssumption DEF Places

LEMMA BeginStep ==
    ASSUME ListingInv, NEW kind \in Kinds, NEW start \in Starts, Begin(kind, start)
    PROVE  ListingInv'
<1>1. ShapeInv /\ start \in Places /\ cached \in 1..ring
  BY StartsArePlaces, Zenon DEF ListingInv, ShapeInv
<1>2. /\ op' = Fresh(kind, start, cached) /\ stable' = LiveKeys /\ ever' = LiveKeys
      /\ UNCHANGED <<ring, active, inst, leased, holds, cached>>
  BY Zenon DEF Begin, cluster
<1>3. LiveKeys \subseteq Keys
  BY Zenon DEF LiveKeys
<1>4. /\ op' \in OpType /\ op'.kind \in Kinds /\ op'.epoch \in 1..ring
      /\ WalkInv' /\ ScanInv' /\ SearchInv' /\ SearchIsTruthful'
  BY <1>1, <1>2, <1>3, FreshInv, Zenon
<1>5. ShapeInv' /\ MoveInv'
  BY <1>1, <1>2, <1>3, <1>4, ClusterKept, ZenonT(30)
<1>6. HistoryInv'
  BY <1>2, Zenon DEF HistoryInv, LiveKeys, Owner, OwnerAt
<1> QED BY <1>4, <1>5, <1>6, Zenon DEF ListingInv

LEMMA StartOverStep ==
    ASSUME ListingInv, NEW start \in Starts, StartOver(start) \/ CallFails(start)
    PROVE  ListingInv'
<1>1. /\ ShapeInv /\ HistoryInv /\ start \in Places /\ cached \in 1..ring /\ ring \in 1..ring
      /\ stable \subseteq ever /\ ever \subseteq Keys
  BY StartsArePlaces, RingType, Zenon DEF ListingInv, ShapeInv
<1>2. op.pc = "run" /\ op.kind \in Kinds
      /\ UNCHANGED <<ring, active, inst, leased, holds, stable, ever>>
  BY <1>1, Zenon DEF StartOver, CallFails, cluster, history, ShapeInv
<1>3. cached' \in 1..ring
  BY <1>1, Zenon DEF StartOver, CallFails
<1>4. \/ op' = op
      \/ \E kind \in Kinds, e \in 1..ring : op' = Fresh(kind, start, e)
  <2>1. CASE StartOver(start)
    BY <1>2, <1>3, <2>1, Zenon DEF StartOver
  <2>2. CASE CallFails(start)
    BY <1>1, <2>2, Zenon DEF CallFails, Kinds
  <2> QED BY <2>1, <2>2, Zenon
<1>5. HistoryInv'
  BY <1>2, HistoryKept, Zenon
<1>6. CASE op' = op
  <2>1. op \in OpType /\ op.epoch \in 1..ring
    BY <1>1, <1>2, Zenon DEF ShapeInv
  <2>2. WalkInv' /\ ScanInv' /\ SearchInv' /\ SearchIsTruthful'
    BY <1>2, <1>6, ListedStays, Zenon
  <2>3. ShapeInv' /\ MoveInv'
    BY <1>1, <1>2, <1>3, <1>6, <2>1, ClusterKept, Zenon
  <2> QED BY <1>5, <2>2, <2>3, Zenon DEF ListingInv
<1>7. ASSUME NEW kind \in Kinds, NEW e \in 1..ring, op' = Fresh(kind, start, e)
      PROVE  ListingInv'
  <2>1. /\ op' \in OpType /\ op'.kind \in Kinds /\ op'.epoch \in 1..ring
        /\ WalkInv' /\ ScanInv' /\ SearchInv' /\ SearchIsTruthful'
    BY <1>1, <1>2, <1>7, FreshInv, Zenon
  <2>2. ShapeInv' /\ MoveInv'
    BY <1>1, <1>2, <1>3, <2>1, ClusterKept, Zenon
  <2> QED BY <1>5, <2>1, <2>2, Zenon DEF ListingInv
<1> QED BY <1>4, <1>6, <1>7, Zenon
(* A page that starts where the listing has come to takes it to where the page ends,
   if its node owns what lies between. *)
LEMMA PageCounts ==
    ASSUME ListingInv, op.pc # "idle", NEW n \in Nodes, NEW p \in Places, NEW stretch,
           NEW next, next = Page(n, p, stretch).next, NEW k \in Keys, CountedTo(k, p),
           TokenOf[k] \in p..(next - 1) => Owner(inst[n], k) = n,
           op'.seen[k] = IF k \in Page(n, p, stretch).keys THEN op.seen[k] + 1 ELSE op.seen[k],
           UNCHANGED <<stable, ever>>
    PROVE  CountedTo(k, next)'
<1> DEFINE keys == Page(n, p, stretch).keys
<1>1. /\ k \in keys => k \in ever /\ TokenOf[k] \in p..(next - 1)
      /\ k \in stable /\ TokenOf[k] \in p..(next - 1) => k \in keys
  BY PageIsTrue, Zenon
<1>2. next \in Nat /\ next \in p..End /\ p \in Nat /\ TokenOf[k] \in Nat
  <2>1. p \in 0..End
    BY ListingAssumption DEF Places, End
  <2>2. next = NextToken(n, p, stretch)
    BY PageIs, Zenon
  <2>3. next \in Nat /\ next \in p..End
    BY <2>1, <2>2, NextTokenIs, Zenon
  <2> QED BY <2>1, <2>3, ListingAssumption
<1>3. op.seen[k] \in Nat
  BY Zenon DEF ListingInv, ShapeInv, OpType
<1>4. op'.seen[k] = IF k \in keys THEN op.seen[k] + 1 ELSE op.seen[k]
  BY Zenon
<1> HIDE DEF keys
<1>5. CASE TokenOf[k] < p
  <2>1. Counted(k) /\ TokenOf[k] < next /\ k \notin keys
    BY <1>1, <1>2, <1>5 DEF CountedTo
  <2>2. Counted(k)'
    BY <1>4, <2>1, Zenon DEF Counted
  <2> QED BY <2>1, <2>2, Zenon DEF CountedTo, Counted
<1>6. CASE TokenOf[k] \in p..(next - 1)
  <2>1. TokenOf[k] < next /\ ~(TokenOf[k] < p)
    BY <1>2, <1>6
  <2>2. op.seen[k] = 0 /\ 0 + 1 = 1
    BY <2>1 DEF CountedTo
  <2>3. op'.seen[k] \in {0, 1}
    BY <1>4, <2>2
  <2>4. (k \in stable => op'.seen[k] = 1) /\ (k \notin ever => op'.seen[k] = 0)
    BY <1>1, <1>4, <1>6, <2>2, Zenon
  <2>5. Counted(k)'
    BY <2>3, <2>4, Zenon DEF Counted
  <2> QED BY <2>1, <2>5, Zenon DEF CountedTo, Counted
<1>7. CASE ~(TokenOf[k] < next)
  <2>1. ~(TokenOf[k] < p) /\ k \notin keys
    BY <1>1, <1>2, <1>7
  <2>2. op'.seen[k] = 0
    BY <1>4, <2>1, Zenon DEF CountedTo
  <2> QED BY <1>7, <2>2, Zenon DEF CountedTo
<1> QED BY <1>2, <1>5, <1>6, <1>7

LEMMA OpShape ==
    ASSUME ShapeInv
    PROVE  /\ op \in OpType /\ op.pos \in [Nodes -> 0..End] /\ op.seen \in [Keys -> Nat]
           /\ DOMAIN op = {"pc", "kind", "epoch", "pos", "node", "again", "left", "seen"}
           /\ \A n \in Nodes : op.pos[n] # End => op.pos[n] \in Places
<1>1. /\ op \in OpType /\ op.pos \in [Nodes -> 0..End] /\ op.seen \in [Keys -> Nat]
      /\ DOMAIN op = {"pc", "kind", "epoch", "pos", "node", "again", "left", "seen"}
  BY DEF ShapeInv, OpType
<1>2. \A t \in 0..End : t # End => t \in Places
  BY ListingAssumption DEF Places, End
<1> QED BY <1>1, <1>2, Zenon

LEMMA WithKeysType ==
    ASSUME ShapeInv, NEW page
    PROVE  /\ WithKeys(page) \in [Keys -> Nat]
           /\ \A k \in Keys : WithKeys(page)[k] =
                 IF k \in page.keys THEN op.seen[k] + 1 ELSE op.seen[k]
<1>1. \A k \in Keys : op.seen[k] \in Nat /\ op.seen[k] + 1 \in Nat
  BY OpShape
<1> QED BY <1>1, Zenon DEF WithKeys

(* A listing that goes on has a type, and the cluster is as it was. *)
LEMMA GoesOn ==
    ASSUME ListingInv, op.pc = "run", NEW pos \in [Nodes -> 0..End],
           NEW seen \in [Keys -> Nat], NEW pc \in {"run", "done"},
           op' = [op EXCEPT !.pos = pos, !.seen = seen, !.pc = pc],
           UNCHANGED <<cluster, cached, history>>
    PROVE  /\ op'.pos = pos /\ op'.seen = seen /\ op'.pc = pc
           /\ op'.kind = op.kind /\ op'.epoch = op.epoch
           /\ ShapeInv' /\ MoveInv' /\ HistoryInv'
           /\ UNCHANGED <<ring, active, inst, leased, holds, stable, ever>>
<1>1. /\ ShapeInv /\ cached \in 1..ring /\ stable \subseteq ever /\ ever \subseteq Keys
      /\ op.kind \in Kinds /\ op.epoch \in 1..ring
  BY Zenon DEF ListingInv, ShapeInv
<1>2. /\ op'.pos = pos /\ op'.seen = seen /\ op'.pc = pc
      /\ op'.kind = op.kind /\ op'.epoch = op.epoch /\ op' \in OpType
  BY <1>1, OpShape DEF OpType
<1>3. UNCHANGED <<ring, active, inst, leased, holds, cached, stable, ever>>
  BY Zenon DEF cluster, history
<1>4. ShapeInv' /\ MoveInv'
  BY <1>1, <1>2, <1>3, ClusterKept, Zenon
<1>5. HistoryInv'
  BY <1>3, HistoryKept, Zenon
<1> QED BY <1>2, <1>3, <1>4, <1>5, Zenon
(* Owners are listed page by page, each at the epoch of the walk. *)
LEMMA WalkPageStep ==
    ASSUME ListingInv, NEW n \in Nodes, WalkPage(n)
    PROVE  ListingInv'
<1> DEFINE p == op.pos[n]
           page == Page(n, p, FALSE)
           pos == [op.pos EXCEPT ![n] = page.next]
           pc == IF \A m \in Owners(op.epoch) : pos[m] = End THEN "done" ELSE "run"
           seen == WithKeys(page)
<1>1. /\ op.pc = "run" /\ op.kind = "walk" /\ n \in Owners(op.epoch) /\ p # End
      /\ inst[n] = op.epoch /\ UNCHANGED <<cluster, cached, history>>
      /\ op' = [op EXCEPT !.pos = pos, !.seen = seen, !.pc = pc]
  BY Zenon DEF WalkPage, ServesWalk
<1>2. ShapeInv /\ WalkInv
  BY Zenon DEF ListingInv
<1>3. p \in Places /\ p \in 0..End
  BY <1>1, <1>2, OpShape, Zenon
<1>4. page.next \in p..End /\ page.next \in 0..End
  <2>1. page.next = NextToken(n, p, FALSE)
    BY PageIs, Zenon
  <2>2. page.next \in p..End
    BY <1>3, <2>1, NextTokenIs, Zenon
  <2> HIDE DEF p, page
  <2> QED BY <1>3, <2>2
<1>5. pos \in [Nodes -> 0..End] /\ pc \in {"run", "done"}
  <2>1. pc \in {"run", "done"}
    BY Zenon
  <2> HIDE DEF page, pc
  <2> QED BY <1>2, <1>4, <2>1, OpShape, Zenon
<1>6. /\ seen \in [Keys -> Nat]
      /\ \A k \in Keys : seen[k] = IF k \in page.keys THEN op.seen[k] + 1 ELSE op.seen[k]
  BY <1>2, WithKeysType, Zenon
<1> HIDE DEF pos, pc, seen
<1>7. /\ op'.pos = pos /\ op'.seen = seen /\ op'.pc = pc
      /\ op'.kind = "walk" /\ op'.epoch = op.epoch
      /\ ShapeInv' /\ MoveInv' /\ HistoryInv'
      /\ UNCHANGED <<inst, stable, ever>>
  BY <1>1, <1>5, <1>6, GoesOn, ZenonT(30)
<1>8. ASSUME NEW k \in Keys PROVE CountedTo(k, op.pos[Owner(op.epoch, k)])'
  <2> DEFINE o == Owner(op.epoch, k)
  <2>1. o \in Nodes /\ CountedTo(k, op.pos[o])
    <3>1. op.epoch \in 1..ring
      BY <1>1, <1>2 DEF ShapeInv
    <3>2. o \in Nodes
      BY <1>2, <3>1, Epochs, Zenon
    <3> QED BY <1>1, <1>2, <3>2, Zenon DEF WalkInv
  <2>2. op.pos[Owner(op.epoch, k)]' = pos[o]
    BY <1>7, Zenon DEF Owner, OwnerAt
  <2>3. PICK q : q = pos[o]
    BY Zenon
  <2>4. CountedTo(k, q)'
    <3>1. CASE o = n
      <4>1. CountedTo(k, p) /\ Owner(inst[n], k) = n
        BY <1>1, <2>1, <3>1, Zenon
      <4>2. q = page.next
        BY <1>2, <2>3, <3>1, OpShape, Zenon DEF pos
      <4>3. op'.seen[k] = IF k \in page.keys THEN op.seen[k] + 1 ELSE op.seen[k]
        BY <1>6, <1>7, Zenon
      <4>4. op.pc # "idle"
        BY <1>1
      <4> HIDE DEF p
      <4> QED BY <1>3, <1>7, <4>1, <4>2, <4>3, <4>4, PageCounts, Zenon
    <3>2. CASE o # n
      <4>1. q = op.pos[o]
        BY <1>2, <2>1, <2>3, <3>2, OpShape, Zenon DEF pos
      <4>2. k \notin page.keys
        <5>1. op.pc # "idle" /\ Owner(inst[n], k) # n
          BY <1>1, <3>2
        <5> QED BY <5>1, PageIsTrue, Zenon
      <4>3. op'.seen[k] = op.seen[k]
        BY <1>6, <1>7, <4>2, Zenon
      <4> QED BY <1>7, <2>1, <4>1, <4>3, Zenon DEF CountedTo, Counted
    <3> QED BY <3>1, <3>2, Zenon
  <2> QED BY <2>2, <2>3, <2>4, Zenon DEF CountedTo, Counted
<1>9. WalkInv'
  <2>1. op'.pc = "done" => \A m \in Owners(op.epoch) : pos[m] = End
    BY <1>7 DEF pc
  <2>2. Owners(op.epoch)' = Owners(op.epoch)
    BY <1>7, Zenon DEF Owners
  <2> QED BY <1>7, <1>8, <2>1, <2>2, Zenon DEF WalkInv
<1>10. ScanInv' /\ SearchInv' /\ SearchIsTruthful'
  BY <1>7 DEF ScanInv, SearchInv, SearchIsTruthful
<1> QED BY <1>7, <1>9, <1>10, Zenon DEF ListingInv

(* A scan goes on from stretch to stretch, and stops when the cursor wraps around. *)
LEMMA ScanPageStep ==
    ASSUME ListingInv, NEW n \in Nodes, ScanPage(n)
    PROVE  ListingInv'
<1> DEFINE p == op.pos[n]
           page == Page(n, p, TRUE)
           cursor == Cursor(page.next)
           pos == [m \in Nodes |-> cursor]
           pc == IF cursor = 0 THEN "done" ELSE "run"
           seen == WithKeys(page)
<1>1. /\ op.pc = "run" /\ op.kind = "scan" /\ ServesStretch(n, p)
      /\ UNCHANGED <<cluster, cached, history>>
      /\ op' = [op EXCEPT !.pos = pos, !.seen = seen, !.pc = pc]
  BY Zenon DEF ScanPage
<1>2. ShapeInv /\ ScanInv
  BY Zenon DEF ListingInv
<1>3. p # End /\ \A k \in Keys : CountedTo(k, p)
  BY <1>1, <1>2, Zenon DEF ScanInv
<1>4. p \in Places /\ p \in 0..End
  BY <1>2, <1>3, OpShape, Zenon
<1>5. OwnerAt(inst[n], p) = n
  BY <1>1, Zenon DEF ServesStretch
<1>6. /\ page.next \in Nat /\ page.next \in p..End /\ page.next > p
      /\ \A t \in p..(page.next - 1) : OwnerAt(inst[n], t) = n
  <2>1. page.next = NextToken(n, p, TRUE)
    BY PageIs, Zenon
  <2> QED BY <1>2, <1>4, <1>5, <2>1, NextTokenIs, StretchIsOwned, ZenonT(30)
<1>7. /\ cursor \in 0..End /\ cursor # End
      /\ cursor = 0 => page.next = End
      /\ cursor # 0 => page.next = cursor
  <2> HIDE DEF page
  <2>1. End \in Nat \ {0} /\ p \in Nat
    BY <1>4, ListingAssumption DEF End
  <2> HIDE DEF p
  <2> QED BY <1>6, <2>1 DEF Cursor
<1>8. pos \in [Nodes -> 0..End] /\ pc \in {"run", "done"}
  <2>1. pc \in {"run", "done"}
    BY Zenon
  <2> HIDE DEF cursor, pc
  <2> QED BY <1>7, <2>1, Zenon
<1>9. /\ seen \in [Keys -> Nat]
      /\ \A k \in Keys : seen[k] = IF k \in page.keys THEN op.seen[k] + 1 ELSE op.seen[k]
  BY <1>2, WithKeysType, Zenon
<1> HIDE DEF cursor, pos, pc, seen
<1>10. /\ op'.pos = pos /\ op'.seen = seen /\ op'.pc = pc
       /\ op'.kind = "scan" /\ op'.epoch = op.epoch
       /\ ShapeInv' /\ MoveInv' /\ HistoryInv'
       /\ UNCHANGED <<stable, ever>>
  BY <1>1, <1>8, <1>9, GoesOn, Zenon
<1>11. PICK next : next = page.next
  BY Zenon
<1>12. ASSUME NEW k \in Keys PROVE CountedTo(k, next)'
  <2>1. TokenOf[k] \in p..(next - 1) => Owner(inst[n], k) = n
    BY <1>6, <1>11, Zenon DEF Owner
  <2>2. op'.seen[k] = IF k \in page.keys THEN op.seen[k] + 1 ELSE op.seen[k]
    BY <1>9, <1>10, Zenon
  <2>3. op.pc # "idle"
    BY <1>1
  <2> HIDE DEF p
  <2> QED BY <1>3, <1>4, <1>10, <1>11, <2>1, <2>2, <2>3, PageCounts, Zenon
<1>13. ScanInv'
  <2>1. ASSUME cursor # 0, NEW m \in Nodes
        PROVE  op'.pos[m] # End /\ \A k \in Keys : CountedTo(k, op.pos[m])'
    <3>1. op'.pos[m] = cursor
      BY <1>10, Zenon DEF pos
    <3>2. op'.pos[m] = next /\ op'.pos[m] # End
      BY <1>7, <1>11, <2>1, <3>1, Zenon
    <3> QED BY <1>12, <3>2, Zenon DEF CountedTo, Counted
  <2>2. ASSUME cursor = 0, NEW k \in Keys PROVE Counted(k)'
    <3>1. next = End
      BY <1>7, <1>11, <2>2, Zenon
    <3>2. TokenOf[k] < End
      BY ListingAssumption DEF End
    <3> QED BY <1>12, <3>1, <3>2, Zenon DEF CountedTo, Counted
  <2>3. (op'.pc = "run" => cursor # 0) /\ (op'.pc = "done" => cursor = 0)
    BY <1>10 DEF pc
  <2> QED BY <2>1, <2>2, <2>3, Zenon DEF ScanInv
<1>14. WalkInv' /\ SearchInv' /\ SearchIsTruthful'
  BY <1>10 DEF WalkInv, SearchInv, SearchIsTruthful
<1> QED BY <1>10, <1>13, <1>14, Zenon DEF ListingInv
LEMMA SearchGoesOn ==
    ASSUME ListingInv, op.pc = "run", op.kind = "random", op' \in OpType,
           op'.kind = op.kind, op'.epoch = op.epoch,
           UNCHANGED <<cluster, cached, history>>, SearchInv', SearchIsTruthful'
    PROVE  ListingInv'
<1>1. /\ ShapeInv /\ cached \in 1..ring /\ stable \subseteq ever /\ ever \subseteq Keys
      /\ op.kind \in Kinds /\ op.epoch \in 1..ring
  BY Zenon DEF ListingInv, ShapeInv
<1>2. UNCHANGED <<ring, active, inst, leased, holds, cached, stable, ever>>
  BY Zenon DEF cluster, history
<1>3. ShapeInv' /\ MoveInv'
  BY <1>1, <1>2, ClusterKept, Zenon
<1>4. HistoryInv'
  BY <1>2, HistoryKept, Zenon
<1>5. WalkInv' /\ ScanInv'
  BY DEF WalkInv, ScanInv
<1> QED BY <1>3, <1>4, <1>5, Zenon DEF ListingInv

(* An owner is searched from the random token on and then from the beginning, and the
   next one only after that. *)
LEMMA SearchPageStep ==
    ASSUME ListingInv, SearchPage
    PROVE  ListingInv'
<1> DEFINE n == op.node
           p == op.pos[n]
           page == Page(n, p, FALSE)
           next == page.next
           Left(k) == Owner(op.epoch, k) \in op.left
           Here(k) == Owner(op.epoch, k) = n
<1>1. /\ op.pc = "run" /\ op.kind = "random" /\ inst[n] = op.epoch
      /\ UNCHANGED <<cluster, cached, history>> /\ UNCHANGED <<stable, ever>>
      /\ op' \in IF page.keys # {}
                 THEN {[op EXCEPT !.pc = "done", !.seen[k] = 1] : k \in page.keys}
                 ELSE IF next = End THEN Searched
                 ELSE {[op EXCEPT !.pos[op.node] = next]}
  BY ZenonT(30) DEF SearchPage, ServesWalk, history
<1>2. /\ ShapeInv /\ SearchInv /\ op.pc # "idle" /\ stable \subseteq Keys /\ ever \subseteq Keys
      /\ op.epoch \in 1..ring
  BY <1>1 DEF ListingInv, ShapeInv
<1>3. /\ n \in Nodes /\ \A k \in Keys : op.seen[k] = 0
      /\ \A k \in stable : Left(k) \/ (Here(k) /\ (op.again \/ TokenOf[k] >= p))
  BY <1>1, <1>2, Zenon DEF SearchInv
<1>4. /\ op \in OpType /\ op.pos \in [Nodes -> 0..End] /\ op.seen \in [Keys -> Nat]
      /\ p \in 0..End /\ End \in Nat
  <2>1. End \in Nat
    BY ListingAssumption DEF End
  <2> QED BY <1>2, <1>3, <2>1, OpShape, Zenon
<1>5. next \in p..End /\ next \in 0..End /\ next \in Nat
  <2>1. next = NextToken(n, p, FALSE)
    BY PageIs, ZenonT(30)
  <2>2. next \in p..End /\ next \in Nat
    BY <1>4, <2>1, NextTokenIs, ZenonT(30)
  <2> HIDE DEF p, next
  <2> QED BY <1>4, <2>2
<1>6. page.keys \subseteq ever
  <2>1. page.keys \subseteq Keys
    BY PageIs, Zenon
  <2> QED BY <1>2, <1>3, <2>1, PageIsTrue, Zenon
<1>7. ASSUME page.keys = {}, NEW k \in stable, Here(k), TokenOf[k] >= p PROVE TokenOf[k] >= next
  <2>1. k \in Keys /\ Owner(inst[n], k) = n
    BY <1>1, <1>2, <1>7, Zenon
  <2>2. TokenOf[k] \notin p..(next - 1)
    BY <1>2, <1>3, <1>7, <2>1, PageIsTrue, ZenonT(30)
  <2>3. TokenOf[k] \in Nat /\ p \in Nat
    BY <1>4, <2>1, ListingAssumption
  <2> HIDE DEF p, next
  <2> QED BY <1>5, <1>7, <2>2, <2>3
<1> HIDE DEF page, next, p
<1>8. CASE page.keys # {}
  <2>1. PICK k \in page.keys : op' = [op EXCEPT !.pc = "done", !.seen[k] = 1]
    BY <1>1, <1>8, Zenon
  <2>2. k \in Keys /\ k \in ever
    BY <1>2, <1>6, Zenon
  <2>3. /\ op' \in OpType /\ op'.kind = op.kind /\ op'.epoch = op.epoch /\ op'.pc = "done"
        /\ op'.seen = [op.seen EXCEPT ![k] = 1]
    <3> DEFINE seen == [op.seen EXCEPT ![k] = 1]
    <3>1. seen \in [Keys -> Nat]
      BY <1>4
    <3>2. op' = [op EXCEPT !.pc = "done", !.seen = seen]
      BY <2>1, Zenon
    <3> HIDE DEF seen
    <3>3. /\ op' \in OpType /\ op'.kind = op.kind /\ op'.epoch = op.epoch /\ op'.pc = "done"
          /\ op'.seen = seen
      BY <1>4, <3>1, <3>2 DEF OpType
    <3> QED BY <3>3, Zenon DEF seen
  <2>4. op'.seen[k] = 1 /\ \A j \in Keys : j # k => op'.seen[j] = 0
    BY <1>3, <1>4, <2>2, <2>3, Zenon
  <2>5. 1 # 0 /\ "done" # "run"
    OBVIOUS
  <2>6. SearchInv'
    BY <2>3, <2>5, ZenonT(30) DEF SearchInv
  <2>7. SearchIsTruthful'
    BY <1>1, <2>2, <2>4, <2>5 DEF SearchIsTruthful
  <2> QED BY <1>1, <2>3, <2>6, <2>7, SearchGoesOn, Zenon
<1>9. CASE page.keys = {} /\ next # End
  <2>1. op' = [op EXCEPT !.pos[n] = next]
    BY <1>1, <1>9, Zenon
  <2>2. /\ op' \in OpType /\ op'.kind = op.kind /\ op'.epoch = op.epoch /\ op'.pc = "run"
        /\ op'.seen = op.seen /\ op'.node = n /\ op'.again = op.again /\ op'.left = op.left
        /\ op'.pos[n] = next
    <3> DEFINE pos == [op.pos EXCEPT ![n] = next]
    <3>1. pos \in [Nodes -> 0..End] /\ pos[n] = next
      BY <1>3, <1>4, <1>5, Zenon
    <3>2. op' = [op EXCEPT !.pos = pos]
      BY <2>1, Zenon
    <3> HIDE DEF pos, n
    <3>3. /\ op' \in OpType /\ op'.kind = op.kind /\ op'.epoch = op.epoch /\ op'.pc = op.pc
          /\ op'.seen = op.seen /\ op'.node = op.node /\ op'.again = op.again
          /\ op'.left = op.left /\ op'.pos = pos
      BY <1>4, <3>1, <3>2 DEF OpType
    <3> QED BY <1>1, <3>1, <3>3, Zenon DEF n
  <2>3. \A k \in stable : Left(k) \/ (Here(k) /\ (op.again \/ TokenOf[k] >= next))
    BY <1>3, <1>7, <1>9, Zenon
  <2>4. SearchInv'
    BY <1>1, <1>3, <2>2, <2>3, Zenon DEF SearchInv, Owner, OwnerAt
  <2>5. SearchIsTruthful'
    BY <2>2 DEF SearchIsTruthful
  <2> QED BY <1>1, <2>2, <2>4, <2>5, SearchGoesOn, Zenon
<1>10. ASSUME page.keys = {}, next = End, NEW k \in stable PROVE Left(k) \/ (Here(k) /\ op.again)
  <2>1. ASSUME Here(k), TokenOf[k] >= p PROVE FALSE
    <3>1. TokenOf[k] >= End
      BY <1>7, <1>10, <2>1, Zenon
    <3>2. k \in Keys
      BY <1>2, Zenon
    <3> QED BY <3>1, <3>2, ListingAssumption DEF End
  <2> QED BY <1>3, <2>1, Zenon
<1>11. CASE page.keys = {} /\ next = End /\ op.again
  <2>1. op' = [op EXCEPT !.again = FALSE, !.pos[n] = 0]
    BY <1>1, <1>11, Zenon DEF Searched
  <2>2. /\ op' \in OpType /\ op'.kind = op.kind /\ op'.epoch = op.epoch /\ op'.pc = "run"
        /\ op'.seen = op.seen /\ op'.node = n /\ op'.left = op.left /\ op'.pos[n] = 0
    <3> DEFINE pos == [op.pos EXCEPT ![n] = 0]
    <3>1. 0 \in 0..End
      BY <1>4
    <3>2. pos \in [Nodes -> 0..End] /\ pos[n] = 0
      BY <1>3, <1>4, <3>1, Zenon
    <3>3. op' = [op EXCEPT !.again = FALSE, !.pos = pos]
      BY <2>1, Zenon
    <3> HIDE DEF pos, n
    <3>4. /\ op' \in OpType /\ op'.kind = op.kind /\ op'.epoch = op.epoch /\ op'.pc = op.pc
          /\ op'.seen = op.seen /\ op'.node = op.node
          /\ op'.left = op.left /\ op'.pos = pos
      BY <1>4, <3>2, <3>3 DEF OpType
    <3> QED BY <1>1, <3>2, <3>4, Zenon DEF n
  <2>3. \A k \in stable : Left(k) \/ Here(k)
    BY <1>3, Zenon
  <2>4. \A k \in stable : TokenOf[k] >= 0
    BY <1>2, ListingAssumption
  <2>5. SearchInv'
    BY <1>1, <1>3, <2>2, <2>3, <2>4, Zenon DEF SearchInv, Owner, OwnerAt
  <2>6. SearchIsTruthful'
    BY <2>2 DEF SearchIsTruthful
  <2> QED BY <1>1, <2>2, <2>5, <2>6, SearchGoesOn, Zenon
<1>12. CASE page.keys = {} /\ next = End /\ ~ op.again
  <2>1. op' \in NextOwner /\ \A k \in stable : Left(k)
    BY <1>1, <1>10, <1>12, Zenon DEF Searched
  <2>2. CASE op.left = {}
    <3>1. op' = [op EXCEPT !.pc = "done"]
      BY <2>1, <2>2, Zenon DEF NextOwner
    <3>2. /\ op' \in OpType /\ op'.kind = op.kind /\ op'.epoch = op.epoch /\ op'.pc = "done"
          /\ op'.seen = op.seen
      BY <1>4, <3>1 DEF OpType
    <3>3. SearchInv'
      BY <3>2 DEF SearchInv
    <3>4. stable = {} /\ 0 # 1
      BY <2>1, <2>2
    <3>5. SearchIsTruthful'
      BY <1>1, <1>3, <3>2, <3>4, Zenon DEF SearchIsTruthful
    <3> QED BY <1>1, <3>2, <3>3, <3>5, SearchGoesOn, Zenon
  <2>3. CASE op.left # {}
    <3>1. PICK m \in op.left : op' = [op EXCEPT !.node = m, !.again = TRUE, !.left = @ \ {m}]
      BY <2>1, <2>3, Zenon DEF NextOwner
    <3>2. /\ op' \in OpType /\ op'.kind = op.kind /\ op'.epoch = op.epoch /\ op'.pc = "run"
          /\ op'.seen = op.seen /\ op'.node = m /\ op'.again = TRUE /\ op'.left = op.left \ {m}
          /\ m \in Nodes
      <4> DEFINE left == op.left \ {m}
      <4>1. left \in SUBSET Nodes /\ m \in Nodes /\ op' = [op EXCEPT !.node = m, !.again = TRUE, !.left = left]
        BY <1>4, <3>1 DEF OpType
      <4> HIDE DEF left
      <4>2. /\ op' \in OpType /\ op'.kind = op.kind /\ op'.epoch = op.epoch /\ op'.pc = op.pc
            /\ op'.seen = op.seen /\ op'.node = m /\ op'.again = TRUE /\ op'.left = left
        BY <1>4, <4>1 DEF OpType
      <4> QED BY <1>1, <4>1, <4>2, Zenon DEF left
    <3>3. \A k \in stable : Owner(op.epoch, k) \in op.left \ {m} \/ Owner(op.epoch, k) = m
      BY <2>1, Zenon
    <3>4. SearchInv'
      BY <1>1, <1>3, <3>2, <3>3, ZenonT(30) DEF SearchInv, Owner, OwnerAt
    <3>5. SearchIsTruthful'
      BY <3>2 DEF SearchIsTruthful
    <3> QED BY <1>1, <3>2, <3>4, <3>5, SearchGoesOn, Zenon
  <2> QED BY <2>2, <2>3, Zenon
<1> QED BY <1>8, <1>9, <1>11, <1>12, Zenon
-----------------------------------------------------------------------------
(* The theorems. *)

LEMMA ListingInit == Init => ListingInv
<1> SUFFICES ASSUME Init PROVE ListingInv
  OBVIOUS
<1>1. PICK live \in Initially :
         holds = [n \in Nodes |-> [k \in Keys |->
                     IF n = Owner(1, k) /\ k \in live THEN "live" ELSE "none"]]
  BY Zenon DEF Init
<1>2. /\ ring = 1 /\ active = TRUE /\ cached = 1 /\ inst = [n \in Nodes |-> 1]
      /\ leased = Nodes /\ op = Idle /\ stable = {} /\ ever = {}
  BY Zenon DEF Init
<1>3. 1 \in DOMAIN Assignments /\ 1 \in 1..1
  BY ListingAssumption
<1>4. op \in OpType /\ op.pc = "idle" /\ op.kind = "none"
  BY <1>2, IdleType DEF Idle
<1>5. holds \in [Nodes -> [Keys -> {"none", "live", "dead"}]]
  <2> DEFINE V == {"none", "live", "dead"}
             row(n) == [k \in Keys |-> IF n = Owner(1, k) /\ k \in live THEN "live" ELSE "none"]
  <2>1. \A n \in Nodes : row(n) \in [Keys -> V]
    BY Zenon
  <2>2. holds = [n \in Nodes |-> row(n)]
    BY <1>1, Zenon
  <2> HIDE DEF V, row
  <2>3. holds \in [Nodes -> [Keys -> V]]
    BY <2>1, <2>2, Zenon
  <2> QED BY <2>3, Zenon DEF V
<1>6. ShapeInv
  BY <1>2, <1>3, <1>4, <1>5, Zenon DEF ShapeInv
<1>7. MoveInv
  BY <1>2, Zenon DEF MoveInv
<1>8. "idle" # "run" /\ "idle" # "done" /\ "none" # "walk" /\ "none" # "scan"
  OBVIOUS
<1>9. HistoryInv /\ WalkInv /\ ScanInv /\ SearchInv /\ SearchIsTruthful
  BY <1>4, <1>8, Zenon DEF HistoryInv, WalkInv, ScanInv, SearchInv, SearchIsTruthful
<1> QED BY <1>6, <1>7, <1>9, Zenon DEF ListingInv

LEMMA ListingStep == ListingInv /\ [Next]_vars => ListingInv'
<1> SUFFICES ASSUME ListingInv, [Next]_vars PROVE ListingInv'
  OBVIOUS
<1>1. CASE Publish
  BY <1>1, PublishStep, Zenon
<1>2. CASE ClusterStep
  BY <1>2, InstallStep, Zenon DEF ClusterStep
<1>3. CASE \E n \in Nodes : Cleanup(n)
  BY <1>3, CleanupStep, Zenon
<1>4. CASE \E k \in Keys, to \in {"live", "dead"} : Write(k, to)
  BY <1>4, WriteStep, Zenon
<1>5. CASE \E t \in Starts : StartOver(t) \/ CallFails(t) \/ \E kind \in Kinds : Begin(kind, t)
  BY <1>5, StartOverStep, BeginStep, Zenon
<1>6. CASE ClientStep
  BY <1>6, RefreshStep, StartOverStep, SearchPageStep, WalkPageStep, ScanPageStep,
     StartsArePlaces, ListingAssumption, ZenonT(30) DEF ClientStep
<1>7. CASE UNCHANGED vars
  <2>1. UNCHANGED <<ring, active, inst, leased, holds, cached, op, stable, ever>>
    BY <1>7, Zenon DEF vars
  <2>2. ShapeInv' /\ MoveInv' /\ HistoryInv'
    BY <2>1, Zenon DEF ListingInv, ShapeInv, MoveInv, HistoryInv, Owner, OwnerAt
  <2>3. WalkInv' /\ ScanInv' /\ SearchInv' /\ SearchIsTruthful'
    BY <2>1, ListedStays, Zenon
  <2> QED BY <2>2, <2>3, Zenon DEF ListingInv
<1> QED BY <1>1, <1>2, <1>3, <1>4, <1>5, <1>6, <1>7, Zenon DEF Next

LEMMA ListingInductive == Spec => []ListingInv
<1>1. Init => ListingInv
  BY ListingInit
<1>2. ListingInv /\ [Next]_vars => ListingInv'
  BY ListingStep
<1> QED BY <1>1, <1>2, PTL DEF Spec

(* A finished walk has seen every key that was live throughout it exactly once, and none
   that was never live (walk, walk_owner, list_keys), for any ring, tokens, page size
   and number of keys, however members come and go while its pages are read; and all
   variables keep their types. *)
THEOREM WalkExact == Spec => []WalkIsExact
<1>1. ListingInv => WalkIsExact
  <2> SUFFICES ASSUME ListingInv PROVE WalkIsExact
    OBVIOUS
  <2>1. ShapeInv /\ WalkInv
    BY Zenon DEF ListingInv
  <2>2. TypeOK
    <3>1. op.pc \in {"idle", "run", "done"} /\ \A n \in Nodes : op.pos[n] \in 0..End
      BY <2>1, OpShape DEF OpType
    <3> QED BY <2>1, <3>1, Zenon DEF TypeOK, ShapeInv
  <2>3. ASSUME op.pc = "done", op.kind = "walk", NEW k \in Keys PROVE Counted(k)
    <3>1. op.epoch \in 1..ring
      BY <2>1, <2>3 DEF ShapeInv
    <3>2. op.pos[Owner(op.epoch, k)] = End
      BY <2>1, <2>3, <3>1, Epochs, Zenon DEF WalkInv
    <3>3. TokenOf[k] < End
      BY ListingAssumption DEF End
    <3> QED BY <2>1, <2>3, <3>2, <3>3, Zenon DEF WalkInv, CountedTo
  <2>4. stable \subseteq Keys
    BY <2>1, Zenon DEF ShapeInv
  <2> QED BY <2>2, <2>3, <2>4, Zenon DEF WalkIsExact, Counted
<1> QED BY <1>1, ListingInductive, PTL

(* A finished scan has returned every key that was live throughout it exactly once, and
   none that was never live, though no epoch binds its steps together (scan, scan_reply). *)
THEOREM ScanExact == Spec => []ScanIsExact
<1>1. ListingInv => ScanIsExact
  <2> SUFFICES ASSUME ListingInv PROVE ScanIsExact
    OBVIOUS
  <2>1. ScanInv /\ stable \subseteq Keys
    BY Zenon DEF ListingInv, ShapeInv
  <2> QED BY <2>1, Zenon DEF ScanIsExact, ScanInv, Counted
<1> QED BY <1>1, ListingInductive, PTL

(* random_key finds a key that was live while it searched, and finds none only if no key
   was live throughout (random_key, first_key). *)
THEOREM SearchTruthful == Spec => []SearchIsTruthful
<1>1. ListingInv => SearchIsTruthful
  BY Zenon DEF ListingInv
<1> QED BY <1>1, ListingInductive, PTL
=============================================================================

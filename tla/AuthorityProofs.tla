--------------------------- MODULE AuthorityProofs ----------------------------
(*****************************************************************************)
(* First the ring: consistent hashing, for every set of nodes and every      *)
(* choice of tokens.  Then the state of Authority: types, who may come to    *)
(* hold authority in a step, that a lease never outlives its grant, and that *)
(* every step keeps the invariants of the processes, of the published        *)
(* topologies, of the registered instances and of the executor.  Last, that  *)
(* every step keeps authority accounted for: who holds it under the current  *)
(* topology, who under an older one, and why neither can conflict.  From this*)
(* NoStaleReader and LeaseWithinGrant follow for every set of nodes, of      *)
(* tokens and of processes and every lease duration, provided a removed      *)
(* member that does not answer is really gone (MergeOutage = FALSE).         *)
(*****************************************************************************)
EXTENDS Authority, TLAPS

WellFounded == INSTANCE WellFoundedInduction

(* A non-empty set of natural numbers has a least element. *)
LEMMA LeastElement ==
    ASSUME NEW S, S \subseteq Nat, S # {}
    PROVE  \E x \in S : \A y \in S : x <= y
<1>1. WellFounded!IsWellFoundedOn(WellFounded!OpToRel(<, Nat), Nat)
  BY WellFounded!NatLessThanWellFounded, Zenon
<1>2. PICK x \in S : \A y \in S : ~(<<y, x>> \in WellFounded!OpToRel(<, Nat))
  BY <1>1, WellFounded!WFMin, Zenon
<1>3. \A y \in S : ~(y < x)
  BY <1>2, Zenon DEF WellFounded!OpToRel
<1>4. \A y \in S : x <= y
  <2> SUFFICES ASSUME NEW y \in S PROVE x <= y
    BY Zenon
  <2>1. x \in Nat /\ y \in Nat
    BY Zenon
  <2> QED BY <1>3, <2>1
<1> QED
  BY <1>4, Zenon

LEMMA DistanceType ==
    ASSUME NEW t \in Tokens, NEW x \in Tokens
    PROVE  Distance(t, x) \in Nat
<1>1. MaxToken \in Nat
  BY RingConstants, Zenon
<1>2. x - t \in Int /\ MaxToken + 1 \in Nat /\ MaxToken + 1 > 0
  BY <1>1 DEF Tokens
<1>3. (x - t) % (MaxToken + 1) \in 0..MaxToken
  BY <1>1, <1>2
<1> QED
  BY <1>1, <1>3 DEF Distance

(* Some member of every member set is met first. *)
LEMMA SomeoneIsMetFirst ==
    ASSUME NEW M \in MemberSets, NEW t \in Tokens
    PROVE  \E n \in M : FirstMet(M, t, n)
<1> DEFINE D == {Distance(t, x) : x \in UNION {TokenOf[n] : n \in M}}
<1>1. \A n \in M : /\ TokenOf[n] \subseteq Tokens /\ TokenOf[n] # {}
                   /\ n \in Nat
  BY RingConstants, Zenon DEF MemberSets
<1>2. M # {}
  BY Zenon DEF MemberSets
<1>3. D \subseteq Nat
  BY <1>1, DistanceType, Zenon
<1>4. D # {}
  BY <1>1, <1>2, Zenon
<1>5. PICK d \in D : \A e \in D : d <= e
  <2> HIDE DEF D
  <2> QED BY <1>3, <1>4, LeastElement, Zenon
<1> DEFINE N == {n \in M : \E x \in TokenOf[n] : Distance(t, x) = d}
<1>6. N \subseteq Nat /\ N # {}
  BY <1>1, <1>5, Zenon
<1>7. PICK n \in N : \A m \in N : n <= m
  <2> HIDE DEF N
  <2> QED BY <1>6, LeastElement, Zenon
<1>8. PICK x \in TokenOf[n] : Distance(t, x) = d
  BY <1>7, Zenon
<1>9. ASSUME NEW m \in M, NEW y \in TokenOf[m]
      PROVE  MetBefore(t, n, x, m, y)
  <2>1. Distance(t, y) \in D /\ d \in Nat /\ Distance(t, y) \in Nat
    BY <1>1, <1>3, <1>5, <1>9, DistanceType, Zenon
  <2>2. d <= Distance(t, y)
    BY <2>1, <1>5, Zenon
  <2>3. Distance(t, y) = d => n <= m
    BY <1>7, <1>9, Zenon
  <2> HIDE DEF D, N
  <2> QED
    BY <2>1, <2>2, <2>3, <1>8 DEF MetBefore
<1> QED
  BY <1>7, <1>8, <1>9, Zenon DEF FirstMet

(* No two members are met first: virtual nodes at one token are told apart by
   their ids. *)
LEMMA OnlyOneIsMetFirst ==
    ASSUME NEW M \in MemberSets, NEW t \in Tokens,
           NEW n \in M, NEW m \in M, FirstMet(M, t, n), FirstMet(M, t, m)
    PROVE  n = m
<1>1. PICK x \in TokenOf[n] : \A k \in M : \A z \in TokenOf[k] : MetBefore(t, n, x, k, z)
  BY Zenon DEF FirstMet
<1>2. PICK y \in TokenOf[m] : \A k \in M : \A z \in TokenOf[k] : MetBefore(t, m, y, k, z)
  BY Zenon DEF FirstMet
<1>3. MetBefore(t, n, x, m, y) /\ MetBefore(t, m, y, n, x)
  BY <1>1, <1>2, Zenon
<1>4. n \in Nat /\ m \in Nat /\ x \in Tokens /\ y \in Tokens
  BY <1>1, <1>2, RingConstants, Zenon DEF MemberSets
<1>5. Distance(t, x) \in Nat /\ Distance(t, y) \in Nat
  BY <1>4, DistanceType, Zenon
<1> QED
  BY <1>3, <1>4, <1>5 DEF MetBefore

(* The owner of a token is the one member that is met first. *)
LEMMA OwnerIsMetFirst ==
    ASSUME NEW M \in MemberSets, NEW t \in Tokens
    PROVE  ClockwiseOwner(M, t) \in M /\ FirstMet(M, t, ClockwiseOwner(M, t))
BY SomeoneIsMetFirst, Zenon DEF ClockwiseOwner

(* Consistent hashing: the owner of a token is a member, and whatever members
   leave, a token keeps its owner as long as that member stays. *)
THEOREM ConsistentHashing ==
    /\ \A t \in Tokens : \A M \in MemberSets : ClockwiseOwner(M, t) \in M
    /\ \A t \in Tokens : \A M, S \in MemberSets :
          S \subseteq M /\ ClockwiseOwner(M, t) \in S
             => ClockwiseOwner(S, t) = ClockwiseOwner(M, t)
<1>1. \A t \in Tokens : \A M \in MemberSets : ClockwiseOwner(M, t) \in M
  BY OwnerIsMetFirst, Zenon
<1>2. ASSUME NEW t \in Tokens, NEW M \in MemberSets, NEW S \in MemberSets,
             S \subseteq M, ClockwiseOwner(M, t) \in S
      PROVE  ClockwiseOwner(S, t) = ClockwiseOwner(M, t)
  <2> DEFINE n == ClockwiseOwner(M, t)
             m == ClockwiseOwner(S, t)
  <2>1. FirstMet(M, t, n)
    BY OwnerIsMetFirst, Zenon
  <2>2. FirstMet(S, t, n)
    BY <1>2, <2>1, Zenon DEF FirstMet
  <2>3. m \in S /\ FirstMet(S, t, m)
    BY OwnerIsMetFirst, Zenon
  <2> HIDE DEF n, m
  <2>4. n \in S
    BY <1>2, Zenon DEF n
  <2>5. m = n
    BY <2>2, <2>3, <2>4, OnlyOneIsMetFirst, Zenon
  <2> QED
    BY <2>5, Zenon DEF n, m
<1> QED
  BY <1>1, <1>2, Zenon

(* The same of the ring the topologies use. *)
LEMMA OwnersStay ==
    /\ \A r \in Ranges : \A M \in MemberSets : Owner[r][M] \in M
    /\ \A r \in Ranges : \A M, S \in MemberSets :
          S \subseteq M /\ Owner[r][M] \in S => Owner[r][S] = Owner[r][M]
<1>1. \A r \in Ranges : \A M \in MemberSets :
         r \in Tokens /\ Owner[r][M] = ClockwiseOwner(M, r)
  BY RingAssumption, Zenon
<1> QED
  BY <1>1, ConsistentHashing

-----------------------------------------------------------------------------
(* Publishing keeps the sequence of topologies well typed. *)
LEMMA PublishType ==
    ASSUME TypeOK, NEW M \in MemberSets, NEW b \in BOOLEAN, Publish(M, b)
    PROVE  /\ epoch' \in Epochs /\ topo' \in [Epochs -> SUBSET Nodes]
           /\ phase' = "published" /\ ready' = b
           /\ stage' = "idle" /\ acked' = {} /\ suspect' = None
  BY ConstantsAssumption DEF TypeOK, Publish, Epochs, MemberSets

(* The records behave as records. *)
LEMMA AgedType ==
    /\ \A g \in Grant : Aged(g) \in Grant /\ Aged(g).left = Less(g.left)
    /\ \A l \in Lease : Aged(l) \in Lease /\ Aged(l).left = Less(l.left)
                         /\ Aged(l).epoch = l.epoch
    /\ \A m \in Renewal :
          /\ Aged(m) \in Renewal /\ Aged(m).left = Less(m.left)
          /\ Aged(m).proc = m.proc /\ Aged(m).epoch = m.epoch
          /\ Aged(m).granted = m.granted
<1>1. ASSUME NEW g \in Grant PROVE Aged(g) \in Grant /\ Aged(g).left = Less(g.left)
  BY ConstantsAssumption DEF Aged, Less, Grant
<1>2. ASSUME NEW l \in Lease
      PROVE  Aged(l) \in Lease /\ Aged(l).left = Less(l.left) /\ Aged(l).epoch = l.epoch
  BY ConstantsAssumption DEF Aged, Less, Lease
<1>3. ASSUME NEW m \in Renewal
      PROVE  /\ Aged(m) \in Renewal /\ Aged(m).left = Less(m.left)
             /\ Aged(m).proc = m.proc /\ Aged(m).epoch = m.epoch
             /\ Aged(m).granted = m.granted
  BY ConstantsAssumption DEF Aged, Less, Renewal
<1> QED BY <1>1, <1>2, <1>3, Zenon

(* Granting a renewal changes nothing else of it. *)
LEMMA GrantedType ==
    \A m \in Renewal : LET g == [m EXCEPT !.granted = TRUE] IN
        /\ g \in Renewal /\ g.granted
        /\ g.proc = m.proc /\ g.epoch = m.epoch /\ g.left = m.left
  BY Zenon DEF Renewal

(* Every step of the coordinator keeps every variable in its type. *)
LEMMA CoordinatorType == StateInv /\ CoordinatorStep => TypeOK'
<1> SUFFICES ASSUME StateInv, CoordinatorStep PROVE TypeOK'
  BY Zenon
<1> USE ConstantsAssumption DEF StateInv, TypeOK, durable, executor, procVars, Members
<1>1. CASE RestartCoordinator
  BY <1>1 DEF RestartCoordinator, NoGrant, Grant
<1>2. ASSUME NEW k \in Kinds, NEW M \in MemberSets, BeginChange(k, M) PROVE TypeOK'
  BY Zenon, <1>2 DEF BeginChange, NewChangeId
<1>3. ASSUME NEW n \in Nodes, BeginFailure(n) PROVE TypeOK'
  <2>1. Members \ {n} \in MemberSets
    BY <1>3 DEF BeginFailure, MemberSets
  <2> QED BY Zenon, <1>3, <2>1 DEF BeginFailure, NewChangeId
<1>4. CASE PublishMove
  BY Zenon, <1>4, PublishType DEF PublishMove
<1>5. CASE PublishPolicy
  BY Zenon, <1>5, PublishType DEF PublishPolicy
<1>6. CASE PublishMerge
  BY Zenon, <1>6, PublishType DEF PublishMerge
<1>7. CASE PublishFailure
  BY Zenon, <1>7, PublishType DEF PublishFailure
<1>8. ASSUME NEW n \in Nodes, PauseWrites(n) PROVE TypeOK'
  BY <1>8 DEF PauseWrites, Reachable
<1>9. ASSUME NEW n \in Nodes, ResumeWrites(n) PROVE TypeOK'
  BY <1>9 DEF ResumeWrites, Reachable
<1>10. CASE Abort
  BY <1>10, Zenon DEF Abort
<1>11. CASE AbortMergePreparation
  BY <1>11, Zenon DEF AbortMergePreparation
<1>12. CASE FinishAbort
  BY <1>12, Zenon DEF FinishAbort
<1>13. CASE RetryChange
  BY <1>13 DEF RetryChange
<1>14. ASSUME NEW n \in Nodes, AckInstall(n) PROVE TypeOK'
  BY <1>14 DEF AckInstall
<1>15. CASE SetActivationReady
  BY <1>15, Zenon DEF SetActivationReady
<1>16. ASSUME NEW n \in Nodes, RemoveMember(n) PROVE TypeOK'
  BY <1>16 DEF RemoveMember
<1>17. CASE MembersRemoved
  BY <1>17, Zenon DEF MembersRemoved
<1>18. ASSUME NEW n \in Nodes, AckLease(n) PROVE TypeOK'
  BY <1>18, Zenon DEF AckLease
<1>19. CASE MembersLeased
  BY <1>19, Zenon DEF MembersLeased
<1>20. CASE WritesResumed
  BY <1>20, Zenon DEF WritesResumed
<1>21. ASSUME NEW n \in Nodes, StopRemoved(n) PROVE TypeOK'
  <2>1. instance[n] \in Procs
    BY <1>21, Zenon DEF StopRemoved
  <2>2. CASE ProcessGone(instance[n])
    BY <1>21, <2>1, <2>2 DEF StopRemoved, ProcessGone, NoLease, Lease
  <2>3. CASE UNCHANGED <<procVars, renewals>>
    BY <1>21, <2>3 DEF StopRemoved
  <2> QED BY <1>21, <2>2, <2>3, Zenon DEF StopRemoved
<1>22. CASE Complete
  BY <1>22 DEF Complete
<1>23. ASSUME NEW x \in Nodes, RecoverJoin(x) PROVE TypeOK'
  <2>1. Base \in MemberSets
    BY SMTT(30), <1>23, Zenon DEF RecoverJoin, Base, MemberSets, TopologyInv, Epochs
  <2> QED BY ZenonT(40), <1>23, <2>1, PublishType DEF RecoverJoin
<1>24. ASSUME NEW n \in Nodes, ConfirmFailure(n) PROVE TypeOK'
  BY <1>24, ZenonT(30) DEF ConfirmFailure
<1>25. CASE ProveMergeLeases
  BY <1>25, Zenon DEF ProveMergeLeases
<1> QED
  BY ZenonT(40), <1>1, <1>2, <1>3, <1>4, <1>5, <1>6, <1>7, <1>8, <1>9, <1>10, <1>11, <1>12,
     <1>13, <1>14, <1>15, <1>16, <1>17, <1>18, <1>19, <1>20, <1>21, <1>22, <1>23, <1>24, <1>25
     DEF CoordinatorStep

(* Every step of a process, and the passing of time, keeps every variable in
   its type. *)
LEMMA ProcessType == StateInv /\ (Tick \/ ProcessStep) => TypeOK'
<1> SUFFICES ASSUME StateInv, Tick \/ ProcessStep PROVE TypeOK'
  BY Zenon
<1> USE ConstantsAssumption DEF StateInv, TypeOK, durable, executor, procVars, Members
<1>1. CASE Tick
  <2>1. quarantine' \in 0..L
    BY <1>1 DEF Tick, Less
  <2>2. NoGrant \in Grant /\ NoLease \in Lease
    BY DEF NoGrant, NoLease, Grant, Lease
  <2>3. grants' \in [Nodes -> Grant]
    BY <1>1, <2>2, AgedType, Zenon DEF Tick
  <2>4. lease' \in [Procs -> Lease]
    BY <1>1, <2>2, AgedType, Zenon DEF Tick
  <2>5. renewals' \in SUBSET Renewal
    BY <1>1, AgedType DEF Tick
  <2> QED BY <1>1, <2>1, <2>3, <2>4, <2>5 DEF Tick
<1>2. ASSUME NEW p \in Procs, Crash(p) PROVE TypeOK'
  BY <1>2 DEF Crash, ProcessGone, NoLease, Lease
<1>3. ASSUME NEW p \in Procs, NEW e \in Epochs, Register(p, e) PROVE TypeOK'
  BY <1>3 DEF Register
<1>4. ASSUME NEW p \in Procs, NEW e \in Epochs, InstallTopology(p, e) PROVE TypeOK'
  BY <1>4 DEF InstallTopology, NoLease, Lease
<1>5. ASSUME NEW p \in Procs, SendRenewal(p) PROVE TypeOK'
  <2>1. [proc |-> p, epoch |-> pepoch[p], left |-> L, granted |-> FALSE] \in Renewal
    BY <1>5 DEF SendRenewal, Renewal
  <2> QED BY ZenonT(40), <1>5, <2>1 DEF SendRenewal
<1>6. ASSUME NEW m \in renewals, GrantLease(m) PROVE TypeOK'
  <2>1. NodeOf[m.proc] \in Nodes
    BY Zenon DEF Renewal
  <2>2. [proc |-> m.proc, epoch |-> epoch, left |-> L] \in Grant
    BY DEF Renewal, Grant
  <2>3. grants' \in [Nodes -> Grant]
    BY <1>6, <2>1, <2>2, Zenon DEF GrantLease
  <2>4. renewals' \in SUBSET Renewal
    BY <1>6, GrantedType DEF GrantLease
  <2> QED BY <1>6, <2>3, <2>4 DEF GrantLease
<1>7. ASSUME NEW m \in renewals, ReceiveLease(m) PROVE TypeOK'
  BY <1>7 DEF ReceiveLease, Renewal, Lease
<1>8. ASSUME NEW m \in renewals, DropRenewal(m) PROVE TypeOK'
  BY <1>8 DEF DropRenewal
<1> QED
  BY <1>1, <1>2, <1>3, <1>4, <1>5, <1>6, <1>7, <1>8, Zenon DEF ProcessStep

-----------------------------------------------------------------------------
(* No step of the coordinator gives a process authority. *)
LEMMA CoordinatorHolds ==
    ASSUME StateInv, CoordinatorStep, NEW p \in Procs, Holds(p)'
    PROVE  Holds(p) /\ pepoch'[p] = pepoch[p] /\ up'[p] = up[p]
<1>1. CASE UNCHANGED <<up, pepoch, lease, renewals>>
  BY <1>1, Zenon DEF Holds
<1>2. ASSUME NEW n \in Nodes, StopRemoved(n), ProcessGone(instance[n])
      PROVE  Holds(p) /\ pepoch'[p] = pepoch[p] /\ up'[p] = up[p]
  <2>1. /\ instance[n] \in Procs
        /\ lease \in [Procs -> Lease] /\ pepoch \in [Procs -> Epochs \cup {0}]
        /\ up \in [Procs -> {"new", "up", "dead"}] /\ renewals \subseteq Renewal
    BY <1>2, Zenon DEF StateInv, TypeOK, StopRemoved
  <2>2. p # instance[n]
    <3> SUFFICES ASSUME p = instance[n] PROVE FALSE
      BY Zenon
    <3>1. lease'[p].left = 0 /\ pepoch'[p] = 0
      BY <1>2, <2>1, Zenon DEF ProcessGone, NoLease
    <3>2. \A m \in renewals' : m.epoch \in Epochs
      BY SMTT(30), <1>2, <2>1, Zenon DEF ProcessGone, Renewal
    <3> QED BY <3>1, <3>2, ConstantsAssumption DEF Holds, Epochs
  <2> QED BY <1>2, <2>1, <2>2, Zenon DEF ProcessGone, Holds
<1> QED
  BY Zenon, <1>1, <1>2 DEF CoordinatorStep, RestartCoordinator, BeginChange, ConfirmFailure, BeginFailure,
     PublishMove, PublishPolicy, ProveMergeLeases, PublishMerge, PublishFailure, PauseWrites,
     ResumeWrites, Abort, AbortMergePreparation, FinishAbort, RetryChange,
     AckInstall, SetActivationReady, RemoveMember, MembersRemoved, AckLease,
     MembersLeased, WritesResumed, StopRemoved, Complete, RecoverJoin, procVars

(* What it takes for a renewal to be granted. *)
Grantable(p) ==
    /\ pepoch[p] = epoch
    /\ instance[NodeOf[p]] = p
    /\ NodeOf[p] \in Members
    /\ ~(phase = "published" /\ ~ready)

(* A step of a process, or of time, leaves it only the authority it had, unless
   the coordinator grants its renewal. *)
LEMMA ProcessHolds ==
    ASSUME StateInv, Tick \/ ProcessStep, NEW p \in Procs, Holds(p)'
    PROVE  /\ pepoch'[p] = pepoch[p] /\ up'[p] = up[p]
           /\ Holds(p) \/ Grantable(p)
<1> DEFINE Goal == /\ pepoch'[p] = pepoch[p] /\ up'[p] = up[p]
                   /\ Holds(p) \/ Grantable(p)
<1>0. /\ TypeOK /\ ProcessInv
      /\ L \in Nat /\ \A e \in Epochs : e \in Nat /\ e > 0
      /\ lease \in [Procs -> Lease] /\ pepoch \in [Procs -> Epochs \cup {0}]
      /\ up \in [Procs -> {"new", "up", "dead"}] /\ renewals \subseteq Renewal
  BY ConstantsAssumption DEF StateInv, TypeOK, Epochs
<1>1. CASE Tick
  <2>1. \A k \in 0..L : Less(k) > 0 => k > 0
    BY SMTT(30), <1>0, Zenon DEF Less
  <2>2. lease'[p].left > 0 => lease[p].left > 0
    BY <1>0, <1>1, <2>1, AgedType DEF Tick, NoLease, Lease
  <2>3. ASSUME NEW m \in renewals', m.granted, m.proc = p, m.epoch = pepoch'[p], m.left > 0
        PROVE  \E w \in renewals : w.granted /\ w.proc = p /\ w.epoch = pepoch[p] /\ w.left > 0
    <3>1. PICK w \in renewals : m = Aged(w)
      BY <1>1, Zenon DEF Tick
    <3> QED BY <1>0, <1>1, <2>1, <2>3, <3>1, AgedType DEF Tick, Renewal
  <2> QED BY <1>1, <2>2, <2>3, Zenon DEF Tick, Holds
<1>2. ASSUME NEW q \in Procs, Crash(q) PROVE Goal
  <2>1. p # q
    <3> SUFFICES ASSUME p = q PROVE FALSE
      BY Zenon
    <3>1. lease'[p].left = 0 /\ pepoch'[p] = 0
      BY <1>0, <1>2, Zenon DEF Crash, ProcessGone, NoLease
    <3>2. \A m \in renewals' : m.epoch > 0
      BY <1>0, <1>2, Zenon DEF Crash, ProcessGone, Renewal
    <3> QED BY <3>1, <3>2 DEF Holds
  <2> QED BY <1>0, <1>2, <2>1, Zenon DEF Crash, ProcessGone, Holds
<1>3. ASSUME NEW q \in Procs, NEW e \in Epochs, Register(q, e) PROVE Goal
  <2>1. p # q
    <3> SUFFICES ASSUME p = q PROVE FALSE
      BY Zenon
    <3>1. /\ ~(lease[p].left > 0) /\ lease' = lease /\ renewals' = renewals
          /\ pepoch'[p] = e
      BY <1>0, <1>3, Zenon DEF Register, ProcessInv
    <3>2. \A m \in renewals : m.proc # p
      BY <1>0, <1>3, Zenon DEF Register, ProcessInv
    <3> QED BY <3>1, <3>2, Zenon DEF Holds
  <2> QED BY <1>0, <1>3, <2>1, Zenon DEF Register, Holds
<1>4. ASSUME NEW q \in Procs, NEW e \in Epochs, InstallTopology(q, e) PROVE Goal
  <2>1. p # q
    <3> SUFFICES ASSUME p = q PROVE FALSE
      BY Zenon
    <3>0. pepoch[p] \in Nat /\ epoch \in Nat
      BY <1>0 DEF TypeOK
    <3>1. lease'[p].left = 0 /\ pepoch'[p] = e /\ renewals' = renewals /\ e > pepoch[p]
      BY <1>0, <1>4, <3>0 DEF InstallTopology, NoLease
    <3>2. \A m \in renewals : m.proc = p => m.epoch <= pepoch[p]
      BY <1>0, <1>4, ZenonT(30) DEF InstallTopology, ProcessInv
    <3> QED BY <1>0, <3>1, <3>2 DEF Holds, Renewal
  <2> QED BY <1>0, <1>4, <2>1, Zenon DEF InstallTopology, Holds
<1>5. ASSUME NEW q \in Procs, SendRenewal(q) PROVE Goal
  BY <1>5 DEF SendRenewal, Holds, procVars
<1>6. ASSUME NEW m \in renewals, GrantLease(m) PROVE Goal
  <2>1. CASE m.proc = p /\ m.epoch = pepoch[p]
    BY <1>6, <2>1, Zenon DEF GrantLease, Grantable, procVars
  <2>2. CASE ~(m.proc = p /\ m.epoch = pepoch[p])
    BY ZenonT(40), <1>0, <1>6, <2>2, GrantedType DEF GrantLease, Holds, procVars
  <2> QED BY <2>1, <2>2, Zenon
<1>7. ASSUME NEW m \in renewals, ReceiveLease(m) PROVE Goal
  <2>1. CASE m.proc = p
    <3>1. m.left > 0
      BY <1>0, <1>7, ConstantsAssumption DEF ReceiveLease, Renewal
    <3> QED BY <1>7, <2>1, <3>1, Zenon DEF ReceiveLease, Holds
  <2>2. CASE m.proc # p
    BY <1>0, <1>7, <2>2, Zenon DEF ReceiveLease, Holds, Renewal
  <2> QED BY <2>1, <2>2, Zenon
<1>8. ASSUME NEW m \in renewals, DropRenewal(m) PROVE Goal
  BY <1>8, Zenon DEF DropRenewal, Holds, procVars
<1> QED
  BY <1>1, <1>2, <1>3, <1>4, <1>5, <1>6, <1>7, <1>8, Zenon DEF ProcessStep

-----------------------------------------------------------------------------
(* Leases stay within the grants on record. *)
LEMMA GrantStep == StateInv /\ [Next]_vars => LeaseWithinGrant'
<1> SUFFICES ASSUME StateInv, [Next]_vars PROVE LeaseWithinGrant'
  BY Zenon
<1>0. /\ L \in Nat /\ RenewTimeout \in Nat /\ NodeOf \in [Procs -> Nodes]
      /\ lease \in [Procs -> Lease] /\ grants \in [Nodes -> Grant]
      /\ renewals \subseteq Renewal /\ quarantine \in 0..L
      /\ \A p \in Procs : lease[p].left \in 0..L
      /\ \A n \in Nodes : grants[n].left \in 0..L
      /\ \A m \in renewals : m.left \in 0..L /\ m.proc \in Procs
      /\ LeaseWithinGrant
  BY ConstantsAssumption DEF StateInv, TypeOK, Lease, Grant, Renewal
<1>1. CASE Tick
  <2>1. quarantine' = Less(quarantine)
    BY SMTT(30), <1>1, Zenon DEF Tick
  <2>2. \A n \in Nodes : grants'[n].left = Less(grants[n].left)
    BY SMTT(30), <1>0, <1>1, AgedType, Zenon DEF Tick, NoGrant, Less
  <2>3. \A p \in Procs : lease'[p].left = Less(lease[p].left)
    BY SMTT(30), <1>0, <1>1, AgedType, Zenon DEF Tick, NoLease, Less
  <2>4. ASSUME NEW m \in renewals'
        PROVE  \E w \in renewals : /\ m.granted = w.granted /\ m.proc = w.proc
                                   /\ m.left = Less(w.left)
    BY <1>0, <1>1, AgedType DEF Tick
  <2>5. \A j, k \in 0..L : j <= k => Less(j) <= Less(k)
    BY <1>0 DEF Less
  <2>6. ASSUME NEW p \in Procs
        PROVE  lease'[p].left <= grants'[NodeOf[p]].left \/ lease'[p].left <= quarantine'
    BY SMTT(30), <1>0, <2>1, <2>2, <2>3, <2>5, Zenon DEF LeaseWithinGrant
  <2>7. ASSUME NEW m \in renewals', m.granted
        PROVE  m.left <= grants'[NodeOf[m.proc]].left \/ m.left <= quarantine'
    <3>1. PICK w \in renewals : /\ m.granted = w.granted /\ m.proc = w.proc
                               /\ m.left = Less(w.left)
      BY SMTT(30), <2>4, Zenon
    <3>2. w.left <= grants[NodeOf[w.proc]].left \/ w.left <= quarantine
      BY <1>0, <2>7, <3>1, Zenon DEF LeaseWithinGrant
    <3>3. NodeOf[w.proc] \in Nodes
      BY <1>0, Zenon
    <3> QED BY <1>0, <2>1, <2>2, <2>5, <3>1, <3>2, <3>3, Zenon
  <2> QED BY <2>6, <2>7, Zenon DEF LeaseWithinGrant
<1>2. CASE CoordinatorStep
  <2>1. CASE RestartCoordinator
    BY <1>0, <2>1 DEF RestartCoordinator, LeaseWithinGrant, procVars
  <2>2. CASE UNCHANGED <<lease, renewals, grants, quarantine>>
    BY SMTT(30), <1>0, <2>2, Zenon DEF LeaseWithinGrant
  <2>3. ASSUME NEW n \in Nodes, StopRemoved(n), ProcessGone(instance[n])
        PROVE  LeaseWithinGrant'
    <3>1. instance[n] \in Procs
      BY <2>3, Zenon DEF StateInv, TypeOK, StopRemoved
    <3> QED BY <1>0, <2>3, <3>1 DEF StopRemoved, ProcessGone, NoLease, LeaseWithinGrant
  <2> QED
    BY ZenonT(40), <1>2, <2>1, <2>2, <2>3 DEF CoordinatorStep, BeginChange, ConfirmFailure, BeginFailure,
       PublishMove, PublishPolicy, ProveMergeLeases, PublishMerge, PublishFailure, PauseWrites,
       ResumeWrites, Abort, AbortMergePreparation, FinishAbort, RetryChange,
       AckInstall, SetActivationReady, RemoveMember, MembersRemoved, AckLease,
       MembersLeased, WritesResumed, StopRemoved, Complete, RecoverJoin, procVars
<1>3. ASSUME NEW p \in Procs, Crash(p) PROVE LeaseWithinGrant'
  BY <1>0, <1>3 DEF Crash, ProcessGone, NoLease, LeaseWithinGrant
<1>4. ASSUME NEW p \in Procs, NEW e \in Epochs, Register(p, e) PROVE LeaseWithinGrant'
  BY <1>0, <1>4, Zenon DEF Register, LeaseWithinGrant
<1>5. ASSUME NEW p \in Procs, NEW e \in Epochs, InstallTopology(p, e)
      PROVE  LeaseWithinGrant'
  BY SMTT(30), <1>0, <1>5, Zenon DEF InstallTopology, NoLease, LeaseWithinGrant
<1>6. ASSUME NEW p \in Procs, SendRenewal(p) PROVE LeaseWithinGrant'
  BY <1>0, <1>6 DEF SendRenewal, LeaseWithinGrant, procVars
<1>7. ASSUME NEW m \in renewals, GrantLease(m) PROVE LeaseWithinGrant'
  <2>1. /\ NodeOf[m.proc] \in Nodes
        /\ grants'[NodeOf[m.proc]].left = L
        /\ \A n \in Nodes \ {NodeOf[m.proc]} : grants'[n] = grants[n]
    BY <1>0, <1>7, Zenon DEF GrantLease
  <2>2. \A n \in Nodes : grants[n].left <= grants'[n].left
    BY SMTT(30), <1>0, <2>1, Zenon
  <2>3. quarantine' = quarantine /\ lease' = lease
    BY <1>7, Zenon DEF GrantLease, procVars
  <2>4. ASSUME NEW p \in Procs
        PROVE  lease'[p].left <= grants'[NodeOf[p]].left \/ lease'[p].left <= quarantine'
    BY <1>0, <2>1, <2>3 DEF LeaseWithinGrant
  <2>5. ASSUME NEW w \in renewals', w.granted
        PROVE  w.left <= grants'[NodeOf[w.proc]].left \/ w.left <= quarantine'
    <3>1. CASE w \in renewals
      BY SMTT(30), <1>0, <2>1, <2>3, <2>5, <3>1, Zenon DEF LeaseWithinGrant
    <3>2. CASE w \notin renewals
      <4>1. w.left = m.left /\ w.proc = m.proc
        BY ZenonT(40), <1>0, <1>7, <3>2, GrantedType DEF GrantLease
      <4> QED BY <1>0, <2>1, <4>1
    <3> QED BY SMTT(30), <3>1, <3>2, Zenon
  <2> QED BY <2>4, <2>5, Zenon DEF LeaseWithinGrant
<1>8. ASSUME NEW m \in renewals, ReceiveLease(m) PROVE LeaseWithinGrant'
  <2>1. m.left <= grants[NodeOf[m.proc]].left \/ m.left <= quarantine
    BY <1>0, <1>8, Zenon DEF ReceiveLease, LeaseWithinGrant
  <2> QED BY SMTT(30), <1>0, <1>8, <2>1, Zenon DEF ReceiveLease, LeaseWithinGrant
<1>9. ASSUME NEW m \in renewals, DropRenewal(m) PROVE LeaseWithinGrant'
  BY <1>0, <1>9, Zenon DEF DropRenewal, LeaseWithinGrant, procVars
<1>10. CASE UNCHANGED vars
  BY <1>0, <1>10, ZenonT(30) DEF vars, LeaseWithinGrant
<1> QED
  BY <1>1, <1>2, <1>3, <1>4, <1>5, <1>6, <1>7, <1>8, <1>9, <1>10, Zenon DEF Next, ProcessStep

-----------------------------------------------------------------------------
(* The facts about processes are kept. *)
LEMMA ProcessInvStep == StateInv /\ [Next]_vars => ProcessInv'
<1> SUFFICES ASSUME StateInv, [Next]_vars PROVE ProcessInv'
  BY Zenon
<1>0. /\ \A e \in Epochs : e \in Nat /\ e > 0
      /\ L \in Nat /\ epoch \in Epochs
      /\ lease \in [Procs -> Lease] /\ pepoch \in [Procs -> Epochs \cup {0}]
      /\ up \in [Procs -> {"new", "up", "dead"}] /\ renewals \subseteq Renewal
      /\ \A m \in renewals : m.proc \in Procs /\ m.epoch \in Epochs
      /\ \A p \in Procs : pepoch[p] \in Nat /\ lease[p].left \in Nat
      /\ ProcessInv
  BY ConstantsAssumption DEF StateInv, TypeOK, Epochs, Renewal, Lease
<1>1. CASE Tick
  <2>1. /\ epoch' = epoch /\ pepoch' = pepoch /\ up' = up
    BY <1>1, Zenon DEF Tick, durable
  <2>2. ASSUME NEW p \in Procs, lease'[p].left > 0
        PROVE  up'[p] = "up" /\ lease'[p].epoch = pepoch'[p]
    <3>1. lease[p].left > 1 /\ lease'[p] = Aged(lease[p])
      BY <1>0, <1>1, <2>2 DEF Tick, NoLease
    <3> QED BY <1>0, <2>1, <3>1, AgedType DEF ProcessInv
  <2>3. ASSUME NEW m \in renewals'
        PROVE  /\ up'[m.proc] # "new"
               /\ up'[m.proc] = "up" => m.epoch <= pepoch'[m.proc]
    <3>1. PICK w \in renewals : m = Aged(w)
      BY <1>1, Zenon DEF Tick
    <3> QED BY <1>0, <2>1, <3>1, AgedType DEF ProcessInv
  <2> QED BY <1>0, <2>1, <2>2, <2>3, Zenon DEF ProcessInv
<1>2. CASE CoordinatorStep
  <2>0. epoch' = epoch \/ epoch' = epoch + 1
    BY Zenon, <1>2 DEF CoordinatorStep, RestartCoordinator, BeginChange, ConfirmFailure, BeginFailure,
       PublishMove, PublishPolicy, ProveMergeLeases, PublishMerge, PublishFailure, PauseWrites,
       ResumeWrites, Abort, AbortMergePreparation, FinishAbort, RetryChange,
       AckInstall, SetActivationReady, RemoveMember, MembersRemoved, AckLease,
       MembersLeased, WritesResumed, StopRemoved, Complete, RecoverJoin, durable, Publish
  <2>1. epoch' \in Nat /\ epoch <= epoch'
    BY <1>0, <2>0
  <2>2. CASE UNCHANGED <<up, pepoch, lease, renewals>>
    BY <1>0, <2>1, <2>2 DEF ProcessInv
  <2>3. ASSUME NEW n \in Nodes, StopRemoved(n), ProcessGone(instance[n])
        PROVE  ProcessInv'
    <3>1. instance[n] \in Procs
      BY <2>3, Zenon DEF StateInv, TypeOK, StopRemoved
    <3> QED BY <1>0, <2>1, <2>3, <3>1 DEF ProcessGone, NoLease, ProcessInv
  <2> QED
    BY ZenonT(30), <1>2, <2>2, <2>3 DEF CoordinatorStep, RestartCoordinator, BeginChange,
       ConfirmFailure, BeginFailure, PublishMove, PublishPolicy, ProveMergeLeases,
       PublishMerge, PublishFailure, PauseWrites, ResumeWrites, Abort, AbortMergePreparation, FinishAbort,
       RetryChange, AckInstall, SetActivationReady, RemoveMember, MembersRemoved,
       AckLease, MembersLeased, WritesResumed, StopRemoved, Complete, RecoverJoin,
       procVars
<1>3. ASSUME NEW p \in Procs, Crash(p) PROVE ProcessInv'
  BY <1>0, <1>3 DEF Crash, ProcessGone, NoLease, ProcessInv, durable
<1>4. ASSUME NEW p \in Procs, NEW e \in Epochs, Register(p, e) PROVE ProcessInv'
  BY <1>0, <1>4 DEF Register, ProcessInv
<1>5. ASSUME NEW p \in Procs, NEW e \in Epochs, InstallTopology(p, e)
      PROVE  ProcessInv'
  <2>1. /\ epoch' = epoch /\ renewals' = renewals /\ up' = up /\ up[p] = "up"
        /\ e <= epoch /\ pepoch[p] < e
    BY <1>0, <1>5 DEF InstallTopology, durable
  <2>2. /\ pepoch'[p] = e /\ lease'[p].left = 0
        /\ \A q \in Procs \ {p} : pepoch'[q] = pepoch[q] /\ lease'[q] = lease[q]
    BY <1>0, <1>5, Zenon DEF InstallTopology, NoLease
  <2>3. \A m \in renewals : m.proc = p => m.epoch <= e
    BY <1>0, <2>1 DEF ProcessInv
  <2> QED BY <1>0, <2>1, <2>2, <2>3 DEF ProcessInv
<1>6. ASSUME NEW p \in Procs, SendRenewal(p) PROVE ProcessInv'
  BY <1>0, <1>6 DEF SendRenewal, ProcessInv, procVars, durable
<1>7. ASSUME NEW m \in renewals, GrantLease(m) PROVE ProcessInv'
  <2>1. /\ epoch' = epoch /\ UNCHANGED <<up, pepoch, lease>>
    BY <1>7, Zenon DEF GrantLease, procVars, durable
  <2>2. \A w \in renewals' : \E v \in renewals : w.proc = v.proc /\ w.epoch = v.epoch
    BY ZenonT(40), <1>0, <1>7, GrantedType DEF GrantLease
  <2> QED BY <1>0, <2>1, <2>2 DEF ProcessInv
<1>8. ASSUME NEW m \in renewals, ReceiveLease(m) PROVE ProcessInv'
  BY <1>0, <1>8, Zenon DEF ReceiveLease, ProcessInv, durable
<1>9. ASSUME NEW m \in renewals, DropRenewal(m) PROVE ProcessInv'
  BY <1>0, <1>9, Zenon DEF DropRenewal, ProcessInv, procVars, durable
<1>10. CASE UNCHANGED vars
  BY <1>0, <1>10, Zenon DEF vars, ProcessInv
<1> QED
  BY <1>1, <1>2, <1>3, <1>4, <1>5, <1>6, <1>7, <1>8, <1>9, <1>10, Zenon DEF Next, ProcessStep

-----------------------------------------------------------------------------
(* Everything but the coordinator leaves its durable state and its executor
   alone, except that a registration records an instance. *)
LEMMA ProcessFrame ==
    ASSUME Tick \/ ProcessStep \/ UNCHANGED vars
    PROVE  /\ UNCHANGED <<epoch, topo, kind, phase, target, ready, failed, stage, acked>>
           /\ \/ UNCHANGED instance
              \/ \E p \in Procs : \E e \in Epochs : Register(p, e)
  BY ZenonT(40) DEF Tick, ProcessStep, Crash, Register, InstallTopology, SendRenewal, GrantLease,
         ReceiveLease, DropRenewal, durable, executor, vars

(* The relation between the change and the published topologies is kept. *)
LEMMA TopologyStep == StateInv /\ [Next]_vars => TopologyInv'
<1> SUFFICES ASSUME StateInv, [Next]_vars PROVE TopologyInv'
  BY Zenon
<1>0. /\ epoch \in Epochs /\ MaxEpoch \in Nat
      /\ topo \in [Epochs -> SUBSET Nodes]
      /\ target \in MemberSets
      /\ TopologyInv
  BY ConstantsAssumption, Zenon DEF StateInv, TypeOK
<1>1. CASE Tick \/ ProcessStep \/ UNCHANGED vars
  BY <1>0, <1>1, ProcessFrame, Zenon DEF TopologyInv, Members, Base
<1>2. ASSUME NEW M \in MemberSets, NEW b \in BOOLEAN, Publish(M, b)
      PROVE  /\ epoch' > 1
             /\ Members' = M /\ Base' = Members
             /\ epoch > 1 => epoch' > 2 /\ topo'[epoch' - 2] = Base
             /\ \A e \in 1..epoch' : topo'[e] # {}
             /\ phase' = "published" /\ ready' = b
  <2>1. /\ epoch' = epoch + 1 /\ epoch' \in Epochs
        /\ topo'[epoch'] = M
        /\ \A e \in 1..epoch : topo'[e] = topo[e]
    BY <1>0, <1>2 DEF Publish, Epochs
  <2>2. /\ epoch' - 1 = epoch /\ epoch' - 2 = epoch - 1 /\ epoch \in 1..epoch
        /\ epoch > 1 => epoch - 1 \in 1..epoch
        /\ \A e \in 1..epoch' : e = epoch' \/ e \in 1..epoch
    BY <1>0, <2>1 DEF Epochs
  <2>3. M # {} /\ \A e \in 1..epoch : topo[e] # {}
    BY <1>0, Zenon DEF MemberSets, TopologyInv
  <2> QED BY <1>0, <1>2, <2>1, <2>2, <2>3 DEF Publish, Members, Base, Epochs
<1>4. ASSUME UNCHANGED <<epoch, topo>> PROVE Members' = Members /\ Base' = Base
  BY <1>4, Zenon DEF Members, Base
<1> USE <1>0, <1>4 DEF TopologyInv, durable
<1>3. CASE CoordinatorStep
  <2>1. CASE RestartCoordinator
    BY <2>1, Zenon DEF RestartCoordinator
  <2>2. ASSUME NEW k \in Kinds, NEW M \in MemberSets, BeginChange(k, M) PROVE TopologyInv'
    BY <2>2, ConstantsAssumption, Zenon DEF BeginChange
  <2>3. ASSUME NEW n \in Nodes, BeginFailure(n) PROVE TopologyInv'
    BY <2>3, Zenon DEF BeginFailure
  <2>4. CASE PublishMove
    BY Zenon, <1>2, <2>4 DEF PublishMove
  <2>5. CASE PublishPolicy
    BY Zenon, <1>2, <2>5 DEF PublishPolicy
  <2>6. CASE PublishMerge
    BY Zenon, <1>2, <2>6 DEF PublishMerge
  <2>7. CASE PublishFailure
    BY ZenonT(40), <1>2, <2>7 DEF PublishFailure
  <2>8. ASSUME NEW n \in Nodes, PauseWrites(n) PROVE TopologyInv'
    BY <2>8, Zenon DEF PauseWrites
  <2>9. ASSUME NEW n \in Nodes, ResumeWrites(n) PROVE TopologyInv'
    BY <2>9, Zenon DEF ResumeWrites
  <2>10. CASE Abort
    BY <2>10, Zenon DEF Abort
  <2>11. CASE AbortMergePreparation
    BY <2>11, Zenon DEF AbortMergePreparation
  <2>12. CASE FinishAbort
    BY <2>12, Zenon DEF FinishAbort
  <2>13. CASE RetryChange
    BY <2>13, Zenon DEF RetryChange
  <2>14. ASSUME NEW n \in Nodes, AckInstall(n) PROVE TopologyInv'
    BY <2>14, Zenon DEF AckInstall
  <2>15. CASE SetActivationReady
    BY <2>15, Zenon DEF SetActivationReady
  <2>16. ASSUME NEW n \in Nodes, RemoveMember(n) PROVE TopologyInv'
    BY <2>16, Zenon DEF RemoveMember
  <2>17. CASE MembersRemoved
    BY <2>17, Zenon DEF MembersRemoved
  <2>18. ASSUME NEW n \in Nodes, AckLease(n) PROVE TopologyInv'
    BY <2>18, Zenon DEF AckLease
  <2>19. CASE MembersLeased
    BY <2>19, Zenon DEF MembersLeased
  <2>20. CASE WritesResumed
    BY <2>20, Zenon DEF WritesResumed
  <2>21. ASSUME NEW n \in Nodes, StopRemoved(n) PROVE TopologyInv'
    BY <2>21, Zenon DEF StopRemoved
  <2>22. CASE Complete
    BY <2>22, Zenon DEF Complete
  <2>23. ASSUME NEW x \in Nodes, RecoverJoin(x) PROVE TopologyInv'
    <3>1. Base \in MemberSets /\ epoch > 1
      BY <2>23, Zenon DEF RecoverJoin, Base, MemberSets, Epochs
    <3> QED BY Zenon, <1>2, <2>23, <3>1 DEF RecoverJoin
  <2>24. ASSUME NEW n \in Nodes, ConfirmFailure(n) PROVE TopologyInv'
    BY <2>24, Zenon DEF ConfirmFailure
  <2>25. CASE ProveMergeLeases
    BY <2>25, Zenon DEF ProveMergeLeases
  <2> QED
    BY ZenonT(40), <1>3, <2>1, <2>2, <2>3, <2>4, <2>5, <2>6, <2>7, <2>8, <2>9, <2>10, <2>11,
       <2>12, <2>13, <2>14, <2>15, <2>16, <2>17, <2>18, <2>19, <2>20, <2>21, <2>22,
       <2>23, <2>24, <2>25 DEF CoordinatorStep
<1> QED BY <1>1, <1>3, Zenon DEF Next

-----------------------------------------------------------------------------
(* A registered instance stays a started process of its node. *)
LEMMA InstanceStep == StateInv /\ [Next]_vars => InstanceInv'
<1> SUFFICES ASSUME StateInv, [Next]_vars PROVE InstanceInv'
  BY Zenon
<1>0. /\ instance \in [Nodes -> Procs \cup {None}] /\ None \notin Procs
      /\ NodeOf \in [Procs -> Nodes]
      /\ up \in [Procs -> {"new", "up", "dead"}]
      /\ InstanceInv
  BY ConstantsAssumption, Zenon DEF StateInv, TypeOK
<1>1. ASSUME NEW p \in Procs, NEW e \in Epochs, Register(p, e) PROVE InstanceInv'
  BY <1>0, <1>1 DEF Register, InstanceInv
<1>2. ASSUME \A n \in Nodes : instance'[n] \in {instance[n], None},
             \A p \in Procs : up'[p] \in {up[p], "dead"}
      PROVE  InstanceInv'
  BY <1>0, <1>2 DEF InstanceInv
<1>3. CASE UNCHANGED instance /\ UNCHANGED up
  BY <1>2, <1>3, Zenon
<1>4. ASSUME NEW p \in Procs, Crash(p) PROVE InstanceInv'
  BY <1>0, <1>2, <1>4, Zenon DEF Crash, ProcessGone, durable
<1>5. ASSUME NEW n \in Nodes, StopRemoved(n) PROVE InstanceInv'
  <2>1. instance[n] \in Procs
    BY <1>0, <1>5, Zenon DEF StopRemoved
  <2> QED BY <1>0, <1>2, <1>5, <2>1, Zenon DEF StopRemoved, ProcessGone, procVars
<1>6. ASSUME NEW n \in Nodes, RemoveMember(n) PROVE InstanceInv'
  BY <1>0, <1>2, <1>6, Zenon DEF RemoveMember, procVars
<1>7. CASE PublishFailure
  BY <1>0, <1>2, <1>7, Zenon DEF PublishFailure, procVars
<1>8. ASSUME NEW x \in Nodes, RecoverJoin(x) PROVE InstanceInv'
  BY <1>0, <1>2, <1>8, Zenon DEF RecoverJoin, procVars
<1> QED
  BY ZenonT(40), <1>1, <1>3, <1>4, <1>5, <1>6, <1>7, <1>8 DEF Next, ProcessStep, CoordinatorStep,
     Tick, RestartCoordinator, BeginChange, ConfirmFailure, BeginFailure, PublishMove,
     PublishPolicy, ProveMergeLeases, PublishMerge, PauseWrites, ResumeWrites, Abort, AbortMergePreparation, FinishAbort,
     RetryChange, AckInstall, SetActivationReady, MembersRemoved, AckLease,
     MembersLeased, WritesResumed, Complete, InstallTopology, SendRenewal, GrantLease,
     ReceiveLease, DropRenewal, durable, procVars, vars

-----------------------------------------------------------------------------
(* Acknowledgements go on meaning what they meant when they were received. *)
LEMMA ExecutorStep == StateInv /\ [Next]_vars => ExecutorInv'
<1> SUFFICES ASSUME StateInv, [Next]_vars PROVE ExecutorInv'
  BY Zenon
<1>0. /\ epoch \in Epochs /\ \A e \in Epochs : e \in Nat /\ e > 0
      /\ instance \in [Nodes -> Procs \cup {None}] /\ None \notin Procs
      /\ acked \subseteq Nodes /\ NodeOf \in [Procs -> Nodes]
      /\ pepoch \in [Procs -> Epochs \cup {0}]
      /\ fence \in [Procs -> {"clear", "own", "other"}]
      /\ up \in [Procs -> {"new", "up", "dead"}]
      /\ \A p \in Procs : pepoch[p] <= epoch
      /\ phase = "published" => target = Members
      /\ ExecutorInv
  <2>1. TypeOK /\ ProcessInv /\ TopologyInv /\ ExecutorInv
    BY Zenon DEF StateInv
  <2>2. \A e \in Epochs : e \in Nat /\ e > 0
    BY ConstantsAssumption DEF Epochs
  <2>3. phase = "published" => target = Members
    BY <2>1, Zenon DEF TopologyInv
  <2>4. \A p \in Procs : pepoch[p] <= epoch
    BY <2>1, Zenon DEF ProcessInv
  <2>5. None \notin Procs /\ NodeOf \in [Procs -> Nodes]
    BY ConstantsAssumption, Zenon
  <2>6. /\ epoch \in Epochs /\ instance \in [Nodes -> Procs \cup {None}]
        /\ acked \subseteq Nodes /\ pepoch \in [Procs -> Epochs \cup {0}]
        /\ fence \in [Procs -> {"clear", "own", "other"}]
        /\ up \in [Procs -> {"new", "up", "dead"}]
    BY <2>1, Zenon DEF TypeOK
  <2> QED BY <2>1, <2>2, <2>3, <2>4, <2>5, <2>6, Zenon
<1> USE <1>0 DEF ExecutorInv, durable, executor, procVars, Members
<1>1. CASE UNCHANGED vars
  BY Zenon, <1>1 DEF vars
<1>2. CASE Tick
  BY Zenon, <1>2 DEF Tick
<1>3. CASE ProcessStep
  <2>1. ASSUME NEW p \in Procs, Crash(p) PROVE ExecutorInv'
    BY ZenonT(40), <2>1 DEF Crash, ProcessGone
  <2>2. ASSUME NEW p \in Procs, NEW e \in Epochs, Register(p, e) PROVE ExecutorInv'
    <3>1. ASSUME NEW n \in acked, stage \in {"fence", "proved", "install", "lease", "remove"}
          PROVE  instance'[n] = instance[n]
      <4>1. CASE n # NodeOf[p]
        BY <2>2, <4>1, Zenon DEF Register
      <4>2. CASE n = NodeOf[p] /\ n \in Members
        BY <2>2, <3>1, <4>2, Zenon DEF Register
      <4>3. CASE n = NodeOf[p] /\ n \notin Members
        BY <2>2, <3>1, <4>3, Zenon DEF Register
      <4> QED BY <4>1, <4>2, <4>3, Zenon
    <3>2. /\ UNCHANGED <<epoch, topo, phase, ready, kind, stage, acked, fence>>
          /\ up[p] = "new" /\ \A q \in Procs \ {p} : up'[q] = up[q] /\ pepoch'[q] = pepoch[q]
      BY <2>2, Zenon DEF Register
    <3>3. \A n \in acked : stage \in {"fence", "proved", "install", "lease", "remove"}
                            => instance[n] # p \/ instance[n] = None
      <4>1. InstanceInv
        BY Zenon DEF StateInv
      <4> QED BY ZenonT(40), <3>2, <4>1 DEF InstanceInv
    <3> QED BY <3>1, <3>2, <3>3
  <2>3. ASSUME NEW p \in Procs, NEW e \in Epochs, InstallTopology(p, e) PROVE ExecutorInv'
    BY <2>3 DEF InstallTopology
  <2>4. ASSUME NEW p \in Procs, SendRenewal(p) PROVE ExecutorInv'
    BY Zenon, <2>4 DEF SendRenewal
  <2>5. ASSUME NEW m \in renewals, GrantLease(m) PROVE ExecutorInv'
    BY <2>5 DEF GrantLease
  <2>6. ASSUME NEW m \in renewals, ReceiveLease(m) PROVE ExecutorInv'
    BY ZenonT(40), <2>6 DEF ReceiveLease
  <2>7. ASSUME NEW m \in renewals, DropRenewal(m) PROVE ExecutorInv'
    BY <2>7 DEF DropRenewal
  <2> QED BY Zenon, <1>3, <2>1, <2>2, <2>3, <2>4, <2>5, <2>6, <2>7 DEF ProcessStep
<1>4. CASE CoordinatorStep
  <2>1. CASE RestartCoordinator
    BY <2>1, Zenon DEF RestartCoordinator
  <2>2. ASSUME NEW k \in Kinds, NEW M \in MemberSets, BeginChange(k, M) PROVE ExecutorInv'
    BY <2>2, Zenon DEF BeginChange
  <2>3. ASSUME NEW n \in Nodes, BeginFailure(n) PROVE ExecutorInv'
    BY <2>3, Zenon DEF BeginFailure
  <2>4. CASE PublishMove \/ PublishPolicy \/ PublishMerge \/ PublishFailure
    BY Zenon, <2>4 DEF PublishMove, PublishPolicy, PublishMerge, PublishFailure, Publish
  <2>5. ASSUME NEW n \in Nodes, PauseWrites(n) PROVE ExecutorInv'
    BY ZenonT(40), <2>5 DEF PauseWrites, Reachable
  <2>6. ASSUME NEW n \in Nodes, ResumeWrites(n) PROVE ExecutorInv'
    BY <2>6, Zenon DEF ResumeWrites
  <2>7. CASE Abort \/ FinishAbort
    BY <2>7, Zenon DEF Abort, FinishAbort
  <2>8. CASE AbortMergePreparation
    BY <2>8, Zenon DEF AbortMergePreparation
  <2>9. CASE RetryChange
    BY SMTT(30), <2>9, Zenon DEF RetryChange
  <2>10. ASSUME NEW n \in Nodes, AckInstall(n) PROVE ExecutorInv'
    BY SMTT(30), <2>10, Zenon DEF AckInstall, Reachable
  <2>11. CASE SetActivationReady
    BY <2>11, ZenonT(30) DEF SetActivationReady
  <2>12. ASSUME NEW n \in Nodes, RemoveMember(n) PROVE ExecutorInv'
    BY <2>12 DEF RemoveMember, Reachable, Removed
  <2>13. CASE MembersRemoved
    BY Zenon, <2>13 DEF MembersRemoved, StateInv, TopologyInv
  <2>14. ASSUME NEW n \in Nodes, AckLease(n) PROVE ExecutorInv'
    BY ZenonT(40), <2>14 DEF AckLease, Reachable
  <2>15. CASE MembersLeased
    BY <2>15, ZenonT(30) DEF MembersLeased
  <2>16. CASE WritesResumed
    BY <2>16, ZenonT(30) DEF WritesResumed
  <2>17. ASSUME NEW n \in Nodes, StopRemoved(n) PROVE ExecutorInv'
    BY SMTT(30), <2>17, Zenon DEF StopRemoved
  <2>18. CASE Complete
    BY <2>18, Zenon DEF Complete
  <2>19. ASSUME NEW x \in Nodes, RecoverJoin(x) PROVE ExecutorInv'
    BY <2>19, Zenon DEF RecoverJoin, Publish
  <2>20. ASSUME NEW n \in Nodes, ConfirmFailure(n) PROVE ExecutorInv'
    BY <2>20, Zenon DEF ConfirmFailure
  <2>21. CASE ProveMergeLeases
    BY <2>21, ZenonT(30) DEF ProveMergeLeases
  <2> QED
    BY ZenonT(40), <1>4, <2>1, <2>2, <2>3, <2>4, <2>5, <2>6, <2>7, <2>8, <2>9, <2>10, <2>11,
       <2>12, <2>13, <2>14, <2>15, <2>16, <2>17, <2>18, <2>19, <2>20, <2>21
       DEF CoordinatorStep
<1> QED BY ZenonT(40), <1>1, <1>2, <1>3, <1>4 DEF Next

-----------------------------------------------------------------------------
(* The parts of the invariant, cited where only some of them matter. *)
LEMMA InvParts ==
    AuthorityInv =>
        /\ StateInv /\ AccountInv
        /\ TypeOK /\ ProcessInv /\ InstanceInv /\ TopologyInv /\ LeaseWithinGrant /\ ExecutorInv
        /\ CurrentInv /\ OldInv /\ MergeInv /\ ReleaseInv
BY Zenon DEF AuthorityInv, StateInv, AccountInv

(* Only a running process holds authority. *)
LEMMA HoldsUp ==
    ASSUME AuthorityInv, NEW p \in Procs, Holds(p)
    PROVE  up[p] = "up"
<1>1. CASE lease[p].left > 0
  BY <1>1, InvParts, Zenon DEF ProcessInv
<1>2. CASE \E m \in renewals : m.granted /\ m.proc = p /\ m.epoch = pepoch[p] /\ m.left > 0
  <2>1. PICK m \in renewals : m.epoch = pepoch[p]
    BY <1>2, Zenon
  <2>2. m.epoch \in Epochs
    BY InvParts, Zenon DEF TypeOK, Renewal
  <2>3. pepoch[p] > 0
    BY <2>1, <2>2, ConstantsAssumption DEF Epochs
  <2> QED BY <2>3, InvParts, Zenon DEF ProcessInv
<1> QED BY <1>1, <1>2, Zenon DEF Holds

(* Steps of processes and of time keep authority accounted for. *)
LEMMA ProcessAccount ==
    ASSUME AuthorityInv, Tick \/ ProcessStep \/ UNCHANGED vars
    PROVE  AccountInv'
<1>0. /\ AccountInv /\ InstanceInv
      /\ instance \in [Nodes -> Procs \cup {None}] /\ None \notin Procs
      /\ NodeOf \in [Procs -> Nodes] /\ target \in MemberSets
      /\ phase = "published" => target = Members
      /\ UNCHANGED <<epoch, topo, kind, phase, target, ready, failed, stage, acked>>
  BY ProcessFrame, ConstantsAssumption, InvParts, Zenon
     DEF TypeOK, TopologyInv
<1>1. ASSUME NEW p \in Procs, Holds(p)'
      PROVE  /\ pepoch'[p] = pepoch[p] /\ up'[p] = up[p]
             /\ Holds(p) \/ Grantable(p)
  <2>1. CASE UNCHANGED vars
    BY ZenonT(40), <1>1, <2>1 DEF vars, Holds
  <2> QED BY Zenon, <1>1, <2>1, ProcessHolds DEF AuthorityInv
<1>2. ASSUME NEW p \in Procs, up[p] = "up", up'[p] = "up"
      PROVE  fence'[p] = fence[p]
  <2>1. CASE UNCHANGED fence
    BY <2>1, Zenon
  <2>2. ASSUME NEW q \in Procs, Crash(q) PROVE fence'[p] = fence[p]
    BY <1>2, <2>2, InvParts, Zenon DEF Crash, ProcessGone, TypeOK
  <2> QED
    BY ZenonT(40), <2>1, <2>2 DEF Tick, ProcessStep, Register, InstallTopology, SendRenewal,
       GrantLease, ReceiveLease, DropRenewal, procVars, vars
<1>3. ASSUME NEW n \in Nodes, instance[n] # None,
             n \in Members \/ phase = "published"
      PROVE  instance'[n] = instance[n]
  <2>1. CASE UNCHANGED instance
    BY <2>1, Zenon
  <2>2. ASSUME NEW q \in Procs, NEW e \in Epochs, Register(q, e)
        PROVE  instance'[n] = instance[n]
    <3>1. CASE NodeOf[q] = n
      BY <1>0, <1>3, <2>2, <3>1, Zenon DEF Register
    <3>2. CASE NodeOf[q] # n
      BY <1>0, <2>2, <3>2, Zenon DEF Register
    <3> QED BY Zenon, <3>1, <3>2
  <2> QED BY <2>1, <2>2, ProcessFrame, Zenon
<1>4. ASSUME NEW n \in Nodes, instance[n] # None, up'[instance[n]] = "up"
      PROVE  up[instance[n]] = "up"
  <2>1. instance[n] \in Procs /\ up[instance[n]] # "new"
    BY <1>0, <1>4, Zenon DEF InstanceInv
  <2>2. CASE UNCHANGED up
    BY <1>4, <2>2, Zenon
  <2>3. ASSUME NEW q \in Procs, Crash(q) PROVE up[instance[n]] = "up"
    BY <1>4, <2>1, <2>3, InvParts, Zenon DEF Crash, ProcessGone, TypeOK
  <2>4. ASSUME NEW q \in Procs, NEW e \in Epochs, Register(q, e)
        PROVE  up[instance[n]] = "up"
    BY <1>4, <2>1, <2>4, InvParts, Zenon DEF Register, TypeOK
  <2> QED
    BY ZenonT(40), <2>2, <2>3, <2>4 DEF Tick, ProcessStep, InstallTopology, SendRenewal,
       GrantLease, ReceiveLease, DropRenewal, procVars, vars
<1>5. CurrentInv'
  <2> SUFFICES ASSUME NEW p \in Procs, HoldsCurrent(p)'
               PROVE  /\ instance'[NodeOf[p]] = p
                      /\ NodeOf[p] \in Members'
                      /\ ~(phase' = "published" /\ ~ready')
    BY Zenon DEF CurrentInv
  <2>1. HoldsCurrent(p) \/ Grantable(p)
    BY <1>0, <1>1, Zenon DEF HoldsCurrent
  <2>2. /\ instance[NodeOf[p]] = p /\ NodeOf[p] \in Members
        /\ ~(phase = "published" /\ ~ready)
    BY <1>0, <2>1, Zenon DEF AccountInv, CurrentInv, Grantable
  <2> QED BY ZenonT(40), <1>0, <1>3, <2>2 DEF Members
<1>6. ASSUME NEW p \in Procs, HoldsOld(p)' PROVE HoldsOld(p) /\ pepoch'[p] = pepoch[p]
  BY <1>0, <1>1, <1>6, Zenon DEF HoldsOld, Grantable
<1>7. OldInv'
  <2> SUFFICES ASSUME NEW p \in Procs, HoldsOld(p)'
               PROVE  /\ phase' = "published"
                      /\ ready' => kind' \in {"merge", "failure"}
                      /\ pepoch'[p] = IF kind' = "recovery" THEN epoch' - 2 ELSE epoch' - 1
                      /\ instance'[NodeOf[p]] = p
                      /\ NodeOf[p] \in topo'[pepoch'[p]]
                      /\ kind' = "failure" => NodeOf[p] # failed'
                      /\ kind' = "merge" /\ NodeOf[p] \notin target' => fence'[p] # "clear"
    BY Zenon DEF OldInv
  <2>1. HoldsOld(p) /\ pepoch'[p] = pepoch[p] /\ up'[p] = up[p] /\ up[p] = "up"
    BY <1>1, <1>6, HoldsUp, Zenon DEF HoldsOld
  <2>2. /\ phase = "published"
        /\ ready => kind \in {"merge", "failure"}
        /\ pepoch[p] = IF kind = "recovery" THEN epoch - 2 ELSE epoch - 1
        /\ instance[NodeOf[p]] = p
        /\ NodeOf[p] \in topo[pepoch[p]]
        /\ kind = "failure" => NodeOf[p] # failed
        /\ kind = "merge" /\ NodeOf[p] \notin target => fence[p] # "clear"
    BY <2>1, InvParts, Zenon DEF OldInv
  <2>3. NodeOf[p] \in Nodes /\ p # None
    BY <1>0, Zenon
  <2>4. instance'[NodeOf[p]] = p
    BY <1>3, <2>2, <2>3, Zenon
  <2>5. fence'[p] = fence[p]
    BY <1>2, <2>1, Zenon
  <2> QED BY <1>0, <2>1, <2>2, <2>4, <2>5, Zenon
<1>8. MergeInv'
  <2> SUFFICES ASSUME kind = "merge", phase = "published" PROVE MergeInv'
    BY <1>0, Zenon DEF MergeInv
  <2>1. \A n \in target : n \in Nodes /\ instance[n] # None /\ instance[n] \in Procs
                          /\ instance'[n] = instance[n]
    BY <1>0, <1>3, Zenon DEF AccountInv, MergeInv, MemberSets
  <2>2. ASSUME NEW n \in target, up'[instance'[n]] = "up", fence[instance[n]] # "clear"
        PROVE  fence'[instance'[n]] # "clear"
    BY <1>2, <1>4, <2>1, <2>2, Zenon
  <2>3. \A n \in target : up'[instance'[n]] = "up" => up[instance[n]] = "up"
    BY <1>4, <2>1, Zenon
  <2>4. \A n \in target : instance'[n] # None
    BY <2>1, Zenon
  <2>5. stage \in {"lease", "release"} =>
           \A p \in Procs : HoldsOld(p)' => NodeOf[p] \in target
    BY <1>6, InvParts, Zenon DEF MergeInv
  <2>6. ASSUME NEW p \in Procs, HoldsOld(p)', NodeOf[p] \notin target,
               NEW n \in target, up'[instance'[n]] = "up"
        PROVE  fence'[instance'[n]] # "clear"
    <3>1. HoldsOld(p) /\ up[instance[n]] = "up"
      BY <1>6, <2>3, <2>6, Zenon
    <3>2. fence[instance[n]] # "clear"
      BY <2>6, <3>1, InvParts, Zenon DEF MergeInv
    <3> QED BY <2>2, <2>6, <3>2, Zenon
  <2> QED BY <1>0, <2>4, <2>5, <2>6, Zenon DEF MergeInv
<1>9. ReleaseInv'
  BY <1>0, <1>6, Zenon DEF AccountInv, ReleaseInv
<1> QED BY <1>5, <1>7, <1>8, <1>9, Zenon DEF AccountInv

-----------------------------------------------------------------------------
(* A step that publishes nothing, takes no fence off a process that matters and
   no identity away from a holder keeps authority accounted for. *)
LEMMA QuietAccount ==
    ASSUME AuthorityInv, CoordinatorStep,
           UNCHANGED <<epoch, topo, kind, phase, target, ready, failed, instance, fence>>,
           stage' \in {"lease", "release"} => stage' = stage
    PROVE  AccountInv'
<1>1. ASSUME NEW p \in Procs, Holds(p)'
      PROVE  Holds(p) /\ pepoch'[p] = pepoch[p]
  BY <1>1, CoordinatorHolds, Zenon DEF AuthorityInv
<1>2. UNCHANGED up \/ phase = "cleanup"
  BY ZenonT(40) DEF CoordinatorStep, RestartCoordinator, BeginChange, ConfirmFailure, BeginFailure,
     PublishMove, PublishPolicy, ProveMergeLeases, PublishMerge, PublishFailure, PauseWrites,
     ResumeWrites, Abort, AbortMergePreparation, FinishAbort, RetryChange,
     AckInstall, SetActivationReady, RemoveMember, MembersRemoved, AckLease,
     MembersLeased, WritesResumed, StopRemoved, Complete, RecoverJoin, procVars
<1>3. \A p \in Procs : /\ HoldsCurrent(p)' => HoldsCurrent(p)
                       /\ HoldsOld(p)' => HoldsOld(p) /\ pepoch'[p] = pepoch[p]
  BY <1>1, Zenon DEF HoldsCurrent, HoldsOld
<1>4. CurrentInv'
  BY <1>3, InvParts, ZenonT(30) DEF CurrentInv, Members
<1>5. OldInv'
  BY <1>3, InvParts DEF OldInv
<1>6. MergeInv'
  BY ZenonT(40), <1>2, <1>3, InvParts DEF MergeInv
<1>7. ReleaseInv'
  BY <1>3, InvParts, Zenon DEF ReleaseInv
<1> QED BY <1>4, <1>5, <1>6, <1>7, Zenon DEF AccountInv

(* When nobody holds authority under an older topology, a step that publishes
   nothing only has to keep the registered holders. *)
LEMMA SettledAccount ==
    ASSUME AuthorityInv, CoordinatorStep, UNCHANGED <<epoch, topo>>,
           \A p \in Procs : ~HoldsOld(p),
           \A n \in Members : instance'[n] = instance[n],
           ~(phase' = "published" /\ ~ready') \/ (phase = "published" /\ ~ready),
           kind' = "merge" /\ phase' = "published" =>
               \A n \in target' : instance'[n] # None
    PROVE  AccountInv'
<1>1. ASSUME NEW p \in Procs, Holds(p)'
      PROVE  Holds(p) /\ pepoch'[p] = pepoch[p]
  BY <1>1, CoordinatorHolds, Zenon DEF AuthorityInv
<1>2. \A p \in Procs : ~HoldsOld(p)'
  BY <1>1, Zenon DEF HoldsOld
<1>3. CurrentInv'
  BY <1>1, InvParts, Zenon DEF CurrentInv, HoldsCurrent, Members
<1> QED
  BY <1>2, <1>3, Zenon DEF AccountInv, OldInv, MergeInv, ReleaseInv

(* Before its publication a change leaves nobody on an older topology. *)
LEMMA NoOldUnpublished ==
    ASSUME AuthorityInv, phase # "published"
    PROVE  \A p \in Procs : ~HoldsOld(p)
  BY InvParts, ZenonT(30) DEF OldInv

(* After a publication, who held authority holds it under an older topology. *)
LEMMA PublishAccount ==
    ASSUME AuthorityInv, CoordinatorStep, NEW M, NEW b \in BOOLEAN, Publish(M, b)
    PROVE  /\ epoch \in Nat /\ epoch' = epoch + 1
           /\ topo'[epoch] = Members /\ phase' = "published" /\ ready' = b
           /\ stage' = "idle" /\ epoch' - 1 = epoch
           /\ \A p \in Procs : ~HoldsCurrent(p)'
           /\ \A p \in Procs : HoldsOld(p)' =>
                 /\ HoldsCurrent(p) \/ HoldsOld(p)
                 /\ pepoch'[p] = pepoch[p] /\ up[p] = "up"
<1>1. /\ epoch \in Nat /\ epoch' = epoch + 1 /\ topo'[epoch] = Members
      /\ phase' = "published" /\ ready' = b /\ stage' = "idle"
      /\ \A p \in Procs : pepoch[p] \in Nat /\ pepoch[p] <= epoch
  <2>1. epoch \in Epochs /\ pepoch \in [Procs -> Epochs \cup {0}]
        /\ topo \in [Epochs -> SUBSET Nodes]
    BY InvParts, Zenon DEF TypeOK
  <2>2. \A p \in Procs : pepoch[p] <= epoch
    BY InvParts, Zenon DEF ProcessInv
  <2>3. /\ epoch' = epoch + 1 /\ phase' = "published" /\ ready' = b /\ stage' = "idle"
        /\ topo' = [topo EXCEPT ![epoch + 1] = M]
    BY Zenon DEF Publish
  <2>4. epoch \in Nat /\ \A p \in Procs : pepoch[p] \in Nat
    BY <2>1, ConstantsAssumption DEF Epochs
  <2>5. topo'[epoch] = Members
    BY <2>1, <2>3, <2>4 DEF Members
  <2> QED BY <2>2, <2>3, <2>4, <2>5, Zenon
<1>2. ASSUME NEW p \in Procs, Holds(p)'
      PROVE  Holds(p) /\ pepoch'[p] = pepoch[p] /\ up[p] = "up"
  BY <1>2, CoordinatorHolds, HoldsUp, Zenon DEF AuthorityInv
<1> QED BY <1>1, <1>2 DEF HoldsCurrent, HoldsOld

-----------------------------------------------------------------------------
(* A member of the old topology takes part in the installation barrier. *)
LEMMA BaseInstalls ==
    ASSUME AuthorityInv, phase = "published", kind # "recovery", NEW n \in Base
    PROVE  n \in Installers
<1>1. Base \in MemberSets /\ Members \in MemberSets /\ target = Members
  BY ConstantsAssumption, InvParts
     DEF TypeOK, TopologyInv, Base, Members, MemberSets, Epochs
<1>2. CASE n \in target
  BY <1>2, Zenon DEF Installers
<1>3. CASE n \notin target
  <2>1. PICK r \in Ranges : Owner[r][Base] = n
    BY <1>1, CoverAssumption, Zenon
  <2>2. Owner[r][Members] # n
    BY <1>1, <1>3, OwnersStay, Zenon
  <2> QED BY <2>1, <2>2, Zenon DEF Installers, Sources
<1> QED BY <1>2, <1>3, ZenonT(30)

(* The installation barrier leaves nobody on an older topology. *)
LEMMA BarrierSettles ==
    ASSUME AuthorityInv, SetActivationReady
    PROVE  \A p \in Procs : ~HoldsOld(p)
<1> SUFFICES ASSUME NEW p \in Procs, HoldsOld(p) PROVE FALSE
  BY Zenon
<1>1. /\ phase = "published" /\ stage = "install" /\ acked = Installers
      /\ instance[NodeOf[p]] = p
      /\ NodeOf[p] \in topo[pepoch[p]]
      /\ pepoch[p] = IF kind = "recovery" THEN epoch - 2 ELSE epoch - 1
  BY InvParts, Zenon DEF OldInv, SetActivationReady
<1>2. NodeOf[p] \in acked
  <2>1. CASE kind = "recovery"
    BY <1>1, <2>1, InvParts, Zenon DEF TopologyInv, Installers
  <2>2. CASE kind # "recovery"
    BY <1>1, <2>2, BaseInstalls, Zenon DEF Base
  <2> QED BY <2>1, <2>2, Zenon
<1>3. up[p] = "up"
  BY HoldsUp, Zenon DEF HoldsOld
<1> QED BY <1>1, <1>2, <1>3, InvParts, Zenon DEF ExecutorInv, HoldsOld

(* Once every member of the target is leased, nobody is left on an older
   topology. *)
LEMMA LeasedSettles ==
    ASSUME AuthorityInv, MembersLeased
    PROVE  \A p \in Procs : ~HoldsOld(p)
<1> SUFFICES ASSUME NEW p \in Procs, HoldsOld(p) PROVE FALSE
  BY Zenon
<1>1. /\ phase = "published" /\ stage = "lease" /\ acked = target /\ ready
      /\ instance[NodeOf[p]] = p
      /\ kind \in {"merge", "failure"}
      /\ NodeOf[p] \in Base
  BY InvParts, Zenon DEF OldInv, ExecutorInv, MembersLeased, Base
<1>2. NodeOf[p] \in target
  <2>1. CASE kind = "merge"
    BY <1>1, <2>1, InvParts, Zenon DEF MergeInv
  <2>2. CASE kind = "failure"
    BY <1>1, <2>2, InvParts, Zenon DEF OldInv, TopologyInv
  <2> QED BY <1>1, <2>1, <2>2, Zenon
<1>3. up[p] = "up"
  BY HoldsUp, Zenon DEF HoldsOld
<1>4. NodeOf[p] \in acked
  BY <1>1, <1>2, Zenon
<1>5. up[p] = "up" => pepoch[p] = epoch
  BY <1>1, <1>4, InvParts, Zenon DEF ExecutorInv
<1> QED BY <1>3, <1>5, Zenon DEF HoldsOld

(* A node whose last grant and the quarantine have run out holds nothing. *)
LEMMA ExpiredHoldsNothing ==
    ASSUME AuthorityInv, NEW p \in Procs, grants[NodeOf[p]].left = 0, quarantine = 0
    PROVE  ~Holds(p)
<1>1. lease[p].left \in Nat /\ ~(lease[p].left > 0)
  <2>1. lease \in [Procs -> Lease]
    BY InvParts, Zenon DEF TypeOK
  <2>2. lease[p].left \in 0..L
    BY <2>1, Zenon DEF Lease
  <2>3. lease[p].left <= 0
    BY InvParts, Zenon DEF LeaseWithinGrant
  <2> QED BY <2>2, <2>3, ConstantsAssumption
<1>2. ASSUME NEW m \in renewals, m.granted, m.proc = p PROVE ~(m.left > 0)
  <2>1. renewals \subseteq Renewal
    BY InvParts, Zenon DEF TypeOK
  <2>2. m.left \in 0..L
    BY <1>2, <2>1, Zenon DEF Renewal
  <2>3. m.left <= 0
    BY <1>2, InvParts, Zenon DEF LeaseWithinGrant
  <2> QED BY <2>2, <2>3, ConstantsAssumption
<1> QED BY <1>1, <1>2, Zenon DEF Holds

(* Steps of the coordinator keep authority accounted for. *)
LEMMA CoordinatorAccount ==
    ASSUME AuthorityInv, CoordinatorStep, MergeOutage = FALSE
    PROVE  AccountInv'
<1>0. /\ instance \in [Nodes -> Procs \cup {None}] /\ None \notin Procs
      /\ NodeOf \in [Procs -> Nodes] /\ target \in MemberSets
      /\ fence \in [Procs -> {"clear", "own", "other"}]
      /\ CurrentInv /\ OldInv /\ MergeInv /\ ReleaseInv
  BY ConstantsAssumption, InvParts, Zenon DEF TypeOK
<1>1. CASE RestartCoordinator
  BY <1>1, QuietAccount, Zenon DEF RestartCoordinator, durable, procVars
<1>2. ASSUME NEW k \in Kinds, NEW M \in MemberSets, BeginChange(k, M) PROVE AccountInv'
  BY <1>2, SettledAccount, NoOldUnpublished, Zenon DEF BeginChange, Active
<1>3. ASSUME NEW n \in Nodes, BeginFailure(n) PROVE AccountInv'
  BY <1>3, SettledAccount, NoOldUnpublished, Zenon DEF BeginFailure, Active
<1>4. CASE PublishMove \/ PublishPolicy
  <2>1. Publish(target, FALSE) /\ kind' \in {"move", "policy"} /\ UNCHANGED instance
    BY Zenon, <1>4 DEF PublishMove, PublishPolicy
  <2>2. \A p \in Procs : ~HoldsOld(p)
    BY ZenonT(40), <1>4, NoOldUnpublished DEF PublishMove, PublishPolicy
  <2>3. ASSUME NEW p \in Procs, HoldsOld(p)'
        PROVE  /\ pepoch'[p] = epoch /\ instance[NodeOf[p]] = p
               /\ NodeOf[p] \in Members
    <3>1. HoldsCurrent(p) /\ pepoch'[p] = pepoch[p]
      BY Zenon, <2>1, <2>2, <2>3, PublishAccount
    <3> QED BY <1>0, <3>1, Zenon DEF CurrentInv, HoldsCurrent
  <2>4. OldInv'
    BY ZenonT(40), <2>1, <2>3, PublishAccount DEF OldInv
  <2> QED
    BY ZenonT(40), <2>1, <2>4, PublishAccount DEF AccountInv, CurrentInv, MergeInv, ReleaseInv
<1>5. CASE PublishMerge
  <2>1. /\ Publish(target, TRUE) /\ kind = "merge" /\ phase = "planned"
        /\ UNCHANGED <<instance, fence, target, kind, up>>
        /\ stage = "proved" /\ acked = Members /\ target \subseteq Members
    BY ZenonT(40), <1>5, InvParts DEF PublishMerge, TopologyInv, ExecutorInv, procVars
  <2>2. \A p \in Procs : ~HoldsOld(p)
    BY <2>1, NoOldUnpublished, Zenon
  <2>3. \A n \in Members :
           instance[n] # None /\ (up[instance[n]] = "up" => fence[instance[n]] = "own")
    BY <2>1, InvParts, Zenon DEF ExecutorInv
  <2>4. ASSUME NEW p \in Procs, HoldsOld(p)'
        PROVE  /\ pepoch'[p] = epoch /\ instance[NodeOf[p]] = p
               /\ NodeOf[p] \in Members /\ fence[p] = "own"
    <3>1. HoldsCurrent(p) /\ pepoch'[p] = pepoch[p] /\ up[p] = "up"
      BY Zenon, <2>1, <2>2, <2>4, PublishAccount
    <3> QED BY <1>0, <2>3, <3>1 DEF CurrentInv, HoldsCurrent
  <2>5. OldInv'
    BY Zenon, <2>1, <2>4, PublishAccount DEF OldInv
  <2>6. MergeInv'
    BY Zenon, <2>1, <2>3, PublishAccount DEF MergeInv
  <2> QED BY Zenon, <2>1, <2>5, <2>6, PublishAccount DEF AccountInv, CurrentInv, ReleaseInv
<1>6. CASE PublishFailure
  <2>1. /\ Publish(target, TRUE) /\ kind' = "failure" /\ phase = "planned"
        /\ failed' = failed
        /\ instance' = [instance EXCEPT ![failed] = None]
        /\ grants[failed].left = 0 /\ quarantine = 0
    BY Zenon, <1>6 DEF PublishFailure
  <2>2. \A p \in Procs : ~HoldsOld(p)
    BY <2>1, NoOldUnpublished, Zenon
  <2>3. ASSUME NEW p \in Procs, HoldsOld(p)'
        PROVE  /\ pepoch'[p] = epoch /\ instance[NodeOf[p]] = p
               /\ NodeOf[p] \in Members /\ NodeOf[p] # failed
    BY Zenon, <1>0, <2>1, <2>2, <2>3, PublishAccount, ExpiredHoldsNothing
       DEF CurrentInv, HoldsCurrent
  <2>4. OldInv'
    BY Zenon, <1>0, <2>1, <2>3, PublishAccount DEF OldInv
  <2> QED BY Zenon, <2>1, <2>4, PublishAccount DEF AccountInv, CurrentInv, MergeInv, ReleaseInv
<1>7. ASSUME NEW n \in Nodes, PauseWrites(n) PROVE AccountInv'
  BY Zenon, <1>7, SettledAccount, NoOldUnpublished DEF PauseWrites, durable
<1>8. ASSUME NEW n \in Nodes, ResumeWrites(n) PROVE AccountInv'
  <2>1. \A p \in Procs : ~HoldsOld(p)
    BY <1>0, <1>8, NoOldUnpublished, Zenon DEF ResumeWrites, ReleaseInv
  <2> QED BY ZenonT(40), <1>0, <1>8, <2>1, SettledAccount DEF ResumeWrites, durable, MergeInv
<1>9. CASE Abort
  BY <1>9, SettledAccount, NoOldUnpublished, Zenon DEF Abort
<1>10. CASE AbortMergePreparation
  BY <1>10, SettledAccount, NoOldUnpublished, Zenon DEF AbortMergePreparation
<1>11. CASE FinishAbort
  BY <1>11, SettledAccount, NoOldUnpublished, Zenon DEF FinishAbort
<1>12. CASE RetryChange
  BY <1>12, QuietAccount, Zenon DEF RetryChange, durable, procVars
<1>13. ASSUME NEW n \in Nodes, AckInstall(n) PROVE AccountInv'
  BY <1>13, QuietAccount, Zenon DEF AckInstall, durable, procVars
<1>14. CASE SetActivationReady
  BY <1>14, BarrierSettles, SettledAccount, Zenon DEF SetActivationReady
<1>15. ASSUME NEW n \in Nodes, RemoveMember(n) PROVE AccountInv'
  <2>1. CASE UNCHANGED instance
    BY <1>15, <2>1, QuietAccount, Zenon DEF RemoveMember, procVars
  <2>2. CASE instance' = [instance EXCEPT ![n] = None] /\ ~Reachable(n)
    <3>1. /\ kind = "merge" /\ phase = "published" /\ n \notin target /\ target = Members
          /\ UNCHANGED <<epoch, topo, kind, phase, target, ready, failed, up, fence>>
          /\ stage' = "remove"
      BY <1>15, InvParts, Zenon DEF RemoveMember, procVars, Removed, TopologyInv
    <3>2. ASSUME NEW p \in Procs, Holds(p)'
          PROVE  Holds(p) /\ pepoch'[p] = pepoch[p] /\ up[p] = "up"
      BY <3>2, CoordinatorHolds, HoldsUp, Zenon DEF AuthorityInv
    <3>3. ASSUME NEW p \in Procs, HoldsCurrent(p)'
          PROVE  HoldsCurrent(p) /\ NodeOf[p] # n
      <4>1. HoldsCurrent(p)
        BY <3>1, <3>2, <3>3, Zenon DEF HoldsCurrent
      <4>2. NodeOf[p] \in Members
        BY <4>1, InvParts, Zenon DEF CurrentInv
      <4> QED BY <3>1, <4>1, <4>2, Zenon
    <3>4. ASSUME NEW p \in Procs, HoldsOld(p)'
          PROVE  HoldsOld(p) /\ NodeOf[p] # n /\ pepoch'[p] = pepoch[p]
      <4>1. HoldsOld(p) /\ pepoch'[p] = pepoch[p] /\ up[p] = "up"
        BY <3>1, <3>2, <3>4, Zenon DEF HoldsOld
      <4>2. instance[NodeOf[p]] = p
        BY <4>1, InvParts, Zenon DEF OldInv
      <4>3. NodeOf[p] = n => Reachable(n)
        BY <4>1, <4>2, ConstantsAssumption, Zenon DEF Reachable
      <4> QED BY <2>2, <4>1, <4>3, Zenon
    <3>5. \A m \in Nodes \ {n} : instance'[m] = instance[m]
      BY <1>0, <2>2, Zenon
    <3>6. CurrentInv'
      BY Zenon, <1>0, <3>1, <3>3, <3>5 DEF CurrentInv, Members
    <3>7. OldInv'
      BY Zenon, <1>0, <3>1, <3>4, <3>5 DEF OldInv
    <3>8. MergeInv'
      BY ZenonT(40), <1>0, <3>1, <3>4, <3>5 DEF MergeInv, MemberSets
    <3> QED BY <3>1, <3>6, <3>7, <3>8, Zenon DEF AccountInv, ReleaseInv
  <2> QED BY <1>15, <2>1, <2>2, Zenon DEF RemoveMember
<1>16. CASE MembersRemoved
  <2>1. /\ kind = "merge" /\ phase = "published" /\ stage = "remove" /\ acked = Removed
        /\ UNCHANGED <<epoch, topo, kind, phase, target, ready, failed, instance, fence, up>>
        /\ stage' = "lease"
    BY <1>16, Zenon DEF MembersRemoved, durable, procVars
  <2>2. ASSUME NEW p \in Procs, Holds(p)'
        PROVE  Holds(p) /\ pepoch'[p] = pepoch[p] /\ up[p] = "up"
    BY <2>2, CoordinatorHolds, HoldsUp, Zenon DEF AuthorityInv
  <2>3. ASSUME NEW p \in Procs, HoldsOld(p) PROVE NodeOf[p] \in target
    <3>1. /\ instance[NodeOf[p]] = p /\ NodeOf[p] \in Base /\ up[p] = "up"
      BY ZenonT(40), <1>0, <2>1, <2>3, HoldsUp DEF OldInv, HoldsOld, Base
    <3> QED BY <1>0, <2>1, <2>3, <3>1, InvParts, Zenon
        DEF ExecutorInv, HoldsOld, Removed
  <2> QED
    BY ZenonT(40), <1>0, <2>1, <2>2, <2>3 DEF AccountInv, CurrentInv, OldInv, MergeInv, ReleaseInv,
       HoldsCurrent, HoldsOld, Members
<1>17. ASSUME NEW n \in Nodes, AckLease(n) PROVE AccountInv'
  <2>1. CASE stage = "lease"
    BY Zenon, <1>17, <2>1, QuietAccount DEF AckLease, durable, procVars
  <2>2. CASE kind # "merge"
    <3>1. /\ UNCHANGED <<epoch, topo, kind, phase, target, ready, failed, instance, fence, up>>
          /\ stage' = "lease"
      BY Zenon, <1>17 DEF AckLease, durable, procVars
    <3>2. ASSUME NEW p \in Procs, Holds(p)'
          PROVE  Holds(p) /\ pepoch'[p] = pepoch[p]
      BY Zenon, <3>2, CoordinatorHolds DEF AuthorityInv
    <3> QED
      BY ZenonT(30), <1>0, <2>2, <3>1, <3>2 DEF AccountInv, CurrentInv, OldInv, MergeInv, ReleaseInv,
         HoldsCurrent, HoldsOld, Members
  <2> QED BY <1>17, <2>1, <2>2, Zenon DEF AckLease
<1>18. CASE MembersLeased
  BY ZenonT(40), <1>0, <1>18, LeasedSettles, SettledAccount, InvParts
     DEF MembersLeased, ExecutorInv, MergeInv
<1>19. CASE WritesResumed
  BY <1>0, <1>19, SettledAccount, Zenon DEF WritesResumed, ReleaseInv
<1>20. ASSUME NEW n \in Nodes, StopRemoved(n) PROVE AccountInv'
  <2>1. target = Members /\ n \notin Members /\ phase' = phase
    BY ZenonT(40), <1>20, InvParts DEF StopRemoved, Removed, TopologyInv
  <2>2. \A m \in Members : instance'[m] = instance[m]
    BY ZenonT(40), <1>0, <1>20, <2>1 DEF StopRemoved, MemberSets
  <2> QED BY <1>20, <2>1, <2>2, NoOldUnpublished, SettledAccount, Zenon DEF StopRemoved
<1>21. CASE Complete
  BY <1>21, NoOldUnpublished, SettledAccount, Zenon DEF Complete
<1>22. ASSUME NEW x \in Nodes, RecoverJoin(x) PROVE AccountInv'
  <2>1. /\ Publish(Base, FALSE) /\ kind = "move" /\ phase = "published" /\ ~ready
        /\ kind' = "recovery" /\ x \notin Base
        /\ instance' = [instance EXCEPT ![x] = None]
        /\ \A e \in 1..(epoch - 1) : topo'[e] = topo[e]
    BY <1>22, ConstantsAssumption, InvParts
        DEF RecoverJoin, Publish, TypeOK, Epochs
  <2>2. ASSUME NEW p \in Procs, HoldsOld(p)' PROVE HoldsOld(p)
    BY Zenon, <1>0, <2>1, <2>2, PublishAccount DEF CurrentInv
  <2>3. epoch > 1 /\ epoch \in Nat
    BY ZenonT(40), <2>1, PublishAccount, InvParts DEF TopologyInv
  <2>4. ASSUME NEW p \in Procs, HoldsOld(p)'
        PROVE  /\ pepoch'[p] = epoch' - 2 /\ NodeOf[p] \in topo'[pepoch'[p]]
               /\ instance'[NodeOf[p]] = p
    <3>1. /\ pepoch'[p] = epoch - 1 /\ epoch' = epoch + 1 /\ NodeOf[p] \in Base
          /\ instance[NodeOf[p]] = p
      <4>1. epoch' = epoch + 1 /\ pepoch'[p] = pepoch[p]
        BY Zenon, <2>1, <2>4, PublishAccount
      <4>2. HoldsOld(p)
        BY <2>2, <2>4, ZenonT(30)
      <4>3. pepoch[p] = epoch - 1 /\ instance[NodeOf[p]] = p /\ NodeOf[p] \in topo[pepoch[p]]
        BY <2>1, <4>2, InvParts, ZenonT(30) DEF OldInv
      <4> QED BY <4>1, <4>3, Zenon DEF Base
    <3>2. topo'[epoch - 1] = Base
      BY SMTT(30), <2>1, <2>3, Zenon DEF Base
    <3>3. instance'[NodeOf[p]] = p
      <4>1. NodeOf[p] # x /\ NodeOf[p] \in Nodes
        BY ZenonT(40), <2>1, <3>1, ConstantsAssumption
      <4>2. instance \in [Nodes -> Procs \cup {None}]
        BY InvParts, Zenon DEF TypeOK
      <4> QED BY <2>1, <3>1, <4>1, <4>2, Zenon
    <3> QED BY <2>3, <3>1, <3>2, <3>3
  <2> QED
    BY ZenonT(40), <2>1, <2>4, PublishAccount
       DEF AccountInv, CurrentInv, OldInv, MergeInv, ReleaseInv
<1>23. ASSUME NEW n \in Nodes, ConfirmFailure(n) PROVE AccountInv'
  BY <1>23, QuietAccount, Zenon DEF ConfirmFailure, durable, procVars
<1>24. CASE ProveMergeLeases
  BY <1>24, QuietAccount, Zenon DEF ProveMergeLeases, durable, procVars
<1> QED
  BY ZenonT(30), <1>1, <1>2, <1>3, <1>4, <1>5, <1>6, <1>7, <1>8, <1>9, <1>10, <1>11, <1>12,
     <1>13, <1>14, <1>15, <1>16, <1>17, <1>18, <1>19, <1>20, <1>21, <1>22,
     <1>23, <1>24
     DEF CoordinatorStep

-----------------------------------------------------------------------------
(* The invariant holds at the start. *)
LEMMA AuthorityInit == Init => AuthorityInv
<1> SUFFICES ASSUME Init PROVE AuthorityInv
  BY Zenon
<1>1. TypeOK
  <2>1. /\ epoch \in Epochs /\ target \in MemberSets /\ quarantine \in 0..L
        /\ InitMembers \subseteq Nodes
    <3>1. InitMembers \in MemberSets /\ L \in Nat /\ 1 \in Epochs
      BY ConstantsAssumption DEF Epochs
    <3>2. epoch = 1 /\ target = InitMembers /\ quarantine = L
      BY Zenon DEF Init
    <3> QED BY <3>1, <3>2 DEF MemberSets
  <2>2. topo \in [Epochs -> SUBSET Nodes]
    BY <2>1, Zenon DEF Init
  <2>3. NoLease \in Lease /\ NoGrant \in Grant
    BY ConstantsAssumption DEF NoLease, NoGrant, Lease, Grant
  <2>4. lease \in [Procs -> Lease] /\ grants \in [Nodes -> Grant]
    BY <2>3, Zenon DEF Init
  <2> QED BY <2>1, <2>2, <2>4, Zenon DEF Init, TypeOK
<1>2. \A p \in Procs : ~Holds(p)
  BY DEF Init, Holds, NoLease
<1>3. ProcessInv /\ InstanceInv /\ LeaseWithinGrant
  BY ConstantsAssumption
      DEF Init, ProcessInv, InstanceInv, LeaseWithinGrant, NoLease, NoGrant
<1>4. TopologyInv
  <2>1. \A e \in 1..epoch : e = 1
    BY DEF Init
  <2>2. 1 \in Epochs /\ InitMembers # {}
    BY ConstantsAssumption DEF Epochs, MemberSets
  <2>3. topo[1] # {}
    BY <2>2, Zenon DEF Init
  <2> QED BY ZenonT(40), <2>1, <2>3 DEF Init, TopologyInv
<1>5. ExecutorInv
  BY Zenon DEF Init, ExecutorInv
<1> QED
  BY ZenonT(30), <1>1, <1>2, <1>3, <1>4, <1>5 DEF AuthorityInv, StateInv, AccountInv, CurrentInv,
     OldInv, MergeInv, ReleaseInv, HoldsCurrent, HoldsOld, Init

(* Every step keeps what does not depend on removals. *)
LEMMA StateStep == StateInv /\ [Next]_vars => StateInv'
<1> SUFFICES ASSUME StateInv, [Next]_vars PROVE StateInv'
  BY Zenon
<1>1. TypeOK'
  <2>1. CASE UNCHANGED vars
    BY <2>1 DEF vars, StateInv, TypeOK
  <2> QED BY <2>1, CoordinatorType, ProcessType, ZenonT(30) DEF Next
<1> QED
  BY <1>1, GrantStep, ProcessInvStep, InstanceStep, TopologyStep, ExecutorStep, Zenon
     DEF StateInv

(* Every step keeps the whole invariant. *)
LEMMA AuthorityStep ==
    ASSUME MergeOutage = FALSE, AuthorityInv, [Next]_vars
    PROVE  AuthorityInv'
<1>1. AccountInv'
  BY ZenonT(40), ProcessAccount, CoordinatorAccount DEF Next
<1> QED BY <1>1, StateStep, Zenon DEF AuthorityInv

(* Nobody serves stale reads: what the leases and the accounting are for.  Two
   processes that answer for one range under different topologies are either
   the same owner, or the writer is behind the write fence. *)
LEMMA AuthorityExcludes == AuthorityInv => NoStaleReader
<1> SUFFICES ASSUME AuthorityInv, NEW r \in Ranges, NEW p \in Procs, NEW q \in Procs,
                    CanWrite(p, r), CanRead(q, r)
             PROVE  p = q
  BY Zenon DEF NoStaleReader
<1>1. /\ Holds(p) /\ Owner[r][topo[pepoch[p]]] = NodeOf[p] /\ fence[p] = "clear"
      /\ Holds(q) /\ Owner[r][topo[pepoch[q]]] = NodeOf[q]
      /\ up[p] = "up" /\ up[q] = "up"
  BY Zenon DEF CanWrite, CanRead, Holds
<1>2. ASSUME NEW s \in Procs, Holds(s) PROVE instance[NodeOf[s]] = s
  BY Zenon, <1>2, InvParts DEF CurrentInv, OldInv, HoldsCurrent, HoldsOld
<1>3. SUFFICES NodeOf[p] = NodeOf[q]
  BY ZenonT(40), <1>1, <1>2
<1>4. CASE pepoch[p] = pepoch[q]
  BY ZenonT(40), <1>1, <1>4
<1>5. ASSUME NEW s \in Procs, NEW t \in Procs, HoldsCurrent(s), HoldsOld(t),
             Owner[r][topo[pepoch[s]]] = NodeOf[s], Owner[r][topo[pepoch[t]]] = NodeOf[t],
             up[s] = "up", fence[s] = "clear" \/ fence[t] = "clear"
      PROVE  NodeOf[s] = NodeOf[t]
  <2>1. /\ phase = "published" /\ ready /\ kind \in {"merge", "failure"}
        /\ Owner[r][Base] = NodeOf[t] /\ Owner[r][Members] = NodeOf[s]
        /\ NodeOf[t] \in Base /\ NodeOf[s] \in Members /\ instance[NodeOf[s]] = s
        /\ kind = "failure" => NodeOf[t] # failed
        /\ kind = "merge" /\ NodeOf[t] \notin target => fence[t] # "clear"
    BY ZenonT(40), <1>5, InvParts
        DEF CurrentInv, OldInv, HoldsCurrent, Base, Members
  <2>2. /\ target = Members /\ Members \subseteq Base
        /\ Base \in MemberSets /\ Members \in MemberSets
        /\ kind = "failure" => target = Base \ {failed}
    <3>1. /\ target = Members /\ Members \subseteq Base /\ epoch > 1
          /\ kind = "failure" => target = Base \ {failed}
          /\ \A e \in 1..epoch : topo[e] # {}
      BY ZenonT(40), <2>1, InvParts DEF TopologyInv
    <3>2. epoch \in Epochs /\ topo \in [Epochs -> SUBSET Nodes]
      BY InvParts, Zenon DEF TypeOK
    <3>4. epoch > 1 /\ epoch \in Epochs
      BY <3>1, <3>2, Zenon
    <3>5. MaxEpoch \in Nat
      BY ConstantsAssumption, Zenon
    <3>3. epoch - 1 \in Epochs /\ epoch - 1 \in 1..epoch /\ epoch \in 1..epoch
      BY <3>4, <3>5 DEF Epochs
    <3> QED BY <3>1, <3>2, <3>3, Zenon DEF Base, Members, MemberSets
  <2>3. CASE NodeOf[t] \in Members
    BY <2>1, <2>2, <2>3, OwnersStay
  <2>4. CASE NodeOf[t] \notin Members
    <3>1. kind = "merge" /\ fence[t] # "clear"
      BY <2>1, <2>2, <2>4, Zenon
    <3>2. fence[s] # "clear"
      BY Zenon, <1>5, <2>1, <2>2, <2>4, <3>1, InvParts DEF MergeInv
    <3> QED BY <1>5, <3>1, <3>2, Zenon
  <2> QED BY <2>3, <2>4, Zenon
<1>6. CASE HoldsCurrent(p) /\ HoldsOld(q)
  BY ZenonT(40), <1>1, <1>5, <1>6
<1>7. CASE HoldsOld(p) /\ HoldsCurrent(q)
  BY <1>1, <1>5, <1>7, Zenon
<1>8. CASE HoldsOld(p) /\ HoldsOld(q)
  BY Zenon, <1>4, <1>8, InvParts DEF OldInv
<1> QED BY Zenon, <1>1, <1>4, <1>6, <1>7, <1>8 DEF HoldsCurrent, HoldsOld

(* Every variable keeps its type, whatever is lost, restarted or unreachable. *)
THEOREM TypeCorrect == Spec => []TypeOK
<1>1. StateInv => TypeOK
  BY Zenon DEF StateInv
<1>2. Init => StateInv
  BY AuthorityInit, ZenonT(30) DEF AuthorityInv
<1> QED BY <1>1, <1>2, StateStep, PTL DEF Spec

(* renew_lease_once discounts the whole round trip, so a node's own view of its
   lease ends no later than the grant the coordinator waits for, or than the
   startup quarantine that stands in for a lost grant. *)
THEOREM LeasesWithinGrants == Spec => []LeaseWithinGrant
<1>1. StateInv => LeaseWithinGrant
  BY ZenonT(30) DEF StateInv
<1>2. Init => StateInv
  BY AuthorityInit, Zenon DEF AuthorityInv
<1> QED BY <1>1, <1>2, StateStep, PTL DEF Spec

(* As long as a removed member that does not answer is really gone, no process
   answers reads of a range that another process accepts writes to, over any
   sequence of joins, merges, policy changes, failovers, recoveries, crashes
   and coordinator restarts. *)
THEOREM StaleReadersExcluded ==
    ASSUME MergeOutage = FALSE
    PROVE  Spec => []NoStaleReader
<1>1. AuthorityInv /\ [Next]_vars => AuthorityInv'
  BY Zenon, AuthorityStep
<1> QED BY <1>1, AuthorityInit, AuthorityExcludes, PTL DEF Spec
-----------------------------------------------------------------------------
(* Fences. *)

(* A step that sets no fence: whoever is fenced after it was fenced before, and
   a new instance is a process that has just started. *)
NoNewFence ==
    /\ \A p \in Procs : fence'[p] = "own" => fence[p] = "own"
    /\ \A p \in Procs : up'[p] = "new" => up[p] = "new"
    /\ \A n \in Nodes : \/ instance'[n] \in {None, instance[n]}
                        \/ instance'[n] \in Procs /\ up[instance'[n]] = "new"

(* The executor goes on without completing the change or acknowledging a release. *)
NothingReleased ==
    /\ kind' = kind \/ (kind = "move" /\ kind' = "recovery") \/ \A p \in Procs : fence'[p] # "own"
    /\ phase' \in {"cleanup", "done"} => phase \in {"cleanup", "done"} /\ target' = target
    /\ phase' = "published" /\ stage' = "release" =>
          acked' = {} \/ (phase = "published" /\ stage = "release" /\ acked' = acked)

LEMMA QuietFence ==
    ASSUME StateInv, FenceInv, NoNewFence, NothingReleased
    PROVE  FenceInv'
<1>1. /\ instance \in [Nodes -> Procs \cup {None}] /\ target \subseteq Nodes /\ acked \subseteq Nodes
      /\ kind # "move" \/ \A p \in Procs : fence[p] # "own"
  BY Zenon DEF StateInv, TypeOK, FenceInv, MemberSets
<1>2. ASSUME NEW n \in Nodes, WriteFenced(n)' PROVE WriteFenced(n)
  BY <1>1, <1>2, ZenonT(30) DEF NoNewFence, WriteFenced, FenceInv
<1>3. ASSUME NEW p \in Procs, fence'[p] = "own" PROVE up'[p] # "new" /\ kind' \in {"policy", "merge"}
  BY <1>1, <1>3, Zenon DEF NoNewFence, NothingReleased, FenceInv
<1>4. phase' = "published" /\ stage' = "release" => \A n \in acked' : ~WriteFenced(n)'
  BY <1>1, <1>2, Zenon DEF NothingReleased, FenceInv
<1>5. CompletedChangeLeavesNoFence'
  BY <1>1, <1>2, Zenon DEF NothingReleased, FenceInv, CompletedChangeLeavesNoFence, WriteFenced
<1> QED
  BY <1>3, <1>4, <1>5, Zenon DEF FenceInv

LEMMA ProcessFence == StateInv /\ FenceInv /\ (Tick \/ ProcessStep) => FenceInv'
<1> SUFFICES ASSUME StateInv, FenceInv, Tick \/ ProcessStep PROVE NoNewFence /\ NothingReleased
  BY QuietFence, Zenon
<1>0. /\ instance \in [Nodes -> Procs \cup {None}] /\ NodeOf \in [Procs -> Nodes]
      /\ fence \in [Procs -> {"clear", "own", "other"}] /\ up \in [Procs -> {"new", "up", "dead"}]
  BY ConstantsAssumption, Zenon DEF StateInv, TypeOK
<1> USE DEF NoNewFence, NothingReleased, durable, executor, procVars
<1>1. CASE Tick
  BY <1>0, <1>1, Zenon DEF Tick
<1>2. ASSUME NEW p \in Procs, Crash(p) PROVE NoNewFence /\ NothingReleased
  <2>1. /\ \A q \in Procs : fence'[q] = IF q = p THEN "clear" ELSE fence[q]
        /\ \A q \in Procs : up'[q] = IF q = p THEN "dead" ELSE up[q]
    BY <1>0, <1>2, Zenon DEF Crash, ProcessGone
  <2> QED BY <1>0, <1>2, <2>1, Zenon DEF Crash
<1>3. ASSUME NEW p \in Procs, NEW e \in Epochs, Register(p, e) PROVE NoNewFence /\ NothingReleased
  <2>1. /\ \A n \in Nodes : instance'[n] = IF n = NodeOf[p] THEN p ELSE instance[n]
        /\ \A q \in Procs : up'[q] = IF q = p THEN "up" ELSE up[q]
        /\ up[p] = "new"
    BY <1>0, <1>3, Zenon DEF Register
  <2>2. UNCHANGED <<kind, phase, target, stage, acked, fence>>
    BY <1>3, Zenon DEF Register
  <2>3. NoNewFence
    BY <1>0, <2>1, <2>2, ZenonT(30)
  <2> QED BY <2>2, <2>3, Zenon
<1>4. ASSUME NEW p \in Procs, NEW e \in Epochs, InstallTopology(p, e) PROVE NoNewFence /\ NothingReleased
  BY <1>4, Zenon DEF InstallTopology
<1>5. ASSUME NEW p \in Procs, SendRenewal(p) PROVE NoNewFence /\ NothingReleased
  BY <1>5, Zenon DEF SendRenewal
<1>6. ASSUME NEW m \in renewals, GrantLease(m) \/ ReceiveLease(m) \/ DropRenewal(m)
      PROVE  NoNewFence /\ NothingReleased
  BY <1>6, Zenon DEF GrantLease, ReceiveLease, DropRenewal
<1> QED
  BY <1>1, <1>2, <1>3, <1>4, <1>5, <1>6, Zenon DEF ProcessStep

LEMMA CoordinatorFence == StateInv /\ FenceInv /\ CoordinatorStep => FenceInv'
<1> SUFFICES ASSUME StateInv, FenceInv, CoordinatorStep PROVE FenceInv'
  BY Zenon
<1>0. /\ instance \in [Nodes -> Procs \cup {None}] /\ None \notin Procs
      /\ fence \in [Procs -> {"clear", "own", "other"}] /\ up \in [Procs -> {"new", "up", "dead"}]
      /\ target \subseteq Nodes /\ acked \subseteq Nodes
  BY ConstantsAssumption, Zenon DEF StateInv, TypeOK, MemberSets
<1> USE DEF durable, executor, procVars
<1>1. CASE RestartCoordinator \/ RetryChange
  BY <1>1, QuietFence, Zenon DEF NoNewFence, NothingReleased, RestartCoordinator, RetryChange
<1>2. ASSUME NewChangeId, phase' = "planned", UNCHANGED <<instance, up>> PROVE FenceInv'
  <2>1. \A p \in Procs : fence'[p] # "own"
    BY <1>0, <1>2, Zenon DEF NewChangeId
  <2> QED BY <1>2, <2>1, QuietFence, Zenon DEF NoNewFence, NothingReleased
<1>3. ASSUME NEW k \in Kinds, NEW M \in MemberSets, BeginChange(k, M) PROVE FenceInv'
  BY <1>2, <1>3, Zenon DEF BeginChange
<1>4. ASSUME NEW n \in Nodes, BeginFailure(n) PROVE FenceInv'
  BY <1>2, <1>4, Zenon DEF BeginFailure
<1>5. CASE PublishMove \/ PublishPolicy \/ PublishMerge
  BY <1>5, QuietFence, Zenon DEF NoNewFence, NothingReleased, PublishMove, PublishPolicy, PublishMerge, Publish
<1>6. CASE PublishFailure
  <2>1. \A n \in Nodes : instance'[n] \in {None, instance[n]}
    BY <1>0, <1>6, Zenon DEF PublishFailure
  <2> QED BY <1>6, <2>1, QuietFence, Zenon DEF NoNewFence, NothingReleased, PublishFailure, Publish
<1>7. ASSUME NEW n \in Nodes, PauseWrites(n) PROVE FenceInv'
  <2>1. /\ \A p \in Procs : p # instance[n] => fence'[p] = fence[p]
        /\ up[instance[n]] = "up" /\ kind \in {"policy", "merge"} /\ phase = "planned"
        /\ UNCHANGED <<up, kind, phase>>
    BY <1>0, <1>7, Zenon DEF PauseWrites, Reachable
  <2>2. \A p \in Procs : fence'[p] = "own" => up'[p] # "new" /\ kind' \in {"policy", "merge"}
    BY <2>1, Zenon DEF FenceInv
  <2> QED BY <2>1, <2>2, Zenon DEF FenceInv, CompletedChangeLeavesNoFence
<1>8. ASSUME NEW n \in Nodes, ResumeWrites(n) PROVE FenceInv'
  <2>1. /\ \A p \in Procs : fence'[p] = IF p = instance[n] /\ fence[p] = "own" THEN "clear" ELSE fence[p]
        /\ instance[n] \in Procs /\ acked' = acked \cup {n} /\ UNCHANGED <<up, kind, phase, target, instance>>
        /\ phase \in {"aborting", "published"}
        /\ phase = "published" => stage = "release"
    BY <1>0, <1>8, Zenon DEF ResumeWrites, Reachable
  <2>2. ASSUME NEW m \in acked', phase' = "published" PROVE ~WriteFenced(m)'
    <3>1. m \in Nodes /\ instance[m] \in Procs \cup {None} /\ UNCHANGED instance
      BY <1>0, <2>1, <2>2, Zenon
    <3>2. CASE m = n
      BY <2>1, <3>1, <3>2, Zenon DEF WriteFenced
    <3>3. CASE m \in acked
      <4>1. ~WriteFenced(m)
        BY <2>1, <2>2, <3>3, Zenon DEF FenceInv
      <4> QED BY <2>1, <3>1, <4>1, Zenon DEF WriteFenced
    <3> QED BY <2>1, <2>2, <3>2, <3>3, ZenonT(30)
  <2> QED BY <2>1, <2>2, Zenon DEF FenceInv, CompletedChangeLeavesNoFence
<1>9. CASE Abort \/ AbortMergePreparation \/ FinishAbort
  BY <1>9, QuietFence, Zenon DEF NoNewFence, NothingReleased, Abort, AbortMergePreparation, FinishAbort
<1>10. ASSUME NEW n \in Nodes, AckInstall(n) \/ AckLease(n) PROVE FenceInv'
  BY <1>10, QuietFence, Zenon DEF NoNewFence, NothingReleased, AckInstall, AckLease
<1>11. CASE SetActivationReady \/ MembersRemoved \/ Complete
  BY <1>11, QuietFence, Zenon DEF NoNewFence, NothingReleased, SetActivationReady, MembersRemoved, Complete
<1>12. ASSUME NEW n \in Nodes, RemoveMember(n) PROVE FenceInv'
  <2>1. \A m \in Nodes : instance'[m] \in {None, instance[m]}
    BY <1>0, <1>12, Zenon DEF RemoveMember
  <2> QED BY <1>12, <2>1, QuietFence, Zenon DEF NoNewFence, NothingReleased, RemoveMember
<1>13. CASE MembersLeased
  <2>1. CASE kind \in {"policy", "merge"}
    BY <1>13, <2>1, QuietFence, Zenon DEF NoNewFence, NothingReleased, MembersLeased
  <2>2. CASE kind \notin {"policy", "merge"}
    <3>1. \A p \in Procs : fence'[p] # "own"
      BY <1>13, <2>2, Zenon DEF MembersLeased, FenceInv
    <3>2. stage' = "idle" /\ UNCHANGED instance
      BY <1>13, <2>2, Zenon DEF MembersLeased
    <3>3. CompletedChangeLeavesNoFence'
      <4>1. target' = target
        BY <1>13, Zenon DEF MembersLeased
      <4> QED BY <1>0, <3>1, <3>2, <4>1, Zenon DEF CompletedChangeLeavesNoFence
    <3> QED BY <3>1, <3>2, <3>3, Zenon DEF FenceInv
  <2> QED BY <2>1, <2>2, Zenon
<1>14. CASE WritesResumed
  <2>1. /\ \A n \in target : ~WriteFenced(n)
        /\ UNCHANGED <<fence, up, kind, instance, target>> /\ stage' = "idle"
    BY <1>14, Zenon DEF WritesResumed, FenceInv
  <2>2. CompletedChangeLeavesNoFence'
    BY <2>1, Zenon DEF CompletedChangeLeavesNoFence, WriteFenced
  <2> QED BY <2>1, <2>2, Zenon DEF FenceInv
<1>15. ASSUME NEW n \in Nodes, StopRemoved(n) PROVE FenceInv'
  <2>1. \A m \in Nodes : instance'[m] \in {None, instance[m]}
    BY <1>0, <1>15, Zenon DEF StopRemoved
  <2>2. /\ \A q \in Procs : fence'[q] = "own" => fence[q] = "own"
        /\ \A q \in Procs : up'[q] = "new" => up[q] = "new"
    BY <1>0, <1>15, Zenon DEF StopRemoved, ProcessGone
  <2> QED BY <1>15, <2>1, <2>2, QuietFence, Zenon DEF NoNewFence, NothingReleased, StopRemoved
<1>16. ASSUME NEW x \in Nodes, RecoverJoin(x) PROVE FenceInv'
  <2>1. \A m \in Nodes : instance'[m] \in {None, instance[m]}
    BY <1>0, <1>16, Zenon DEF RecoverJoin
  <2> QED BY <1>16, <2>1, QuietFence, Zenon DEF NoNewFence, NothingReleased, RecoverJoin, Publish
<1>17. ASSUME NEW n \in Nodes, ConfirmFailure(n) PROVE FenceInv'
  BY <1>17, QuietFence, Zenon DEF NoNewFence, NothingReleased, ConfirmFailure
<1>18. CASE ProveMergeLeases
  BY <1>18, QuietFence, Zenon DEF NoNewFence, NothingReleased, ProveMergeLeases
<1> QED
  BY <1>1, <1>3, <1>4, <1>5, <1>6, <1>7, <1>8, <1>9, <1>10, <1>11, <1>12, <1>13, <1>14, <1>15, <1>16,
     <1>17, <1>18, ZenonT(30) DEF CoordinatorStep

(* The release in finish_direct_merge and finish_published_change reaches every
   member of the new topology, whatever crashes, restarts, retries and returns
   happen on the way, and an outage that is taken for a stop changes nothing. *)
THEOREM CompletedChangesReleaseWrites == Spec => []CompletedChangeLeavesNoFence
<1>1. Init => StateInv /\ FenceInv
  <2>1. ASSUME Init PROVE FenceInv
    <3>1. /\ \A p \in Procs : fence[p] # "own"
          /\ \A n \in target : instance[n] = None
          /\ phase = "done"
      BY <2>1, ConstantsAssumption, Zenon DEF Init, MemberSets
    <3> QED BY <3>1, Zenon DEF FenceInv, CompletedChangeLeavesNoFence
  <2> QED BY <2>1, AuthorityInit, Zenon DEF AuthorityInv
<1>2. StateInv /\ FenceInv /\ [Next]_vars => (StateInv /\ FenceInv)'
  <2>1. ASSUME StateInv, FenceInv, UNCHANGED vars PROVE FenceInv'
    BY <2>1, QuietFence, Zenon DEF NoNewFence, NothingReleased, vars
  <2> QED BY <2>1, StateStep, ProcessFence, CoordinatorFence, Zenon DEF Next
<1>3. FenceInv => CompletedChangeLeavesNoFence
  BY Zenon DEF FenceInv
<1> QED BY <1>1, <1>2, <1>3, PTL DEF Spec
===============================================================================

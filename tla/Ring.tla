-------------------------------- MODULE Ring --------------------------------
(***************************************************************************)
(* Placement on the hash ring: the topology snapshot's sorted token        *)
(* assignments, who owns and who follows a token, the ranges between       *)
(* tokens, and what changes between two topologies.                        *)
(***************************************************************************)
EXTENDS Clockwise, Sequences, FiniteSets, SequencesExt

CONSTANT RFs    \* the desired_replication_factors in use

Policies == {"OwnerOnly", "FirstSuccessor", "AllReplicas"}

(* TopologyConfig; the largest replica lag is left to the status a range
   reports. *)
Configs ==
    [rf : RFs, policy : Policies, minCopies : 0..2, minHealthy : 0..2]

ValidConfig(c) ==
    /\ c.rf # 0
    /\ c.policy = "FirstSuccessor" => c.rf >= 2
    /\ c.minCopies \in 1..c.rf
    /\ c.minHealthy \in 0..(c.rf - 1)

(* The assignments of a member set: <<token, node>> in the order the code sorts
   them. *)
Assignments(M) ==
    SetToSortSeq(UNION {{<<t, n>> : t \in TokenOf[n]} : n \in M},
                 LAMBDA p, q : p[1] < q[1] \/ (p[1] = q[1] /\ p[2] < q[2]))

(* Mistake: the search ends behind an assignment at the token itself. *)
PartitionPoint_AfterEqual(A, t) == Cardinality({i \in DOMAIN A : A[i][1] <= t})

(* The number of assignments below a token. *)
PartitionPoint(A, t) == Cardinality({i \in DOMAIN A : A[i][1] < t})

(* The nodes met from the owner's assignment on, each once. *)
Walk(M, t) ==
    LET A == Assignments(M)
        at(k) == A[((PartitionPoint(A, t) + k) % Len(A)) + 1][2]
        met == [k \in 1..Len(A) |-> at(k - 1)]
    IN  FoldLeft(LAMBDA seen, n : IF Contains(seen, n) THEN seen
                                  ELSE Append(seen, n), <<>>, met)

(* The walks of every topology, tabulated. *)
WalkOf == [p \in MemberSets \X Tokens |-> Walk(p[1], p[2])] @@ <<>>

(* replica_node_ids_for_token: the owner first. *)
ReplicaNodeIds(M, rf, t) ==
    SubSeq(WalkOf[<<M, t>>], 1, Min({rf, Cardinality(M)}))

OwnerForToken(M, t) == WalkOf[<<M, t>>][1]

Boundaries(M) == UNION {TokenOf[n] : n \in M}

(* The boundary an interval ending at a boundary starts behind: the one before
   it, or the last one for the first. *)
Before(B, end) ==
    IF \E b \in B : b < end THEN Max({b \in B : b < end}) ELSE Max(B)

DerivedRangesOf ==
    [p \in MemberSets \X RFs |->
        {LET ids == ReplicaNodeIds(p[1], p[2], end)
         IN  [start |-> Before(Boundaries(p[1]), end), end |-> end,
              owner |-> Head(ids), followers |-> Tail(ids)] :
         end \in Boundaries(p[1])}] @@ <<>>

(* A TopologySnapshot. *)
Topology(e, M, c) == [epoch |-> e, members |-> M, config |-> c]

DerivedRanges(T) == DerivedRangesOf[<<T.members, T.config.rf>>]

ReplicasAt(T, t) == ReplicaNodeIds(T.members, T.config.rf, t)

(* token_in_range, interval_contains: (start, end], wrapping; one boundary
   alone stands for the whole ring. *)
InRange(r, t) ==
    CASE r.start < r.end -> t > r.start /\ t <= r.end
      [] r.start > r.end -> t > r.start \/ t <= r.end
      [] OTHER -> TRUE

Overlap(r, s) == InRange(r, s.end) \/ InRange(s, r.end)

(* The old ranges that end in a target range. *)
Constituents(old, r) == {p \in DerivedRanges(old) : InRange(r, p.end)}

(* Mistake: only the target's tokens cut the ring. *)
DeltaBounds_TargetOnly(old, new) == Boundaries(new.members)

DeltaBounds(old, new) == Boundaries(old.members) \cup Boundaries(new.members)

(* topology_delta: the intervals whose owner changes. *)
MovingRanges(old, new) ==
    LET B == DeltaBounds(old, new) IN
    {[start |-> Before(B, end), end |-> end,
      src |-> OwnerForToken(old.members, end),
      dst |-> OwnerForToken(new.members, end)] :
        end \in {b \in B : OwnerForToken(old.members, b)
                             # OwnerForToken(new.members, b)}}

(* topology_delta: the followers a target interval has to gain. *)
Obligations(old, new) ==
    LET B == DeltaBounds(old, new) IN
    UNION {{[start |-> Before(B, end), end |-> end,
             src |-> OwnerForToken(old.members, end), dst |-> n] :
                n \in ToSet(Tail(ReplicasAt(new, end)))
                         \ ToSet(ReplicasAt(old, end))} : end \in B}

-----------------------------------------------------------------------------
(* The node met as number i from t in M, by distance alone. *)
ClockwiseRank(M, t, n) ==
    Cardinality({m \in M \ {n} : ~FirstMet({m, n}, t, n)})

(* Every token lies in exactly one derived range of a topology, and that range's
   owner and followers are the members met first, in clockwise order
   (derived_ranges, replica_node_ids_for_token, owner_for_token). *)
PlacementIsClockwise(M, rf) ==
    LET ranges == DerivedRangesOf[<<M, rf>>] IN
    \A t \in Tokens :
        LET ids == ReplicaNodeIds(M, rf, t) IN
        /\ \E r \in ranges : /\ {q \in ranges : InRange(q, t)} = {r}
                             /\ <<r.owner>> \o r.followers = ids
        /\ OwnerForToken(M, t) = ClockwiseOwner(M, t)
        /\ \A i \in DOMAIN ids : ClockwiseRank(M, t, ids[i]) = i - 1

IsClockwise ==
    [p \in MemberSets \X RFs |-> PlacementIsClockwise(p[1], p[2])] @@ <<>>

(* The planned moves and obligations of a change cover exactly the tokens whose
   owner changes and the followers that have to be gained, each once
   (topology_delta). *)
DeltaIsExact(old, new) ==
    LET moving == MovingRanges(old, new)
        gained == Obligations(old, new)
    IN  \A t \in Tokens :
          /\ {[src |-> r.src, dst |-> r.dst] : r \in {q \in moving : InRange(q, t)}}
               = {[src |-> OwnerForToken(old.members, t), dst |-> n] :
                    n \in {OwnerForToken(new.members, t)}
                            \ {OwnerForToken(old.members, t)}}
          /\ {o.dst : o \in {q \in gained : InRange(q, t)}}
               = ToSet(Tail(ReplicasAt(new, t))) \ ToSet(ReplicasAt(old, t))
          /\ \A q, r \in moving : InRange(q, t) /\ InRange(r, t) => q = r
=============================================================================

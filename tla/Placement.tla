------------------------------ MODULE Placement ------------------------------
(***************************************************************************)
(* What the coordinator plans and remembers: topology changes over the     *)
(* real ring, the repairs and admissions of every follower of every range, *)
(* and the proofs it asks for before it publishes.  The nodes are reduced  *)
(* to the question those proofs are about: which process holds the data of *)
(* a key.                                                                  *)
(*                                                                         *)
(* copy[n][k] is "current" when n's process has every acknowledged write   *)
(* of k, "behind" when the ones it misses are on a stream it receives, and *)
(* "none" when nothing would bring it up to date but a new seed.           *)
(***************************************************************************)
EXTENDS Ring

CONSTANTS
    Keys,           \* tokens of the keys that are written
    Bootstraps,     \* <<members, TopologyConfig>> a cluster is started with
    TargetMembers,  \* member sets an operator asks for
    TargetConfigs,  \* configurations an operator asks for
    RepairConcurrency,  \* replica_repair_concurrency
    MaxEpoch,       \* bound: the epoch no operator or failure goes beyond
    MaxProc,        \* bound: processes started for a node id
    MaxCrashes      \* bound: crashes of nodes and of the coordinator

ASSUME PlacementConstants ==
    /\ Keys \subseteq Tokens
    /\ Bootstraps \subseteq MemberSets \X Configs
    /\ TargetMembers \subseteq MemberSets
    /\ TargetConfigs \subseteq Configs
    /\ RepairConcurrency \in Nat \ {0}
    /\ MaxEpoch \in Nat /\ MaxProc \in [Nodes -> Nat] /\ MaxCrashes \in Nat

VARIABLES
    cs,       \* the durable ClusterState
    grants,   \* lease_grants: the epoch a node's lease is for, 0 without one
    lock,     \* who holds execution_lock
    step,     \* how far the running change executor has come
    todo,     \* streams <<owner, follower>> the pass has still to seed
    seeds,    \* streams being seeded
    proof,    \* the snapshot a direct merge was proved on, and what it carries
    alive,    \* the process running for a node id, 0 without one
    started,  \* processes started for a node id
    copy,     \* what a node's process has of a key
    fence,    \* the members' policy_write_fences: "clear", set by the active change
              \* ("own") or left by one before it ("other")
    crashes

vars == <<cs, grants, lock, step, todo, seeds, proof, alive, started, copy,
          fence, crashes>>
executor == <<lock, step, todo, seeds, proof>>
nodeVars == <<alive, started, copy>>

Committed == cs.committed
Change == cs.change
Epoch == Committed.epoch

Prepublication(c) == c.phase \notin {"Published", "CleaningUp", "Complete"}

IsTerminal(c) == c.phase \in {"None", "Complete", "Aborted"}

(* topology activation pending *)
ActivationPending == Change.phase = "Published" /\ ~Change.ready

NoChange == [phase |-> "None"]

NoProof == [carried |-> {}]

-----------------------------------------------------------------------------
(* Repairs and admissions of the followers the committed topology wants. *)

Desired(T) ==
    UNION {{[start |-> r.start, end |-> r.end, owner |-> r.owner, node |-> f] :
               f \in ToSet(r.followers)} : r \in DerivedRanges(T)}

CurrentAdmissions(s) ==
    {a \in s.admissions : /\ a.epoch = s.committed.epoch
                          /\ s.instances[a.of.node] = a.proc
                          /\ a.of \in Desired(s.committed)}

(* reconcile_replica_repairs *)
Reconcile(s) ==
    LET e == s.committed.epoch
        admissions == CurrentAdmissions(s)
        kept == {r \in s.repairs : r.epoch = e /\ r.of \in Desired(s.committed)}
        admitted == {a.of : a \in admissions}
    IN  [s EXCEPT
          !.admissions = admissions,
          !.repairs =
              {[r EXCEPT !.phase = IF @ = "Complete" /\ r.of \notin admitted
                                   THEN "Pending" ELSE @] : r \in kept}
              \cup {[epoch |-> e, of |-> k, phase |-> "Pending"] :
                      k \in Desired(s.committed) \ {r.of : r \in kept}}]

(* ClusterState::validate, which store_state runs before every write and
   load_state after every read. *)
Valid(s) ==
    LET T == s.committed
        c == s.change
        want == Desired(T)
    IN  /\ ValidConfig(T.config)
        /\ c.phase # "None" =>
              /\ c.supersedes => s.superseded = c.base.epoch
              /\ ValidConfig(c.target.config)
              /\ IF Prepublication(c)
                 THEN c.base = T /\ c.target.epoch = T.epoch + 1
                 ELSE c.target = T /\ c.base.epoch + 1 = T.epoch
        /\ \A a \in s.admissions : a.epoch = T.epoch /\ a.of \in want /\ a.proc # 0
        /\ \A a, b \in s.admissions : a.of = b.of => a = b
        /\ \A r \in s.repairs :
              /\ r.epoch = T.epoch /\ r.of \in want
              /\ r.phase = "Complete" => \E a \in s.admissions : a.of = r.of
        /\ \A r, q \in s.repairs : r.of = q.of => r = q

(* store_state; that the state it is given is Valid is a property below. *)
Store(s) == cs' = s

(* admission_for: a range's follower is admitted as the process registered for
   it. *)
Admitted(s, r, f) ==
    /\ s.instances[f] # 0
    /\ f \notin s.fenced
    /\ \E a \in s.admissions :
          /\ a.epoch = s.committed.epoch
          /\ a.of = [start |-> r.start, end |-> r.end, owner |-> r.owner, node |-> f]
          /\ a.proc = s.instances[f]

HasLease(n) ==
    grants[n] = Epoch /\ cs.instances[n] # 0 /\ n \notin cs.fenced

(* The process a coordinator's call reaches is the registered one. *)
Answers(n) == alive[n] # 0 /\ alive[n] = cs.instances[n]

PolicyFollowers(T) ==
    CASE T.config.policy = "OwnerOnly" -> 0
      [] T.config.policy = "FirstSuccessor" -> 1
      [] T.config.policy = "AllReplicas" -> T.config.rf - 1

(* required_merge_followers, and the needed of the activation barrier *)
NeededFollowers(T) ==
    Max({PolicyFollowers(T), T.config.minCopies - 1, T.config.minHealthy})

First(s, n) == SubSeq(s, 1, Min({n, Len(s)}))

RangeOf(T, k) == CHOOSE r \in DerivedRanges(T) : InRange(r, k)

Stream(T, o, f) == {k \in Keys : LET r == RangeOf(T, k) IN
                        r.owner = o /\ f \in ToSet(r.followers)}

-----------------------------------------------------------------------------
Init ==
    /\ \E <<members, config>> \in Bootstraps :
          /\ alive = [n \in Nodes |-> IF n \in members THEN 1 ELSE 0]
          /\ cs = Reconcile([committed |-> Topology(1, members, config),
                             change |-> NoChange, superseded |-> 0,
                             instances |-> alive, fenced |-> {},
                             admissions |-> {}, repairs |-> {}])
          /\ copy = [n \in Nodes |-> [k \in Keys |->
                       IF n = OwnerForToken(members, k) THEN "current" ELSE "none"]]
    /\ grants = [n \in Nodes |-> 0]
    /\ lock = "free" /\ step = "idle"
    /\ todo = {} /\ seeds = {} /\ proof = NoProof
    /\ started = alive
    /\ fence = "clear"
    /\ crashes = 0

Release == lock' = "free" /\ step' = "idle" /\ todo' = {} /\ seeds' = {}
           /\ proof' = NoProof

-----------------------------------------------------------------------------
(* Node processes. *)

Start(n) ==
    /\ alive[n] = 0 /\ started[n] < MaxProc[n]
    /\ started' = [started EXCEPT ![n] = @ + 1]
    /\ alive' = [alive EXCEPT ![n] = started'[n]]
    /\ UNCHANGED <<cs, grants, executor, copy, fence, crashes>>

Gone(n) ==
    /\ alive' = [alive EXCEPT ![n] = 0]
    /\ copy' = [copy EXCEPT ![n] = [k \in Keys |-> "none"]]
    /\ UNCHANGED started

Crash(n) ==
    /\ alive[n] # 0 /\ crashes < MaxCrashes
    /\ crashes' = crashes + 1
    /\ Gone(n)
    /\ UNCHANGED <<cs, grants, executor, fence>>

(* register_node: a committed member keeps the process it is registered as. *)
Register(n) ==
    LET committed == n \in Committed.members
        pending == ~IsTerminal(Change) /\ n \in Change.target.members
    IN  /\ alive[n] # 0 /\ alive[n] # cs.instances[n]
        /\ committed \/ pending
        /\ committed => n \notin cs.fenced /\ cs.instances[n] = 0
        /\ Store([cs EXCEPT !.instances[n] = alive[n],
                            !.fenced = IF committed THEN @ ELSE @ \ {n}])
        /\ UNCHANGED <<grants, executor, nodeVars, fence, crashes>>

(* renew_node_lease *)
Renew(n) ==
    /\ Answers(n) /\ n \in Committed.members /\ n \notin cs.fenced
    /\ ~ActivationPending
    /\ grants[n] # Epoch
    /\ grants' = [grants EXCEPT ![n] = Epoch]
    /\ UNCHANGED <<cs, executor, nodeVars, fence, crashes>>

Expire(n) ==
    /\ grants[n] # 0
    /\ grants' = [grants EXCEPT ![n] = 0]
    /\ UNCHANGED <<cs, executor, nodeVars, fence, crashes>>

(* The followers a lease lets its owner count: admitted for every range of the
   owner that requires them. *)
AdmittedFollowers(o) ==
    LET mine == {r \in DerivedRanges(Committed) : r.owner = o}
        required(r) == ToSet(First(r.followers, PolicyFollowers(Committed)))
    IN  {f \in UNION {required(r) : r \in mine} :
            \A r \in mine : f \in required(r) => Admitted(cs, r, f)}

(* Keys no write reaches: under a finished copy of a moving range, or under the
   last step of a seed. *)
Paused(k) ==
    \/ /\ Prepublication(Change) /\ ~IsTerminal(Change)
       /\ \E r \in Change.ranges : r.dstProc # 0 /\ InRange(r, k)
    \/ \E s \in seeds : s.stage = "paused" /\ k \in Stream(Committed, s.owner, s.node)

CanWrite(k) ==
    LET r == RangeOf(Committed, k)
    IN  /\ Answers(r.owner) /\ HasLease(r.owner)
        /\ fence = "clear" /\ ~Paused(k) /\ ~ActivationPending
        /\ Committed.config.policy = "AllReplicas"
              => Len(r.followers) + 1 >= Committed.config.rf
        /\ \A f \in ToSet(First(r.followers, PolicyFollowers(Committed))) :
              f \in AdmittedFollowers(r.owner) /\ Answers(f)

(* put, delete: acknowledged once the required followers have applied the stream
   up to the write. *)
Write(k) ==
    LET r == RangeOf(Committed, k)
        required == ToSet(First(r.followers, PolicyFollowers(Committed)))
        after(n, j) ==
            CASE n = r.owner -> copy[n][j]
              [] n \in required /\ j \in Stream(Committed, r.owner, n) ->
                    IF copy[n][j] = "none" THEN "none" ELSE "current"
              [] j # k \/ copy[n][j] = "none" -> copy[n][j]
              [] n \in ToSet(r.followers) -> "behind"
              [] OTHER -> "none"
    IN  /\ CanWrite(k)
        /\ copy' = [n \in Nodes |-> [j \in Keys |-> after(n, j)]]
        /\ UNCHANGED <<cs, grants, executor, alive, started, fence, crashes>>

(* The stream dispatcher delivers all a follower misses. *)
Deliver(o, f) ==
    /\ Answers(o) /\ Answers(f)
    /\ \E k \in Stream(Committed, o, f) : copy[f][k] = "behind"
    /\ copy' = [copy EXCEPT ![f] = [k \in Keys |->
                  IF k \in Stream(Committed, o, f) /\ @[k] = "behind"
                  THEN "current" ELSE @[k]]]
    /\ UNCHANGED <<cs, grants, executor, alive, started, fence, crashes>>

-----------------------------------------------------------------------------
(* Seeding a stream: all the ranges one node follows another for. *)

Group(s, o, f) == {r \in s.repairs : r.of.owner = o /\ r.of.node = f}

(* set_repair_phases *)
WithPhases(s, o, f, phase) ==
    [s EXCEPT !.repairs = {IF r \in Group(s, o, f) THEN [r EXCEPT !.phase = phase]
                           ELSE r : r \in @}]

Streams(s) == {<<r.of.owner, r.of.node>> : r \in s.repairs}

(* select_due_repair_groups, but for the backoff. *)
PendingGroups(s) ==
    {p \in Streams(s) : /\ s.instances[p[1]] # 0 /\ s.instances[p[2]] # 0
                        /\ \E r \in Group(s, p[1], p[2]) : r.phase = "Pending"}

(* resume_replica_repairs: take the execution lock and select what is due; which
   pending groups still back off is left open. *)
RunRepairs ==
    LET reconciled == Reconcile(cs)
        reset == [reconciled EXCEPT !.repairs =
                    {[r EXCEPT !.phase = IF @ = "Complete" THEN @ ELSE "Pending"] :
                        r \in @}]
    IN  /\ lock = "free" /\ IsTerminal(Change)
        /\ Store(reset)
        /\ todo' \in SUBSET PendingGroups(reset)
        /\ lock' = IF todo' = {} THEN "free" ELSE "repair"
        /\ UNCHANGED <<grants, step, seeds, proof, nodeVars, fence, crashes>>

(* A repair pass launches nothing once a change has been planned. *)
LaunchSeed(p) ==
    /\ p \in todo /\ Cardinality(seeds) < RepairConcurrency
    /\ todo' = todo \ {p}
    /\ IF lock = "repair" /\ ~IsTerminal(Change)
       THEN UNCHANGED <<cs, seeds>>
       ELSE /\ Store(WithPhases(cs, p[1], p[2], "Copying"))
            /\ seeds' = seeds \cup {[owner |-> p[1], node |-> p[2],
                                     stage |-> "copying",
                                     procs |-> <<cs.instances[p[1]],
                                                 cs.instances[p[2]]>>]}
    /\ UNCHANGED <<grants, lock, step, proof, nodeVars, fence, crashes>>

SameProcesses(s) ==
    /\ Answers(s.owner) /\ alive[s.owner] = s.procs[1]
    /\ Answers(s.node) /\ alive[s.node] = s.procs[2]

(* copy_replica and pause_range for every range, then Verifying. *)
PauseSeed(s) ==
    /\ s \in seeds /\ s.stage = "copying" /\ SameProcesses(s)
    /\ Store(WithPhases(cs, s.owner, s.node, "Verifying"))
    /\ seeds' = (seeds \ {s}) \cup {[s EXCEPT !.stage = "paused"]}
    /\ UNCHANGED <<grants, lock, step, todo, proof, nodeVars, fence, crashes>>

(* finish_replica, install_replication_checkpoint and the end of the pause. *)
Checkpoint(s) ==
    /\ s \in seeds /\ s.stage = "paused" /\ SameProcesses(s)
    /\ copy' = [copy EXCEPT ![s.node] = [k \in Keys |->
                  IF k \in Stream(Committed, s.owner, s.node) THEN "current"
                  ELSE @[k]]]
    /\ seeds' = (seeds \ {s}) \cup {[s EXCEPT !.stage = "checkpointed"]}
    /\ UNCHANGED <<cs, grants, lock, step, todo, proof, alive, started, fence,
                   crashes>>

(* store_repair_admissions *)
AdmitSeed(s) ==
    LET group == Group(cs, s.owner, s.node) IN
    /\ s \in seeds /\ s.stage = "checkpointed"
    /\ cs.instances[s.node] = s.procs[2]
    /\ Store([cs EXCEPT
          !.repairs = (@ \ group) \cup
              {[r EXCEPT !.phase = "Complete"] : r \in group},
          !.admissions = {a \in @ : a.of \notin {r.of : r \in group}} \cup
              {[epoch |-> Epoch, of |-> r.of, proc |-> s.procs[2]] : r \in group}])
    /\ seeds' = seeds \ {s}
    /\ UNCHANGED <<grants, lock, step, todo, proof, nodeVars, fence, crashes>>

(* The error path of seed_replica_group; a repair pass goes on with the other
   groups (record_repair_failure), a change gives up what it was doing. *)
FailSeed(s) ==
    /\ s \in seeds
    /\ Store(WithPhases(cs, s.owner, s.node, "Pending"))
    /\ seeds' = seeds \ {s}
    /\ IF lock = "repair" THEN UNCHANGED <<todo, step>>
       ELSE todo' = {} /\ step' = "failed"
    /\ UNCHANGED <<grants, lock, proof, nodeVars, fence, crashes>>

EndRepairPass ==
    /\ lock = "repair" /\ todo = {} /\ seeds = {}
    /\ Release
    /\ UNCHANGED <<cs, grants, nodeVars, fence, crashes>>

-----------------------------------------------------------------------------
(* Planning. *)

(* TopologyChange::plan_with_config *)
Plan(T, M, c) ==
    LET target == Topology(T.epoch + 1, M, c) IN
    [phase |-> "Planned", base |-> T, target |-> target,
     ranges |-> {r @@ [srcProc |-> 0, dstProc |-> 0] : r \in MovingRanges(T, target)},
     obligations |-> Obligations(T, target), failed |-> 0, ready |-> FALSE,
     direct |-> FALSE, supersedes |-> FALSE]

(* can_prepare_direct_merge *)
CanPrepareMerge(old, target) ==
    LET needed == NeededFollowers(target) IN
    /\ target.members \subseteq old.members
    /\ target.members # old.members
    /\ target.config = old.config
    /\ \A r \in DerivedRanges(target) :
          /\ Constituents(old, r) # {}
          /\ Len(r.followers) >= needed
          /\ \A p \in Constituents(old, r) :
                /\ \/ p.owner = r.owner
                   \/ p.followers # <<>> /\ Head(p.followers) = r.owner
                /\ ToSet(First(r.followers, needed))
                      \subseteq {p.owner} \cup ToSet(p.followers)

(* The checks of begin_topology_change on the target. *)
CanServe(T, old) ==
    LET n == Cardinality(T.members) IN
    /\ n >= T.config.minCopies /\ n - 1 >= T.config.minHealthy
    /\ T.config.policy = "FirstSuccessor" => n >= 2
    /\ T.config.policy = "AllReplicas" /\ (T.members # old.members
                                           \/ T.config.rf # old.config.rf)
          => n >= T.config.rf

(* begin_topology_change *)
BeginChange(M, c) ==
    LET plan == Plan(Committed, M, c)
        merge == CanPrepareMerge(Committed, plan.target)
    IN  /\ IsTerminal(Change) /\ Epoch < MaxEpoch
        /\ ValidConfig(c)
        /\ M # Committed.members \/ c # Committed.config
        /\ M = Committed.members \/ c = Committed.config
        /\ CanServe(plan.target, Committed)
        /\ Store([cs EXCEPT !.change = [plan EXCEPT
                    !.direct = merge, !.ranges = IF merge THEN {} ELSE @]])
        /\ UNCHANGED <<grants, executor, nodeVars, fence, crashes>>

(* run_failure_pass; a repair pass in the way is interrupted.  failure_confirmed was
   asked before the change was planned; by now the node may be leased again. *)
BeginFailure(n) ==
    /\ IsTerminal(Change) /\ Epoch < MaxEpoch
    /\ n \in Committed.members \ cs.fenced
    /\ Cardinality(Committed.members) > 1
    /\ cs.instances[n] # 0
    /\ Store([cs EXCEPT
          !.change = [Plan(Committed, Committed.members \ {n}, Committed.config)
                        EXCEPT !.failed = n],
          !.fenced = @ \cup {n}])
    /\ IF lock = "repair" THEN Release ELSE UNCHANGED executor
    /\ UNCHANGED <<grants, nodeVars, fence, crashes>>

(* execute_change takes the lock; an interrupted attempt starts over. *)
ExecuteChange ==
    /\ lock = "free" /\ ~IsTerminal(Change)
    /\ lock' = "change"
    /\ step' = IF Change.phase = "Aborting" THEN "aborting" ELSE "start"
    /\ IF \/ Change.phase \in {"Planned", "Aborting", "Published", "CleaningUp"}
          \/ Change.failed # 0
       THEN UNCHANGED cs
       ELSE Store([cs EXCEPT
              !.change.phase = "CopyingSnapshot",
              !.change.ranges = {[r EXCEPT !.srcProc = 0, !.dstProc = 0] : r \in @}])
    /\ UNCHANGED <<grants, todo, seeds, proof, nodeVars, fence, crashes>>

Running(c) == lock = "change" /\ c /\ seeds = {} /\ todo = {}

(* abort_after_error, abort_prepublication_change: the abort is durable before
   anything is released. *)
Abort ==
    /\ Running(Prepublication(Change) /\ Change.failed = 0)
    /\ step # "aborting"
    /\ Change.direct => step \in {"prepared", "fenced", "proved"}
    /\ Store([cs EXCEPT !.change.phase = "Aborting"])
    /\ step' = "aborting" /\ proof' = NoProof
    /\ UNCHANGED <<grants, lock, todo, seeds, nodeVars, fence, crashes>>

(* resume_policy_writes clears the fence of the change that asks. *)
Resumed == IF fence = "own" THEN "clear" ELSE fence

(* finish_abort: the sources give up their ranges, and the members are asked for
   the fence of a merge or of a policy change. *)
FinishAbort ==
    LET resume == Change.direct \/ (Change.ranges = {} /\ Change.obligations = {}) IN
    /\ Running(Change.phase = "Aborting") /\ step = "aborting"
    /\ \A r \in Change.ranges : alive[r.src] # 0
    /\ resume => \A n \in Change.base.members : alive[n] # 0
    /\ fence' = IF resume THEN Resumed ELSE fence
    /\ Store([cs EXCEPT !.change.phase = "Aborted"])
    /\ Release
    /\ UNCHANGED <<grants, nodeVars, crashes>>

(* A merge whose preparation fails is aborted without a release of the fence, also
   when an attempt before a restart had set it; the next change has another
   change_id. *)
AbortPreparation ==
    /\ Running(Prepublication(Change) /\ Change.direct)
    /\ step \in {"start", "preparing", "failed"}
    /\ Store([cs EXCEPT !.change.phase = "Aborted"])
    /\ fence' = IF fence = "own" THEN "other" ELSE fence
    /\ Release
    /\ UNCHANGED <<grants, nodeVars, crashes>>

(* An executor that gives up until the next recovery pass: a transient error, or
   any error after publication. *)
GiveUp ==
    /\ Running(TRUE)
    /\ Release
    /\ UNCHANGED <<cs, grants, nodeVars, fence, crashes>>

IsPolicyChange(c) ==
    /\ c.ranges = {} /\ c.obligations = {} /\ ~c.direct
    /\ c.target.members = c.base.members

-----------------------------------------------------------------------------
(* Publication.  The streams of the old epoch end: what was still on them is not
   delivered. *)

EndStreams(moved) ==
    [n \in Nodes |-> [k \in Keys |->
        IF k \in moved[n] THEN "current"
        ELSE IF copy[n][k] = "behind" THEN "none" ELSE copy[n][k]]]

NothingMoved == [n \in Nodes |-> {}]

(* copy_range, pause_range and finalize_range for one range. *)
FinalizeRange(r) ==
    /\ Running(r \in Change.ranges) /\ step = "start"
    /\ Prepublication(Change) /\ Change.failed = 0
    /\ r.dstProc = 0
    /\ Answers(r.src) /\ Answers(r.dst)
    /\ Store([cs EXCEPT !.change.phase = "Verifying",
                        !.change.ranges = (@ \ {r}) \cup
                            {[r EXCEPT !.srcProc = alive[r.src],
                                       !.dstProc = alive[r.dst]]}])
    /\ UNCHANGED <<grants, executor, nodeVars, fence, crashes>>

(* The publication block of execute_change. *)
PublishMove ==
    LET holds(n) == {k \in Keys : \E r \in Change.ranges :
                        r.dst = n /\ InRange(r, k) /\ alive[n] = r.dstProc}
    IN  /\ Running(Prepublication(Change)) /\ step = "start"
        /\ ~Change.direct /\ Change.failed = 0 /\ ~IsPolicyChange(Change)
        /\ \A r \in Change.ranges : r.dstProc # 0 /\ r.dstProc = cs.instances[r.dst]
        /\ Store(Reconcile([cs EXCEPT !.committed = Change.target,
                                      !.change.phase = "Published"]))
        /\ copy' = EndStreams([n \in Nodes |-> holds(n)])
        /\ UNCHANGED <<grants, executor, alive, started, fence, crashes>>

(* policy_fence_members, set_direct_merge_fence *)
FenceWrites ==
    /\ Running(Prepublication(Change)) /\ Change.failed = 0
    /\ \/ IsPolicyChange(Change) /\ step = "start"
       \/ Change.direct /\ step = "prepared"
    /\ \A n \in Change.base.members : Answers(n)
    /\ fence # "other"
    /\ Store([cs EXCEPT !.change.phase = "Verifying"])
    /\ fence' = "own"
    /\ step' = "fenced"
    /\ UNCHANGED <<grants, lock, todo, seeds, proof, nodeVars, crashes>>

-----------------------------------------------------------------------------
(* What get_replica_status reports, and the policy change that rests on it. *)

(* read_replication_pair, merge_pair_caught_up: the follower's cursor has reached
   the owner's head. *)
CaughtUp(o, f) == \A k \in Stream(Committed, o, f) : copy[f][k] # "behind"

LagKnown(o, f) == HasLease(o) /\ HasLease(f) /\ Answers(o) /\ Answers(f)

Healthy(r, f) == Admitted(cs, r, f) /\ LagKnown(r.owner, f)

(* write_block_reason is empty: the range is reported writable. *)
ReportedWritable(r) ==
    LET T == Committed
        followers == ToSet(r.followers)
        mayBeFenced ==
            /\ Change.phase = "Verifying"
            /\ \/ Change.target.config.policy # T.config.policy
               \/ \E m \in Change.ranges : Overlap(r, m)
    IN  /\ ~ActivationPending /\ ~mayBeFenced /\ HasLease(r.owner)
        /\ T.config.policy = "FirstSuccessor" => r.followers # <<>>
        /\ T.config.policy = "AllReplicas" => Len(r.followers) + 1 >= T.config.rf
        /\ Cardinality({f \in followers : Admitted(cs, r, f)}) + 1 >= T.config.minCopies
        /\ Cardinality({f \in followers : Healthy(r, f)}) >= T.config.minHealthy
        /\ \A f \in ToSet(First(r.followers, PolicyFollowers(T))) : Healthy(r, f)

(* policy_readiness_verified; the ranges and owners of the target are those of
   the committed topology. *)
PolicyReady(target) ==
    \A r \in DerivedRanges(target) :
        LET admitted == {f \in ToSet(r.followers) : Admitted(cs, r, f)}
            caughtUp == {f \in admitted : LagKnown(r.owner, f) /\ CaughtUp(r.owner, f)}
        IN  /\ admitted = caughtUp
            /\ Cardinality(admitted) + 1 >= target.config.minCopies
            /\ Cardinality(caughtUp) >= target.config.minHealthy
            /\ target.config.policy = "AllReplicas"
                  => Len(r.followers) + 1 >= target.config.rf
            /\ ToSet(First(r.followers, PolicyFollowers(target))) \subseteq caughtUp

(* Mistake: the readiness seen before the writes were fenced is trusted. *)
PublishPolicy_NoRecheck ==
    LET e == Change.target.epoch IN
    /\ Running(IsPolicyChange(Change)) /\ step = "fenced"
    /\ Store(Reconcile([cs EXCEPT
          !.committed = Change.target, !.change.phase = "Published",
          !.admissions = {[a EXCEPT !.epoch = e] : a \in @},
          !.repairs = {[r EXCEPT !.epoch = e] : r \in @}]))
    /\ copy' = EndStreams(NothingMoved)
    /\ step' = "start"
    /\ UNCHANGED <<grants, lock, todo, seeds, proof, alive, started, fence, crashes>>

(* The last readiness check and the publication of execute_policy_change: the
   admissions are carried into the new epoch. *)
PublishPolicy ==
    LET e == Change.target.epoch IN
    /\ Running(IsPolicyChange(Change)) /\ step = "fenced"
    /\ PolicyReady(Change.target)
    /\ Store(Reconcile([cs EXCEPT
          !.committed = Change.target, !.change.phase = "Published",
          !.admissions = {[a EXCEPT !.epoch = e] : a \in @},
          !.repairs = {[r EXCEPT !.epoch = e] : r \in @}]))
    /\ copy' = EndStreams(NothingMoved)
    /\ step' = "start"
    /\ UNCHANGED <<grants, lock, todo, seeds, proof, alive, started, fence, crashes>>

-----------------------------------------------------------------------------
(* Removals that promote the natural successor: the direct merge of a member
   that leaves, and the failure of one. *)

(* prove_removal_owner_coverage *)
OwnerCoverage(target) ==
    \A r \in DerivedRanges(target) :
        /\ Constituents(Committed, r) # {}
        /\ \A p \in Constituents(Committed, r) :
              \/ p.owner = r.owner
              \/ /\ p.followers # <<>> /\ Head(p.followers) = r.owner
                 /\ Admitted(cs, p, r.owner)

(* prove_removal_owner_leases *)
OwnerLeases(target) == \A r \in DerivedRanges(target) : HasLease(r.owner)

(* The streams a target range's member gets its parts from, other than its own. *)
PairsOf(r, n) ==
    {<<p.owner, n>> : p \in {q \in Constituents(Committed, r) : q.owner # n}}

RequiredOf(target, r) == ToSet(First(r.followers, NeededFollowers(target)))

(* The candidates of merge_proof: followers admitted for all the parts of a
   target range. *)
Candidates(target) ==
    UNION {{[r |-> r, node |-> f] :
              f \in {g \in ToSet(r.followers) :
                        /\ cs.instances[g] # 0 /\ g \notin cs.fenced
                        /\ \A p \in Constituents(Committed, r) :
                              p.owner = g \/ Admitted(cs, p, g)}} :
           r \in DerivedRanges(target)}

(* The streams merge_proof requires to be caught up. *)
RequiredPairs(target) ==
    UNION {PairsOf(r, n) : <<r, n>> \in
              {<<q, m>> \in DerivedRanges(target) \X target.members :
                  m = q.owner \/ m \in RequiredOf(target, q)}}

(* can_direct_merge *)
CanDirectMerge(target) ==
    /\ CanPrepareMerge(Committed, target)
    /\ OwnerCoverage(target)
    /\ \A r \in DerivedRanges(target) :
          /\ Len(r.followers) >= NeededFollowers(target)
          /\ \A f \in RequiredOf(target, r) : [r |-> r, node |-> f] \in Candidates(target)

(* missing_merge_streams *)
MissingStreams(target) ==
    UNION {{<<p.owner, n>> :
              p \in {q \in Constituents(Committed, r) :
                        q.owner # n /\ ~Admitted(cs, q, n)}} :
           <<r, n>> \in {<<q, m>> \in DerivedRanges(target) \X target.members :
                           m = q.owner \/ m \in RequiredOf(target, q)}}

(* prepare_direct_merge_coverage: seed what the proof will miss. *)
PrepareMerge ==
    LET missing == MissingStreams(Change.target) IN
    /\ Running(Prepublication(Change)) /\ Change.direct /\ step = "start"
    /\ CanPrepareMerge(Committed, Change.target)
    /\ missing \subseteq Streams(cs)
    /\ step' = IF missing = {} THEN "prepared" ELSE "preparing"
    /\ todo' = missing
    /\ Store([cs EXCEPT !.change.phase = IF missing = {} THEN @ ELSE "CopyingSnapshot",
                        !.repairs = {[r EXCEPT !.phase = IF @ = "Complete" THEN @
                                                         ELSE "Pending"] : r \in @}])
    /\ UNCHANGED <<grants, lock, seeds, proof, nodeVars, fence, crashes>>

MergePrepared ==
    /\ Running(step = "preparing")
    /\ CanDirectMerge(Change.target)
    /\ step' = "prepared"
    /\ UNCHANGED <<cs, grants, lock, todo, seeds, proof, nodeVars, fence, crashes>>

(* Mistake: the merge takes admission for being caught up. *)
MergeProve_AdmittedIsEnough ==
    LET target == Change.target IN
    /\ Running(Change.direct) /\ step = "fenced"
    /\ CanDirectMerge(target) /\ OwnerLeases(target)
    /\ \A p \in RequiredPairs(target) : Answers(p[1]) /\ Answers(p[2])
    /\ proof' = [carried |-> Candidates(target), instances |-> cs.instances,
                 admissions |-> cs.admissions, fenced |-> cs.fenced]
    /\ step' = "proved"
    /\ UNCHANGED <<cs, grants, lock, todo, seeds, nodeVars, fence, crashes>>

(* The proof of execute_direct_merge on a snapshot of the state: every required
   stream caught up; an optional one that answers is carried too. *)
MergeProve ==
    LET target == Change.target
        required == RequiredPairs(target)
        optional == {p \in UNION {PairsOf(c.r, c.node) : c \in Candidates(target)} :
                        Answers(p[1]) /\ Answers(p[2]) /\ CaughtUp(p[1], p[2])}
    IN  /\ Running(Change.direct) /\ step = "fenced"
        /\ CanDirectMerge(target) /\ OwnerLeases(target)
        /\ \A p \in required : Answers(p[1]) /\ Answers(p[2]) /\ CaughtUp(p[1], p[2])
        /\ \E seen \in {required, required \cup optional} :
              proof' = [carried |-> {c \in Candidates(target) :
                                       PairsOf(c.r, c.node) \subseteq seen},
                        instances |-> cs.instances, admissions |-> cs.admissions,
                        fenced |-> cs.fenced]
        /\ step' = "proved"
        /\ UNCHANGED <<cs, grants, lock, todo, seeds, nodeVars, fence, crashes>>

(* Mistake: the repairs of the new topology are left to the next pass. *)
PublishRemoved_NoReconcile(admissions, instances) ==
    Store([cs EXCEPT
        !.committed = Change.target, !.change.phase = "Published",
        !.change.ready = TRUE, !.admissions = admissions, !.repairs = {},
        !.instances = instances])

(* publish_removed_topology *)
PublishRemoved(admissions, instances) ==
    Store(Reconcile([cs EXCEPT
        !.committed = Change.target, !.change.phase = "Published",
        !.change.ready = TRUE, !.admissions = admissions, !.repairs = {},
        !.instances = instances]))

(* The publication of execute_direct_merge: nothing the proof rests on has
   changed since. *)
MergePublish ==
    LET admission(c) ==
            [epoch |-> Change.target.epoch, proc |-> cs.instances[c.node],
             of |-> [start |-> c.r.start, end |-> c.r.end, owner |-> c.r.owner,
                     node |-> c.node]]
    IN  /\ Running(Prepublication(Change)) /\ step = "proved"
        /\ proof.instances = cs.instances /\ proof.admissions = cs.admissions
        /\ proof.fenced = cs.fenced
        /\ PublishRemoved({admission(c) : c \in proof.carried}, cs.instances)
        /\ copy' = EndStreams(NothingMoved)
        /\ step' = "start" /\ proof' = NoProof
        /\ UNCHANGED <<grants, lock, todo, seeds, alive, started, fence, crashes>>

(* execute_failed_change: the failed node's grant is over.  What its first
   successor holds becomes the data of its ranges; under OwnerOnly that may be
   less than was acknowledged. *)
PublishFailure ==
    LET lost(k) == OwnerForToken(Committed.members, k) = Change.failed
        heir(k) == OwnerForToken(Change.target.members, k)
        promoted(n, k) ==
            /\ n = heir(k)
            /\ \/ copy[n][k] = "current"
               \/ copy[n][k] = "behind" /\ Committed.config.policy = "OwnerOnly"
    IN  /\ Running(Prepublication(Change)) /\ Change.failed # 0
        /\ grants[Change.failed] = 0
        /\ OwnerLeases(Change.target) /\ OwnerCoverage(Change.target)
        /\ Change.failed \in cs.fenced
        /\ PublishRemoved({}, [cs.instances EXCEPT ![Change.failed] = 0])
        /\ copy' = [n \in Nodes |-> [k \in Keys |->
                      CASE lost(k) -> IF promoted(n, k) THEN "current" ELSE "none"
                        [] copy[n][k] = "behind" -> "none"
                        [] OTHER -> copy[n][k]]]
        /\ UNCHANGED <<grants, executor, alive, started, fence, crashes>>

-----------------------------------------------------------------------------
(* Activation: the replica barrier between publication and the new leases. *)

NeedsBarrier ==
    /\ NeededFollowers(Committed) > 0
    /\ Change.ranges # {} \/ Change.obligations # {} \/ Change.supersedes

AdmittedFor(r) ==
    {f \in ToSet(r.followers) : \E a \in cs.admissions :
        /\ a.of = [start |-> r.start, end |-> r.end, owner |-> r.owner, node |-> f]
        /\ a.epoch = Epoch /\ cs.instances[f] = a.proc}

(* The check that ends seed_repairs_for_activation. *)
BarrierHolds ==
    \A r \in DerivedRanges(Committed) :
        /\ Cardinality(AdmittedFor(r)) >= NeededFollowers(Committed)
        /\ ToSet(First(r.followers, PolicyFollowers(Committed))) \subseteq AdmittedFor(r)

(* Mistake: only the followers the policy names are seeded, whatever the guard. *)
SelectSeeds_PolicyOnly ==
    UNION {{<<r.owner, f>> :
               f \in ToSet(First(r.followers, PolicyFollowers(Committed))) \ AdmittedFor(r)} :
           r \in DerivedRanges(Committed)}

(* The streams seed_repairs_for_activation selects: the followers the policy
   names, then, range by range, the largest groups until the guard is met. *)
SelectSeeds ==
    LET needed == NeededFollowers(Committed)
        ranges == SetToSortSeq(DerivedRanges(Committed), LAMBDA r, s : r.end < s.end)
        open(r, selected) == {f \in ToSet(r.followers) \ AdmittedFor(r) :
                                 <<r.owner, f>> \notin selected}
        larger(r, f, g) ==
            LET size(h) == Cardinality(Group(cs, r.owner, h))
                at(h) == CHOOSE i \in DOMAIN r.followers : r.followers[i] = h
            IN  size(f) > size(g) \/ (size(f) = size(g) /\ at(f) >= at(g))
        largest(r, O) == CHOOSE f \in O : \A g \in O : larger(r, f, g)
        named(r, selected) ==
            selected \cup {<<r.owner, f>> :
                f \in ToSet(First(r.followers, PolicyFollowers(Committed)))
                         \ AdmittedFor(r)}
        more(r, selected) ==
            LET missing == needed - (Len(r.followers) - Cardinality(open(r, selected)))
            IN  FoldLeft(LAMBDA sel, i : sel \cup {<<r.owner, largest(r, open(r, sel))>>},
                         selected, [i \in 1..missing |-> i])
    IN  FoldLeft(LAMBDA selected, r : more(r, named(r, selected)), {}, ranges)

(* finish_published_change and finish_recovered_change up to the barrier: the
   topology is installed everywhere, without leases. *)
StartActivation ==
    /\ Running(ActivationPending) /\ step = "start"
    /\ \A n \in Committed.members \cup {r.src : r \in Change.ranges} : Answers(n)
    /\ IF NeedsBarrier
       THEN /\ \A r \in DerivedRanges(Committed) :
                  Len(r.followers) >= NeededFollowers(Committed)
            /\ todo' = SelectSeeds
            /\ step' = "seeding"
            /\ Store([cs EXCEPT !.repairs =
                        {[r EXCEPT !.phase = IF @ = "Complete" THEN @ ELSE "Pending"] :
                            r \in @}])
       ELSE step' = "seeded" /\ UNCHANGED <<cs, todo>>
    /\ UNCHANGED <<grants, lock, seeds, proof, nodeVars, fence, crashes>>

SeedsDone ==
    /\ Running(step = "seeding")
    /\ step' = "seeded"
    /\ UNCHANGED <<cs, grants, lock, todo, seeds, proof, nodeVars, fence, crashes>>

(* The last check of the barrier, and set_activation_ready. *)
SetActivationReady ==
    /\ Running(ActivationPending) /\ step = "seeded"
    /\ NeedsBarrier => BarrierHolds
    /\ Store([cs EXCEPT !.change.ready = TRUE])
    /\ UNCHANGED <<grants, executor, nodeVars, fence, crashes>>

-----------------------------------------------------------------------------
(* After publication. *)

Leavers == Change.base.members \ Change.target.members

(* The topology is installed, a merge's or a policy change's fence released, and
   the sources drop what they are no longer a replica of (cleanup_source_range). *)
CleanUp ==
    LET dropped(n) == {k \in Keys : /\ n \notin ToSet(ReplicasAt(Committed, k))
                                    /\ \E r \in Change.ranges : r.src = n /\ InRange(r, k)}
    IN  /\ Running(Change.phase = "Published" /\ Change.ready)
        /\ Change.failed = 0 /\ ~Change.supersedes
        /\ \A n \in Committed.members \cup {r.src : r \in Change.ranges} : Answers(n)
        /\ Store([cs EXCEPT !.change.phase = "CleaningUp"])
        /\ fence' = Resumed
        /\ copy' = [n \in Nodes |-> [k \in Keys |->
                      IF k \in dropped(n) THEN "none" ELSE copy[n][k]]]
        /\ UNCHANGED <<grants, executor, alive, started, crashes>>

(* A member that left is told to stop, unless the process that answers is not the
   registered one, and forgotten (store_stopped_node). *)
StopRemoved(n) ==
    /\ Running(Change.phase = "CleaningUp")
    /\ n \in Leavers /\ cs.instances[n] # 0
    /\ Store([cs EXCEPT !.instances[n] = 0])
    /\ IF Answers(n) THEN Gone(n) ELSE UNCHANGED nodeVars
    /\ UNCHANGED <<grants, executor, fence, crashes>>

(* The end of a change; a failure's and a recovery's change has nothing to clean
   up, and forgets the failed node's grant. *)
Complete ==
    /\ \/ /\ Running(Change.phase = "CleaningUp")
          /\ \A n \in Leavers : cs.instances[n] = 0
          /\ UNCHANGED grants
       \/ /\ Running(Change.phase = "Published" /\ Change.ready)
          /\ Change.failed # 0 \/ Change.supersedes
          /\ \A n \in Committed.members : Answers(n)
          /\ grants' = [n \in Nodes |-> IF n = Change.failed THEN 0 ELSE grants[n]]
    /\ Store([cs EXCEPT !.change.phase = "Complete"])
    /\ Release
    /\ UNCHANGED <<nodeVars, fence, crashes>>

(* run_pending_change_failure_pass: a participant of the change has a registered
   process, and the coordinator's probes of it have failed for the confirmation
   delay.  The node may hold a lease, and may answer again by now. *)
PendingOutage(x) ==
    /\ ~IsTerminal(Change) /\ cs.instances[x] # 0
    /\ \/ x \in Change.target.members
       \/ x \in Change.base.members /\ Change.phase # "CleaningUp"

(* recover_pending_change_failure: the node a published, unready join brought in
   is gone; the old owners, which still hold the frozen ranges, take them back in
   an epoch of their own. *)
RecoverJoin(x) ==
    LET base == Change.base
        plan == Plan(Committed, base.members, Committed.config)
    IN  /\ lock = "free" /\ ActivationPending
        /\ PendingOutage(x)
        /\ ~Change.supersedes
        /\ x \notin base.members /\ Committed.members \ {x} = base.members
        /\ \A r \in Change.ranges :
              r.dst = x /\ r.srcProc # 0 /\ cs.instances[r.src] = r.srcProc
        /\ \A n \in base.members : Answers(n)
        /\ Store(Reconcile([cs EXCEPT
              !.committed = plan.target,
              !.change = [plan EXCEPT !.ranges = {}, !.phase = "Published",
                                      !.supersedes = TRUE],
              !.superseded = Epoch,
              !.fenced = @ \cup {x}, !.instances[x] = 0,
              !.admissions = {}, !.repairs = {}]))
        /\ copy' = EndStreams(NothingMoved)
        /\ lock' = "change" /\ step' = "start"
        /\ UNCHANGED <<grants, todo, seeds, proof, alive, started, fence, crashes>>

(* CoordinatorService::load: the stored state is validated and reconciled; grants
   and executors are gone. *)
RestartCoordinator ==
    /\ crashes < MaxCrashes
    /\ crashes' = crashes + 1
    /\ Store(Reconcile(cs))
    /\ grants' = [n \in Nodes |-> 0]
    /\ Release
    /\ UNCHANGED <<nodeVars, fence>>

Next ==
    \/ \E n \in Nodes : \/ Start(n) \/ Crash(n) \/ Register(n) \/ Renew(n) \/ Expire(n)
                        \/ BeginFailure(n) \/ StopRemoved(n) \/ RecoverJoin(n)
    \/ \E k \in Keys : Write(k)
    \/ \E o, f \in Nodes : Deliver(o, f)
    \/ \E p \in todo : LaunchSeed(p)
    \/ \E s \in seeds : PauseSeed(s) \/ Checkpoint(s) \/ AdmitSeed(s) \/ FailSeed(s)
    \/ \E M \in TargetMembers, c \in TargetConfigs : BeginChange(M, c)
    \/ /\ ~IsTerminal(Change)
       /\ \E r \in Change.ranges : FinalizeRange(r)
    \/ RunRepairs \/ EndRepairPass \/ ExecuteChange \/ GiveUp
    \/ Abort \/ FinishAbort \/ AbortPreparation
    \/ PublishMove \/ FenceWrites \/ PublishPolicy
    \/ PrepareMerge \/ MergePrepared \/ MergeProve \/ MergePublish
    \/ PublishFailure
    \/ StartActivation \/ SeedsDone \/ SetActivationReady
    \/ CleanUp \/ Complete
    \/ RestartCoordinator

Spec == Init /\ [][Next]_vars

-----------------------------------------------------------------------------
ChangePhases == {"Planned", "CopyingSnapshot", "Verifying", "Published",
                 "CleaningUp", "Complete", "Aborting", "Aborted"}

(* Type invariant: what the coordinator and the executors of changes and repairs
   hold. *)
TypeOK ==
    /\ cs.change.phase \in ChangePhases \cup {"None"}
    /\ \A n \in Nodes : cs.instances[n] \in 0..started[n]
    /\ cs.fenced \subseteq Nodes
    /\ \A r \in cs.repairs : r.phase \in {"Pending", "Copying", "Verifying", "Complete"}
    /\ \A n \in Nodes : grants[n] \in 0..Epoch
    /\ lock \in {"free", "repair", "change"}
    /\ step \in {"idle", "start", "preparing", "prepared", "fenced", "proved",
                 "aborting", "seeding", "seeded", "failed"}
    /\ todo \subseteq Nodes \X Nodes
    /\ \A s \in seeds : s.stage \in {"copying", "paused", "checkpointed"}
    /\ \A n \in Nodes : alive[n] \in {0, started[n]} /\ started[n] <= MaxProc[n]
    /\ copy \in [Nodes -> [Keys -> {"none", "behind", "current"}]]
    /\ fence \in {"clear", "own", "other"}

(* Whoever the committed topology makes the owner of a key has all that was
   acknowledged for it while its registered process runs: no publication, by a
   move, a policy change, a direct merge, a failure or the recovery of a join,
   promotes a node that lacks data (merge_proof, policy_readiness_verified,
   prove_failure_coverage). *)
OwnerHoldsData ==
    \A k \in Keys :
        LET o == OwnerForToken(Committed.members, k)
        IN  Answers(o) => copy[o][k] = "current"

(* An admission says that the process it names holds the range or gets what it
   misses from a stream: never that it has to be seeded again
   (store_repair_admissions, and the admissions a merge or a policy change
   carries over). *)
AdmissionMeansCopy ==
    \A a \in cs.admissions :
        Answers(a.of.node) /\ alive[a.of.node] = a.proc =>
            \A k \in Keys : InRange(a.of, k) => copy[a.of.node][k] # "none"

(* Every state the coordinator stores is typed and passes the validation that a
   restart puts it through, so that a coordinator can always be restarted; and a
   restart forgets no admission and no finished repair, since what it reconciles is
   already reconciled (load_state: reconcile_replica_repairs, then validate). *)
StoredStateReloads == TypeOK /\ Valid(cs) /\ Reconcile(cs) = cs

(* Placement by the sorted token table is the clockwise one for every set of
   members with the committed replication factor
   (TopologySnapshot::replica_node_ids_for_token, derived_ranges). *)
RingMatchesReference ==
    \A M \in MemberSets : IsClockwise[<<M, Committed.config.rf>>]

(* A change about to be executed moves exactly what changes hands
   (topology_delta). *)
PlanIsExact ==
    Change.phase = "Planned" /\ step = "start" => DeltaIsExact(Change.base, Change.target)

(* Once the streams selected for activation are seeded, the barrier holds: the
   selection never leaves a change stuck behind its own barrier
   (seed_repairs_for_activation). *)
SelectedSeedsSuffice ==
    step = "seeded" /\ ActivationPending /\ NeedsBarrier => BarrierHolds

(* A range that get_replica_status reports writable takes a write, as long as no
   seed has it paused for a moment. *)
ReportedWritableTakesWrites ==
    \A k \in Keys :
        LET r == RangeOf(Committed, k)
        IN  ReportedWritable(r) /\ Answers(r.owner) => fence = "clear"
=============================================================================

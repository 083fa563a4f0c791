------------------------------ MODULE Authority ------------------------------
(***************************************************************************)
(* Who may answer for a range: the coordinator's topology epochs, the      *)
(* leases it grants, and every kind of topology change that moves          *)
(* ownership from one node to another.                                     *)
(*                                                                         *)
(* Time is counted in ticks.  Every deadline of the code (an Instant plus  *)
(* the lease duration) is kept as the number of ticks left until it, so    *)
(* one Tick lowers them all and the state space needs no clock bound.      *)
(*                                                                         *)
(* What a change copies before it is published, and how far replicas have  *)
(* caught up, belong to other modules; here a change only moves ownership. *)
(***************************************************************************)
EXTENDS Clockwise, FiniteSets

CONSTANTS
    Procs,          \* processes; a process is its process_instance_id
    NodeOf,         \* [Procs -> Nodes], the --node-id each was started with
    Ranges,         \* hash ranges, each by one of its tokens
    Owner,          \* [Ranges -> [non-empty member sets -> Nodes]], the ring
    InitMembers,    \* members of the first committed topology
    L,              \* lease_duration in ticks
    RenewTimeout,   \* lease_renewal_timeout in ticks
    MaxEpoch,       \* bound: epochs that get published
    MaxRenewals,    \* bound: renewals one process has in flight
    Kinds,          \* kinds of change an operator asks for in this model
    MergeOutage,    \* may a removed member be unreachable and yet running?
    None

Epochs == 1..MaxEpoch

ASSUME ConstantsAssumption ==
    /\ NodeOf \in [Procs -> Nodes]
    /\ InitMembers \in MemberSets
    /\ L \in Nat \ {0}
    /\ RenewTimeout \in 0..(L - 1)
    /\ MaxEpoch \in Nat \ {0}
    /\ MaxRenewals \in Nat
    /\ Kinds \subseteq {"move", "merge", "policy"}
    /\ MergeOutage \in BOOLEAN
    /\ None \notin Procs /\ None \notin Nodes

(* The ring is the one of consistent hashing. *)
ASSUME RingAssumption ==
    /\ Ranges \subseteq Tokens
    /\ Owner = [r \in Ranges |-> [M \in MemberSets |-> ClockwiseOwner(M, r)]]

(* Every member has a token, so it owns a range. *)
ASSUME CoverAssumption ==
    \A M \in MemberSets : \A n \in M : \E r \in Ranges : Owner[r][M] = n

VARIABLES
    \* durable ClusterState
    epoch,       \* committed.epoch
    topo,        \* member set of every published epoch ({} if unpublished)
    kind,        \* what the active change is
    phase,       \* its MigrationPhase, as far as authority depends on it
    target,      \* its target member set
    ready,       \* its activation_ready
    failed,      \* its failed_node_id
    fenced,      \* fenced_nodes
    instance,    \* process_instances
    \* the coordinator process
    grants,      \* lease_grants
    quarantine,  \* ticks left until startup_at + lease_duration
    stage,       \* how far the running executor has come
    acked,       \* nodes whose RPC of this stage was acknowledged
    suspect,     \* a member whose failure run_failure_pass has confirmed
    \* node processes
    up,          \* "new" before its start, "up", or "dead"
    pepoch,      \* the epoch of its installed topology
    lease,       \* its lease
    fence,       \* its policy_write_fence: "clear", held by the active change
                 \* ("own") or by an earlier one ("other")
    \* network
    renewals     \* renew_node_lease calls in flight

durable == <<epoch, topo, kind, phase, target, ready, failed, fenced, instance>>
executor == <<stage, acked, suspect>>
procVars == <<up, pepoch, lease, fence>>
vars == <<epoch, topo, kind, phase, target, ready, failed, fenced, instance,
          grants, quarantine, stage, acked, suspect, up, pepoch, lease, fence, renewals>>

Members == topo[epoch]

(* The topology the published change started from. *)
Base == topo[epoch - 1]

Removed == Base \ target

(* The old owners of the ranges a published change moves. *)
Sources == {n \in Base : \E r \in Ranges :
                /\ Owner[r][Base] = n
                /\ Owner[r][Members] # n}

Active == phase \in {"planned", "aborting", "published", "cleanup"}

Lease == [epoch : Epochs \cup {0}, left : 0..L]

Grant == [proc : Procs \cup {None}, epoch : Epochs \cup {0}, left : 0..L]

Renewal == [proc : Procs, epoch : Epochs, left : 0..L, granted : BOOLEAN]

NoLease == [epoch |-> 0, left |-> 0]

NoGrant == [proc |-> None, epoch |-> 0, left |-> 0]

(* has_lease: the coordinator's view of a node's lease. *)
HasLease(n) ==
    /\ grants[n].left > 0
    /\ grants[n].epoch = epoch
    /\ grants[n].proc = instance[n]
    /\ n \notin fenced

(* The RPC target of a node id: the process registered for it. *)
Reachable(n) == instance[n] # None /\ up[instance[n]] = "up"

-----------------------------------------------------------------------------
(* What a process may answer. *)

(* owner_error and lease_error: an owner under its installed topology whose
   lease for that epoch has not run out. *)
CanRead(p, r) ==
    /\ up[p] = "up"
    /\ lease[p].left > 0
    /\ lease[p].epoch = pepoch[p]
    /\ Owner[r][topo[pepoch[p]]] = NodeOf[p]

(* A write also needs policy_write_fence to be clear. *)
CanWrite(p, r) == CanRead(p, r) /\ fence[p] = "clear"

-----------------------------------------------------------------------------
Init ==
    /\ epoch = 1
    /\ topo = [e \in Epochs |-> IF e = 1 THEN InitMembers ELSE {}]
    /\ kind = "none" /\ phase = "done"
    /\ target = InitMembers
    /\ ready = TRUE
    /\ failed = None
    /\ fenced = {}
    /\ instance = [n \in Nodes |-> None]
    /\ grants = [n \in Nodes |-> NoGrant]
    /\ quarantine = L
    /\ stage = "idle" /\ acked = {} /\ suspect = None
    /\ up = [p \in Procs |-> "new"]
    /\ pepoch = [p \in Procs |-> 0]
    /\ lease = [p \in Procs |-> NoLease]
    /\ fence = [p \in Procs |-> "clear"]
    /\ renewals = {}

-----------------------------------------------------------------------------
(* Time and failures. *)

Less(k) == IF k > 0 THEN k - 1 ELSE 0

Aged(x) == [x EXCEPT !.left = Less(@)]

(* A grant or a lease that has run out is as good as none, and an answer the
   caller no longer waits for is gone. *)
Tick ==
    /\ quarantine' = Less(quarantine)
    /\ grants' = [n \in Nodes |-> IF grants[n].left > 1
                      THEN Aged(grants[n]) ELSE NoGrant]
    /\ lease' = [p \in Procs |-> IF lease[p].left > 1
                      THEN Aged(lease[p]) ELSE NoLease]
    /\ renewals' = {Aged(m) : m \in {w \in renewals :
                                    w.granted => L - w.left < RenewTimeout}}
    /\ UNCHANGED <<durable, executor, up, pepoch, fence>>

(* A process is gone with all it had in memory, for whatever reason. *)
ProcessGone(p) ==
    /\ up' = [up EXCEPT ![p] = "dead"]
    /\ pepoch' = [pepoch EXCEPT ![p] = 0]
    /\ lease' = [lease EXCEPT ![p] = NoLease]
    /\ fence' = [fence EXCEPT ![p] = "clear"]
    /\ renewals' = {m \in renewals : m.proc = p => ~m.granted}

Crash(p) ==
    /\ up[p] = "up"
    /\ ProcessGone(p)
    /\ UNCHANGED <<durable, grants, quarantine, executor>>

(* The coordinator loses its grants and its executor; the durable state stays.
   startup_at is now, so a full lease duration has to pass again. *)
RestartCoordinator ==
    /\ grants' = [n \in Nodes |-> NoGrant]
    /\ quarantine' = L
    /\ stage' = "idle" /\ acked' = {} /\ suspect' = None
    /\ UNCHANGED <<durable, procVars, renewals>>

-----------------------------------------------------------------------------
(* Node processes. *)

(* connect and register_node: the topology is fetched before the process is
   registered, so it may be an older one by then.  A refused registration
   ends the process before it serves anything. *)
Register(p, e) ==
    LET n == NodeOf[p]
        committed == n \in Members
    IN  /\ up[p] = "new"
        /\ e \in 1..epoch
        /\ committed \/ (Active /\ n \in target)
        /\ committed => n \notin fenced /\ instance[n] = None
        /\ fenced' = IF committed THEN fenced ELSE fenced \ {n}
        /\ instance' = [instance EXCEPT ![n] = p]
        /\ up' = [up EXCEPT ![p] = "up"]
        /\ pepoch' = [pepoch EXCEPT ![p] = e]
        /\ UNCHANGED <<epoch, topo, kind, phase, target, ready, failed, grants,
                       quarantine, executor, lease, fence, renewals>>

(* install_topology and refresh_topology, for a call that may arrive late:
   any published topology newer than the installed one.  Another epoch clears
   the lease; the write fence is kept. *)
InstallTopology(p, e) ==
    /\ up[p] = "up"
    /\ e \in (pepoch[p] + 1)..epoch
    /\ pepoch' = [pepoch EXCEPT ![p] = e]
    /\ lease' = [lease EXCEPT ![p] = NoLease]
    /\ UNCHANGED <<durable, grants, quarantine, executor, up, fence, renewals>>

(* renew_lease_once, first half: sent_at is now, so the lifetime the answer
   can still give starts to run down here.  A request for an older epoch is
   refused whenever it arrives, so it is left out. *)
SendRenewal(p) ==
    /\ up[p] = "up" /\ pepoch[p] = epoch
    /\ Cardinality({m \in renewals : m.proc = p}) < MaxRenewals
    /\ renewals' = renewals \cup
          {[proc |-> p, epoch |-> pepoch[p], left |-> L, granted |-> FALSE]}
    /\ UNCHANGED <<durable, grants, quarantine, executor, procVars>>

(* Mistake: the grant is one tick too long. *)
GrantLease_TooLong(m) ==
    LET n == NodeOf[m.proc] IN
    /\ ~m.granted
    /\ m.epoch = epoch
    /\ n \in Members
    /\ instance[n] = m.proc
    /\ n \notin fenced
    /\ ~(phase = "published" /\ ~ready)
    /\ grants' = [grants EXCEPT ![n] =
                    [proc |-> m.proc, epoch |-> epoch, left |-> L + 1]]
    /\ renewals' = (renewals \ {m}) \cup {[m EXCEPT !.granted = TRUE]}
    /\ UNCHANGED <<durable, quarantine, executor, procVars>>

(* renew_node_lease: granted under the state lock, from the committed
   topology. *)
GrantLease(m) ==
    LET n == NodeOf[m.proc] IN
    /\ ~m.granted
    /\ m.epoch = epoch
    /\ n \in Members
    /\ instance[n] = m.proc
    /\ n \notin fenced
    /\ ~(phase = "published" /\ ~ready)
    /\ grants' = [grants EXCEPT ![n] =
                    [proc |-> m.proc, epoch |-> epoch, left |-> L]]
    /\ renewals' = (renewals \ {m}) \cup {[m EXCEPT !.granted = TRUE]}
    /\ UNCHANGED <<durable, quarantine, executor, procVars>>

(* Mistake: the lease is counted from the receipt of the answer. *)
ReceiveLease_FromReceipt(m) ==
    LET p == m.proc IN
    /\ m.granted
    /\ L - m.left <= RenewTimeout
    /\ m.epoch = pepoch[p]
    /\ lease' = [lease EXCEPT ![p] = [epoch |-> m.epoch, left |-> L]]
    /\ renewals' = renewals \ {m}
    /\ UNCHANGED <<durable, grants, quarantine, executor, up, pepoch, fence>>

(* renew_lease_once, second half: an answer in time, for the epoch still
   installed. *)
ReceiveLease(m) ==
    LET p == m.proc IN
    /\ m.granted
    /\ L - m.left <= RenewTimeout
    /\ m.epoch = pepoch[p]
    /\ lease' = [lease EXCEPT ![p] = [epoch |-> m.epoch, left |-> m.left]]
    /\ renewals' = renewals \ {m}
    /\ UNCHANGED <<durable, grants, quarantine, executor, up, pepoch, fence>>

(* A call refused, lost, or given up by its caller. *)
DropRenewal(m) ==
    /\ renewals' = renewals \ {m}
    /\ UNCHANGED <<durable, grants, quarantine, executor, procVars>>

-----------------------------------------------------------------------------
(* Changes up to their publication. *)

(* A new change has a new change_id, so a fence still set is not its own. *)
NewChangeId ==
    fence' = [p \in Procs |-> IF fence[p] = "own" THEN "other" ELSE fence[p]]

(* begin_topology_change: one change at a time.  A change of policy keeps the members,
   and so may a move, whose replica obligations are new then; a shrinking change may
   use the natural-successor merge. *)
BeginChange(k, M) ==
    /\ ~Active
    /\ epoch < MaxEpoch
    /\ k = "policy" => M = Members
    /\ k = "merge" => M \subseteq Members /\ M # Members
    /\ kind' = k /\ phase' = "planned" /\ target' = M
    /\ ready' = FALSE /\ failed' = None
    /\ stage' = "idle" /\ acked' = {}
    /\ NewChangeId
    /\ UNCHANGED <<epoch, topo, fenced, instance, grants, quarantine, suspect, up,
                   pepoch, lease, renewals>>

(* failure_confirmed: no current lease, or two other leased members have
   reported it.  How long a report has to last is left out: authority must not
   depend on suspicion being right. *)
FailureConfirmed(n) ==
    \/ ~HasLease(n)
    \/ Cardinality({o \in Nodes \ {n} : HasLease(o)}) >= 2

(* run_failure_pass, first half: the failure is confirmed on a copy of the state. *)
ConfirmFailure(n) ==
    /\ ~Active
    /\ quarantine = 0
    /\ n \in Members /\ Members # {n}
    /\ instance[n] # None /\ n \notin fenced
    /\ FailureConfirmed(n)
    /\ suspect' = n
    /\ UNCHANGED <<durable, grants, quarantine, stage, acked, procVars, renewals>>

(* run_failure_pass, second half: the fence and the change are stored in one write, if
   the committed topology is still the copy's and no change is under way.  The node
   may have been leased again since. *)
BeginFailure(n) ==
    /\ suspect = n
    /\ ~Active
    /\ epoch < MaxEpoch
    /\ n \in Members /\ Members # {n}
    /\ kind' = "failure" /\ phase' = "planned" /\ target' = Members \ {n}
    /\ ready' = FALSE /\ failed' = n
    /\ fenced' = fenced \cup {n}
    /\ stage' = "idle" /\ acked' = {} /\ suspect' = None
    /\ NewChangeId
    /\ UNCHANGED <<epoch, topo, instance, grants, quarantine, up, pepoch, lease,
                   renewals>>

(* Publication: the target becomes the committed topology in the same durable
   write that moves the phase.  A failure confirmed under the old one is not stored. *)
Publish(M, isReady) ==
    /\ epoch < MaxEpoch
    /\ epoch' = epoch + 1
    /\ topo' = [topo EXCEPT ![epoch + 1] = M]
    /\ phase' = "published"
    /\ ready' = isReady
    /\ stage' = "idle" /\ acked' = {} /\ suspect' = None

(* execute_change for moved ranges: what is copied before is in another module;
   the new owners' registered processes were just asked for their identity. *)
PublishMove ==
    /\ kind = "move" /\ phase = "planned"
    /\ \A n \in target \ Members : Reachable(n)
    /\ Publish(target, FALSE)
    /\ UNCHANGED <<kind, target, failed, fenced, instance, grants, quarantine,
                   procVars, renewals>>

(* pause_policy_writes on one member, for a policy change or a merge; refused
   while another change's fence is set. *)
PauseWrites(n) ==
    /\ kind \in {"policy", "merge"} /\ phase = "planned"
    /\ stage \in {"idle", "fence"}
    /\ n \in Members \ acked /\ Reachable(n)
    /\ pepoch[instance[n]] = epoch
    /\ fence[instance[n]] # "other"
    /\ stage' = "fence" /\ acked' = acked \cup {n}
    /\ fence' = [fence EXCEPT ![instance[n]] = "own"]
    /\ UNCHANGED <<durable, grants, quarantine, suspect, up, pepoch, lease, renewals>>

PublishPolicy ==
    /\ kind = "policy" /\ phase = "planned"
    /\ stage = "fence" /\ acked = Members
    /\ Publish(target, FALSE)
    /\ UNCHANGED <<kind, target, failed, fenced, instance, grants, quarantine,
                   procVars, renewals>>

(* execute_direct_merge, once every member is fenced: prove_removal_owner_leases. *)
ProveMergeLeases ==
    /\ kind = "merge" /\ phase = "planned"
    /\ stage = "fence" /\ acked = Members
    /\ \A n \in target : HasLease(n)
    /\ stage' = "proved"
    /\ UNCHANGED <<durable, grants, quarantine, acked, suspect, procVars, renewals>>

(* After the wait for the successors to catch up it is published with activation_ready
   set.  What is compared again before cannot have changed here: the topology, the
   processes, the fenced nodes.  Leases may have run out. *)
PublishMerge ==
    /\ kind = "merge" /\ phase = "planned"
    /\ stage = "proved"
    /\ Publish(target, TRUE)
    /\ UNCHANGED <<kind, target, failed, fenced, instance, grants, quarantine,
                   procVars, renewals>>

(* execute_failed_change: waits for the failed node's last grant and for the
   startup quarantine, then publishes with activation_ready set. *)
PublishFailure ==
    /\ kind = "failure" /\ phase = "planned"
    /\ grants[failed].left = 0
    /\ quarantine = 0
    /\ \A n \in target : HasLease(n)
    /\ failed \in fenced
    /\ Publish(target, TRUE)
    /\ instance' = [instance EXCEPT ![failed] = None]
    /\ UNCHANGED <<kind, target, failed, fenced, grants, quarantine, procVars,
                   renewals>>

(* abort_prepublication_change: durable before any fence is released. *)
Abort ==
    /\ kind \in {"move", "policy", "merge"} /\ phase = "planned"
    /\ phase' = "aborting"
    /\ stage' = "idle" /\ acked' = {}
    /\ UNCHANGED <<epoch, topo, kind, target, ready, failed, fenced, instance,
                   grants, quarantine, suspect, procVars, renewals>>

(* execute_direct_merge when preparing the coverage fails: the change is
   aborted without a fence release, also when an earlier attempt had set
   fences. *)
AbortMergePreparation ==
    /\ kind = "merge" /\ phase = "planned" /\ stage = "idle"
    /\ phase' = "aborted"
    /\ UNCHANGED <<epoch, topo, kind, target, ready, failed, fenced, instance,
                   grants, quarantine, executor, procVars, renewals>>

(* resume_policy_writes on one member, which clears only this change's fence:
   the members of the base when a change
   aborts, of the target when it completes. *)
ResumeWrites(n) ==
    /\ kind \in {"policy", "merge"}
    /\ \/ phase = "aborting" /\ stage \in {"idle", "release"}
       \/ phase = "published" /\ stage = "release"
    /\ n \in Members /\ Reachable(n)
    /\ n \notin acked
    /\ stage' = "release"
    /\ acked' = acked \cup {n}
    /\ fence' = [fence EXCEPT ![instance[n]] =
                                    IF @ = "own" THEN "clear" ELSE @]
    /\ UNCHANGED <<durable, grants, quarantine, suspect, up, pepoch, lease, renewals>>

(* finish_abort. *)
FinishAbort ==
    /\ phase = "aborting"
    /\ kind \in {"policy", "merge"} => acked = Members
    /\ phase' = "aborted"
    /\ stage' = "idle" /\ acked' = {}
    /\ UNCHANGED <<epoch, topo, kind, target, ready, failed, fenced, instance,
                   grants, quarantine, suspect, procVars, renewals>>

-----------------------------------------------------------------------------
(* Changes after their publication. *)

(* An executor that met an error returns; the recovery loop starts it again
   from the durable phase. *)
RetryChange ==
    /\ stage # "idle"
    /\ stage' = "idle" /\ acked' = {}
    /\ UNCHANGED <<durable, grants, quarantine, suspect, procVars, renewals>>

(* Who has to install the topology before anybody is leased under it: the old
   sources too, except in a recovered change, whose only source was lost. *)
Installers == IF kind = "recovery" THEN target ELSE Sources \cup target

(* finish_published_change and finish_recovered_change, first half: installed
   without a lease. *)
AckInstall(n) ==
    /\ kind \in {"move", "policy", "recovery"}
    /\ phase = "published" /\ ~ready
    /\ stage \in {"idle", "install"}
    /\ n \in Installers \ acked
    /\ Reachable(n) /\ pepoch[instance[n]] = epoch
    /\ stage' = "install" /\ acked' = acked \cup {n}
    /\ UNCHANGED <<durable, grants, quarantine, suspect, procVars, renewals>>

(* Mistake: one member that has installed the topology is taken for all of them. *)
SetActivationReady_Some ==
    /\ kind \in {"move", "policy", "recovery"}
    /\ phase = "published" /\ ~ready
    /\ stage = "install" /\ acked # {}
    /\ kind = "recovery" =>
          /\ quarantine = 0
          /\ \A n \in Nodes : grants[n].left = 0
    /\ ready' = TRUE
    /\ stage' = "idle" /\ acked' = {}
    /\ UNCHANGED <<epoch, topo, kind, phase, target, failed, fenced, instance,
                   grants, quarantine, suspect, procVars, renewals>>

(* set_activation_ready; a recovered change first waits until every grant has
   run out. *)
SetActivationReady ==
    /\ kind \in {"move", "policy", "recovery"}
    /\ phase = "published" /\ ~ready
    /\ stage = "install" /\ acked = Installers
    /\ kind = "recovery" =>
          /\ quarantine = 0
          /\ \A n \in Nodes : grants[n].left = 0
    /\ ready' = TRUE
    /\ stage' = "idle" /\ acked' = {}
    /\ UNCHANGED <<epoch, topo, kind, phase, target, failed, fenced, instance,
                   grants, quarantine, suspect, procVars, renewals>>

(* finish_direct_merge: a removed member installs the target topology, or is
   taken for stopped because it does not answer. *)
RemoveMember(n) ==
    /\ kind = "merge" /\ phase = "published" /\ stage \in {"idle", "remove"}
    /\ n \in Removed \ acked
    /\ stage' = "remove" /\ acked' = acked \cup {n}
    /\ \/ /\ Reachable(n) /\ pepoch[instance[n]] = epoch
          /\ UNCHANGED instance
       \/ /\ MergeOutage \/ ~Reachable(n)
          /\ instance' = [instance EXCEPT ![n] = None]
    /\ UNCHANGED <<epoch, topo, kind, phase, target, ready, failed, fenced,
                   grants, quarantine, suspect, procVars, renewals>>

(* Every removed member of the merge is dealt with. *)
MembersRemoved ==
    /\ kind = "merge" /\ phase = "published" /\ stage = "remove"
    /\ acked = Removed
    /\ stage' = "lease" /\ acked' = {}
    /\ UNCHANGED <<durable, grants, quarantine, suspect, procVars, renewals>>

(* install_on_members with require_lease: installed, and renewed in the new
   epoch. *)
AckLease(n) ==
    /\ phase = "published" /\ ready
    /\ stage = "lease" \/ (stage = "idle" /\ kind # "merge")
    /\ n \in target \ acked
    /\ Reachable(n)
    /\ pepoch[instance[n]] = epoch
    /\ lease[instance[n]].left > 0
    /\ stage' = "lease" /\ acked' = acked \cup {n}
    /\ UNCHANGED <<durable, grants, quarantine, suspect, procVars, renewals>>

(* Every target member serves: release the write fences, or go on. *)
MembersLeased ==
    /\ phase = "published" /\ stage = "lease" /\ acked = target
    /\ IF kind \in {"policy", "merge"}
       THEN stage' = "release" /\ UNCHANGED phase
       ELSE /\ stage' = "idle"
            /\ phase' = IF kind \in {"failure", "recovery"} THEN "done" ELSE "cleanup"
    /\ acked' = {}
    /\ UNCHANGED <<epoch, topo, kind, target, ready, failed, fenced, instance,
                   grants, quarantine, suspect, procVars, renewals>>

(* Mistake: the change goes on without waiting for the releases it has asked for. *)
WritesResumed_Unacknowledged ==
    /\ phase = "published" /\ stage = "release"
    /\ phase' = "cleanup"
    /\ stage' = "idle" /\ acked' = {}
    /\ UNCHANGED <<epoch, topo, kind, target, ready, failed, fenced, instance,
                   grants, quarantine, suspect, procVars, renewals>>

WritesResumed ==
    /\ phase = "published" /\ stage = "release" /\ acked = target
    /\ phase' = "cleanup"
    /\ stage' = "idle" /\ acked' = {}
    /\ UNCHANGED <<epoch, topo, kind, target, ready, failed, fenced, instance,
                   grants, quarantine, suspect, procVars, renewals>>

(* A removed member is stopped and its identity forgotten.  Whether it really
   stops is another module's question. *)
StopRemoved(n) ==
    /\ phase = "cleanup"
    /\ n \in Removed /\ instance[n] # None
    /\ instance' = [instance EXCEPT ![n] = None]
    /\ \/ ProcessGone(instance[n])
       \/ UNCHANGED <<procVars, renewals>>
    /\ UNCHANGED <<epoch, topo, kind, phase, target, ready, failed, fenced,
                   grants, quarantine, executor>>

Complete ==
    /\ phase = "cleanup"
    /\ \A n \in Removed : instance[n] = None
    /\ phase' = "done"
    /\ UNCHANGED <<epoch, topo, kind, target, ready, failed, fenced, instance,
                   grants, quarantine, executor, procVars, renewals>>

(* recover_pending_change_failure: a published pure join whose new node is lost
   before anybody was leased is superseded by the old membership. *)
RecoverJoin(x) ==
    /\ kind = "move" /\ phase = "published" /\ ~ready
    /\ x \in Members /\ Base = Members \ {x} /\ Base # {}
    /\ \A n \in Base : Reachable(n)
    /\ Publish(Base, FALSE)
    /\ kind' = "recovery" /\ target' = Base
    /\ fenced' = fenced \cup {x}
    /\ instance' = [instance EXCEPT ![x] = None]
    /\ UNCHANGED <<failed, grants, quarantine, procVars, renewals>>

-----------------------------------------------------------------------------
CoordinatorStep ==
    \/ RestartCoordinator
    \/ \E k \in Kinds, M \in MemberSets : BeginChange(k, M)
    \/ \E n \in Nodes : ConfirmFailure(n)
    \/ \E n \in Nodes : BeginFailure(n)
    \/ PublishMove \/ PublishPolicy \/ ProveMergeLeases \/ PublishMerge
    \/ PublishFailure
    \/ \E n \in Nodes : PauseWrites(n)
    \/ \E n \in Nodes : ResumeWrites(n)
    \/ Abort \/ AbortMergePreparation \/ FinishAbort
    \/ RetryChange
    \/ \E n \in Nodes : AckInstall(n)
    \/ SetActivationReady
    \/ \E n \in Nodes : RemoveMember(n)
    \/ MembersRemoved
    \/ \E n \in Nodes : AckLease(n)
    \/ MembersLeased \/ WritesResumed
    \/ \E n \in Nodes : StopRemoved(n)
    \/ Complete
    \/ \E x \in Nodes : RecoverJoin(x)

ProcessStep ==
    \/ \E p \in Procs : Crash(p)
    \/ \E p \in Procs : \E e \in Epochs : Register(p, e)
    \/ \E p \in Procs : \E e \in Epochs : InstallTopology(p, e)
    \/ \E p \in Procs : SendRenewal(p)
    \/ \E m \in renewals : GrantLease(m)
    \/ \E m \in renewals : ReceiveLease(m)
    \/ \E m \in renewals : DropRenewal(m)

Next == Tick \/ CoordinatorStep \/ ProcessStep

Spec == Init /\ [][Next]_vars

-----------------------------------------------------------------------------
(* Types: every variable keeps the shape the code gives it. *)
TypeOK ==
    /\ epoch \in Epochs
    /\ topo \in [Epochs -> SUBSET Nodes]
    /\ kind \in {"none", "move", "merge", "policy", "failure", "recovery"}
    /\ phase \in {"planned", "aborting", "aborted", "published", "cleanup", "done"}
    /\ target \in MemberSets
    /\ ready \in BOOLEAN
    /\ failed \in Nodes \cup {None}
    /\ fenced \in SUBSET Nodes
    /\ instance \in [Nodes -> Procs \cup {None}]
    /\ grants \in [Nodes -> Grant]
    /\ quarantine \in 0..L
    /\ stage \in {"idle", "fence", "proved", "install", "remove", "lease", "release"}
    /\ acked \in SUBSET Nodes
    /\ suspect \in Nodes \cup {None}
    /\ up \in [Procs -> {"new", "up", "dead"}]
    /\ pepoch \in [Procs -> Epochs \cup {0}]
    /\ lease \in [Procs -> Lease]
    /\ fence \in [Procs -> {"clear", "own", "other"}]
    /\ renewals \in SUBSET Renewal

(* No stale reader: while some process accepts writes to a range, no other
   process answers reads of it, whatever topology each has installed.  This is
   what finish_published_change, finish_direct_merge and execute_failed_change
   install, wait and lease for. *)
NoStaleReader ==
    \A r \in Ranges : \A p, q \in Procs :
        CanWrite(p, r) /\ CanRead(q, r) => p = q

(* A node's authority ends no later than the coordinator believes: a lease, or
   an answer on its way, never outlives the grant on record or, when a restart
   lost that record, the startup quarantine (renew_lease_once counts from before
   the request, renew_node_lease from its arrival). *)
LeaseWithinGrant ==
    /\ \A p \in Procs :
          lease[p].left <= grants[NodeOf[p]].left \/ lease[p].left <= quarantine
    /\ \A m \in renewals : m.granted =>
          m.left <= grants[NodeOf[m.proc]].left \/ m.left <= quarantine

(* A change under a write fence that is over for its clients has left no member
   of the new topology fenced, whatever was lost or retried on the way: the
   release in finish_direct_merge and finish_published_change reaches them all. *)
CompletedChangeLeavesNoFence ==
    phase \in {"cleanup", "done"} =>
        \A n \in target : instance[n] # None => fence[instance[n]] # "own"

(* An aborted change leaves no member fenced against writes: finish_abort, or the
   early return of execute_direct_merge, has released what was set. *)
AbortedChangeLeavesNoFence ==
    phase = "aborted" => \A p \in Procs : fence[p] # "own"

-----------------------------------------------------------------------------
(* The inductive invariant behind NoStaleReader.  A process holds authority when
   it has a lease, or when the answer to its renewal is on its way. *)

Holds(p) ==
    \/ lease[p].left > 0
    \/ \E m \in renewals : m.granted /\ m.proc = p /\ m.epoch = pepoch[p] /\ m.left > 0

HoldsCurrent(p) == Holds(p) /\ pepoch[p] = epoch

HoldsOld(p) == Holds(p) /\ pepoch[p] # epoch

(* Processes: what a lease and an answer in flight belong to. *)
ProcessInv ==
    /\ \A p \in Procs :
          /\ pepoch[p] <= epoch
          /\ (up[p] = "up") <=> (pepoch[p] > 0)
          /\ lease[p].left > 0 => up[p] = "up" /\ lease[p].epoch = pepoch[p]
    /\ \A m \in renewals :
          /\ up[m.proc] # "new"
          /\ up[m.proc] = "up" => m.epoch <= pepoch[m.proc]

(* A registered instance is a started process of that node. *)
InstanceInv ==
    \A n \in Nodes : instance[n] # None =>
        NodeOf[instance[n]] = n /\ up[instance[n]] # "new"

(* The published topologies, and how the active change relates to them. *)
TopologyInv ==
    /\ \A e \in 1..epoch : topo[e] # {}
    /\ phase \in {"published", "cleanup"} => epoch > 1 /\ target = Members
    /\ phase = "published" /\ kind = "failure" =>
          target = Base \ {failed} /\ ready
    /\ phase = "published" /\ kind = "merge" => target \subseteq Base /\ ready
    /\ phase = "published" /\ kind = "recovery" =>
          epoch > 2 /\ topo[epoch - 2] = target
    /\ phase = "planned" /\ kind = "failure" => target = Members \ {failed}
    /\ phase = "planned" /\ kind = "merge" => target \subseteq Members
    /\ phase = "planned" /\ kind = "policy" => target = Members
    /\ phase = "published" => kind # "none"

(* What the executor's acknowledgements stand for while it runs. *)
ExecutorInv ==
    /\ stage = "idle" => acked = {}
    /\ stage \in {"fence", "proved"} => phase = "planned" /\ acked \subseteq Members
    /\ stage = "proved" => kind = "merge" /\ acked = Members
    /\ stage = "install" =>
          phase = "published" /\ ~ready /\ kind \in {"move", "policy", "recovery"}
    /\ stage = "remove" =>
          phase = "published" /\ kind = "merge" /\ acked \cap Members = {}
    /\ stage = "lease" => phase = "published" /\ ready
    /\ \A n \in acked : LET p == instance[n] IN
          /\ stage \in {"fence", "proved"} =>
                p # None /\ (up[p] = "up" => fence[p] = "own")
          /\ stage \in {"install", "lease"} =>
                p # None /\ (up[p] = "up" => pepoch[p] = epoch)
          /\ stage = "remove" /\ p # None => (up[p] = "up" => pepoch[p] = epoch)

(* Authority under the committed topology belongs to the registered process of
   a member, and to nobody while a published change is not ready. *)
CurrentInv ==
    \A p \in Procs : HoldsCurrent(p) =>
        /\ instance[NodeOf[p]] = p
        /\ NodeOf[p] \in Members
        /\ ~(phase = "published" /\ ~ready)

(* Authority under an older topology only survives while a published change is
   being installed, and only where it cannot conflict. *)
OldInv ==
    \A p \in Procs : HoldsOld(p) =>
        /\ phase = "published"
        /\ ready => kind \in {"merge", "failure"}
        /\ pepoch[p] = IF kind = "recovery" THEN epoch - 2 ELSE epoch - 1
        /\ instance[NodeOf[p]] = p
        /\ NodeOf[p] \in topo[pepoch[p]]
        /\ kind = "failure" => NodeOf[p] # failed
        /\ kind = "merge" /\ NodeOf[p] \notin target => fence[p] # "clear"

(* In a merge, a removed process that still reads faces only write-fenced
   members; once the executor leases them, there is none. *)
MergeInv ==
    kind = "merge" /\ phase = "published" =>
        /\ \A n \in target : instance[n] # None
        /\ stage \in {"lease", "release"} =>
              \A p \in Procs : HoldsOld(p) => NodeOf[p] \in target
        /\ (\E p \in Procs : HoldsOld(p) /\ NodeOf[p] \notin target) =>
              \A n \in target : up[instance[n]] = "up" => fence[instance[n]] # "clear"

(* Nobody reads under an older topology while fences are being released. *)
ReleaseInv ==
    phase = "published" /\ stage = "release" => \A p \in Procs : ~HoldsOld(p)

(* What holds whatever an unanswered removal means. *)
StateInv ==
    /\ TypeOK
    /\ ProcessInv
    /\ InstanceInv
    /\ TopologyInv
    /\ LeaseWithinGrant
    /\ ExecutorInv

(* Authority is accounted for. *)
AccountInv == CurrentInv /\ OldInv /\ MergeInv /\ ReleaseInv

AuthorityInv == StateInv /\ AccountInv

-----------------------------------------------------------------------------
(* Why CompletedChangeLeavesNoFence holds. *)

WriteFenced(n) == instance[n] # None /\ fence[instance[n]] = "own"

(* Only a policy change or a merge fences, and only processes that registered; a
   member whose release was acknowledged is not fenced again. *)
FenceInv ==
    /\ \A p \in Procs : fence[p] = "own" => up[p] # "new" /\ kind \in {"policy", "merge"}
    /\ phase = "published" /\ stage = "release" => \A n \in acked : ~WriteFenced(n)
    /\ CompletedChangeLeavesNoFence
=============================================================================

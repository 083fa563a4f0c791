----------------------------- MODULE Replication -----------------------------
(***************************************************************************)
(* One owner and its followers during one topology epoch: the write path,  *)
(* the per-follower replication streams, the wait for required             *)
(* acknowledgements, and the coordinator's repair that seeds a follower    *)
(* and admits it.                                                          *)
(*                                                                         *)
(* A record is its owner_sequence: all versions of the epoch come from     *)
(* this owner.  Version 1 stands for what the owner held when the epoch    *)
(* began.  A follower keeps its process for the whole epoch, because       *)
(* register_node refuses another process for a committed member; it may    *)
(* crash, and then it is gone until a later epoch.                         *)
(*                                                                         *)
(* The owner may crash at any moment.  It does nothing afterwards, so the  *)
(* invariants describe what a crash leaves behind.                         *)
(***************************************************************************)
EXTENDS Integers, Sequences

CONSTANTS
    Followers,    \* the placement's followers
    Policies,     \* sets of followers that a write_ack_policy names
    Keys,
    Mutations,    \* mutation ids
    KeyOf,        \* [Mutations -> Keys]
    Attempts,     \* [Mutations -> Nat]: calls with that id that may overlap
    QueueCap,     \* entries a stream holds before reserve refuses
    FpWindow,     \* MAX_REPLICATION_FINGERPRINTS
    LateInstall,  \* may a follower still have the previous topology?
    MaxFaults     \* bound: lost answers and interrupted repairs

ASSUME ReplicationAssumption ==
    /\ Policies \subseteq SUBSET Followers
    /\ KeyOf \in [Mutations -> Keys] /\ Attempts \in [Mutations -> Nat]
    /\ QueueCap \in Nat \ {0} /\ FpWindow \in Nat \ {0} /\ MaxFaults \in Nat
    /\ LateInstall \in BOOLEAN

Calls == UNION {{m} \X (1..Attempts[m]) : m \in Mutations}

VARIABLES
    \* the owner
    required,   \* followers that write_ack_policy names, for the whole epoch
    store,      \* records
    next,       \* next_sequence
    rver,       \* version in a mutation's receipt, 0 without one
    need,       \* required_acks of the receipt
    log,        \* entries dispatched to a follower; the index is the stream_sequence
    head,       \* how many of them its worker is done with
    failed,     \* failed_streams
    ack,        \* ack_progress
    admitted,   \* admitted_followers of the lease
    leased,     \* is the lease valid?
    paused,     \* writes_paused of the source migration to a follower
    call,       \* state of each client call
    succeeded,  \* mutations reported as successful
    \* the wire between a stream's worker and the follower
    sent,       \* is a copy of the entry at head + 1 on its way?
    wire,       \* what the worker waits for, or has got
    \* followers
    fstate,     \* "old" topology, "up", or "dead"
    frec,       \* records
    fdedup,     \* receipts
    applied,    \* applied_sequence
    ckpt,       \* checkpoint_sequence
    lastOwner,  \* last_owner_sequence
    fps,        \* stream sequences whose fingerprint is retained
    \* the coordinator
    repair,     \* how far the repair of a follower has come
    admissions, \* replica_admissions
    faults

ownerData == <<required, store, next, rver, need, log>>
streams == <<head, failed, ack, sent, wire>>
followers == <<fstate, frec, fdedup, applied, ckpt, lastOwner, fps>>
lease == <<admitted, leased>>
clients == <<call, succeeded>>
vars == <<required, store, next, rver, need, log, head, failed, ack, admitted,
          leased, paused, call, succeeded, sent, wire, fstate, frec, fdedup, applied, ckpt,
          lastOwner, fps, repair, admissions, faults>>

Idle == [tag |-> "idle", seq |-> 0]

Init ==
    /\ required \in Policies
    /\ store = [k \in Keys |-> 1] /\ next = 1
    /\ rver = [m \in Mutations |-> 0]
    /\ need = [m \in Mutations |-> {}]
    /\ log = [f \in Followers |-> <<>>]
    /\ head = [f \in Followers |-> 0]
    /\ failed = {} /\ ack = [f \in Followers |-> 0]
    /\ admitted = {} /\ leased = TRUE
    /\ paused = [f \in Followers |-> FALSE]
    /\ call = [c \in Calls |-> "idle"] /\ succeeded = {}
    /\ sent = [f \in Followers |-> FALSE]
    /\ wire = [f \in Followers |-> Idle]
    /\ fstate \in [Followers -> IF LateInstall THEN {"old", "up"} ELSE {"up"}]
    /\ frec = [f \in Followers |-> [k \in Keys |-> 0]]
    /\ fdedup = [f \in Followers |-> {}]
    /\ applied = [f \in Followers |-> 0]
    /\ ckpt = [f \in Followers |-> 0]
    /\ lastOwner = [f \in Followers |-> 0]
    /\ fps = [f \in Followers |-> {}]
    /\ repair = [f \in Followers |-> "idle"]
    /\ admissions = {} /\ faults = 0

-----------------------------------------------------------------------------
(* The owner's lease, as far as writes depend on it. *)

(* renew_lease_once: the answer may be older than the last admission, and leaves
   out followers that are fenced. *)
RenewLease(A) ==
    /\ A \subseteq admissions \cap required
    /\ leased' = TRUE /\ admitted' = A
    /\ UNCHANGED <<ownerData, streams, paused, clients, followers, repair,
                   admissions, faults>>

LoseLease ==
    /\ leased /\ faults < MaxFaults
    /\ leased' = FALSE /\ faults' = faults + 1
    /\ UNCHANGED <<ownerData, streams, admitted, paused, clients, followers, repair,
                   admissions>>

-----------------------------------------------------------------------------
(* put and delete. *)

(* ready_followers, read before the write lock is taken. *)
CheckReady(c) ==
    /\ call[c] = "idle" /\ c[1] \notin succeeded
    /\ leased /\ required \subseteq admitted
    /\ call' = [call EXCEPT ![c] = "ready"]
    /\ UNCHANGED <<ownerData, streams, lease, paused, succeeded, followers, repair,
                   admissions, faults>>

(* A receipt of an earlier attempt: wait for the same acknowledgements. *)
ReceiptHit(c) ==
    /\ call[c] \in {"idle", "ready"} /\ c[1] \notin succeeded
    /\ leased /\ rver[c[1]] # 0
    /\ call' = [call EXCEPT ![c] = "wait"]
    /\ UNCHANGED <<ownerData, streams, lease, paused, succeeded, followers, repair,
                   admissions, faults>>

(* reserve: every follower's stream alive and with room. *)
CanReserve ==
    \A f \in Followers : f \notin failed /\ Len(log[f]) - head[f] < QueueCap

(* What one accepted mutation does to the owner; one entry for every follower of
   the placement, admitted or not. *)
ApplyWrite(m) ==
    /\ next' = next + 1
    /\ store' = [store EXCEPT ![KeyOf[m]] = next + 1]
    /\ log' = [f \in Followers |-> Append(log[f], [m |-> m, v |-> next + 1])]
    /\ rver' = [rver EXCEPT ![m] = next + 1]
    /\ need' = [need EXCEPT ![m] = {<<f, Len(log[f]) + 1>> : f \in required}]

(* Mistake: a paused range still takes writes. *)
Write_Unpaused(c) ==
    /\ call[c] = "ready"
    /\ leased /\ rver[c[1]] = 0
    /\ CanReserve
    /\ ApplyWrite(c[1])
    /\ call' = [call EXCEPT ![c] = "wait"]
    /\ UNCHANGED <<required, streams, lease, paused, succeeded, followers, repair,
                   admissions, faults>>

(* The receipt is looked up again under the lock; a refused reservation rolls
   the stream sequences back. *)
Write(c) ==
    /\ call[c] = "ready"
    /\ leased /\ rver[c[1]] = 0
    /\ \A f \in Followers : ~paused[f]
    /\ CanReserve
    /\ ApplyWrite(c[1])
    /\ call' = [call EXCEPT ![c] = "wait"]
    /\ UNCHANGED <<required, streams, lease, paused, succeeded, followers, repair,
                   admissions, faults>>

(* Mistake: the admission is checked, the progress is not. *)
AckWrite_AnyProgress(c) ==
    LET m == c[1] IN
    /\ call[c] = "wait"
    /\ leased
    /\ \A r \in need[m] : r[1] \in admitted
    /\ succeeded' = succeeded \cup {m}
    /\ need' = [need EXCEPT ![m] = {}]
    /\ call' = [call EXCEPT ![c] = "idle"]
    /\ UNCHANGED <<required, store, next, rver, log, streams, lease, paused, followers,
                   repair, admissions, faults>>

(* wait_required_acks succeeds: progress, admission and lease are read again
   under the lock, and the receipt forgets its required acknowledgements. *)
AckWrite(c) ==
    LET m == c[1] IN
    /\ call[c] = "wait"
    /\ leased
    /\ \A r \in need[m] : r[1] \in admitted /\ ack[r[1]] >= r[2]
    /\ succeeded' = succeeded \cup {m}
    /\ need' = [need EXCEPT ![m] = {}]
    /\ call' = [call EXCEPT ![c] = "idle"]
    /\ UNCHANGED <<required, store, next, rver, log, streams, lease, paused, followers,
                   repair, admissions, faults>>

(* Refused, timed out, or outcome_unknown. *)
GiveUp(c) ==
    /\ call[c] \in {"ready", "wait"}
    /\ call' = [call EXCEPT ![c] = "idle"]
    /\ UNCHANGED <<ownerData, streams, lease, paused, succeeded, followers, repair,
                   admissions, faults>>

-----------------------------------------------------------------------------
(* deliver_replication_stream.  A batch is applied entry by entry and answered
   with the last sequence applied, so the model sends one entry at a time; the
   entries of a batch may then interleave with more, never with less. *)

Send(f) ==
    /\ f \notin failed /\ wire[f] = Idle
    /\ head[f] < Len(log[f])
    /\ sent' = [sent EXCEPT ![f] = TRUE]
    /\ wire' = [wire EXCEPT ![f] = [tag |-> "sent", seq |-> 0]]
    /\ UNCHANGED <<ownerData, head, failed, ack, lease, paused, clients, followers,
                   repair, admissions, faults>>

(* apply_replication_entry: the answer to the entry at stream sequence s. *)
Verdict(f, s) ==
    LET e == log[f][s] IN
    IF fstate[f] = "old" THEN "terminal"
    ELSE IF s <= applied[f]
         THEN IF s \in fps[f] \/ s <= ckpt[f] THEN "ok" ELSE "terminal"
    ELSE IF s # applied[f] + 1 THEN "retry"
    ELSE IF e.v <= lastOwner[f] \/ e.m \in fdedup[f] THEN "terminal"
    ELSE "apply"

(* What the follower stores for a new entry: the record only if it is newer. *)
ApplyEntry(f, s) ==
    LET e == log[f][s]
        k == KeyOf[e.m]
    IN  /\ frec' = [frec EXCEPT ![f][k] = IF e.v > @ THEN e.v ELSE @]
        /\ fdedup' = [fdedup EXCEPT ![f] = @ \cup {e.m}]
        /\ applied' = [applied EXCEPT ![f] = s]
        /\ lastOwner' = [lastOwner EXCEPT ![f] = e.v]
        /\ fps' = [fps EXCEPT ![f] = (@ \cup {s}) \ {s - FpWindow}]

(* replicate_mutations.  The copy may be one the worker no longer waits for. *)
Deliver(f) ==
    LET s == head[f] + 1
        verdict == Verdict(f, s)
        seq == IF verdict = "apply" THEN s ELSE applied[f]
        tag == IF verdict = "apply" THEN "ok" ELSE verdict
    IN  /\ sent[f] /\ fstate[f] # "dead"
        /\ IF verdict = "apply"
           THEN ApplyEntry(f, s)
           ELSE UNCHANGED <<frec, fdedup, applied, lastOwner, fps>>
        /\ wire' = [wire EXCEPT ![f] =
                      IF @.tag # "sent" THEN @
                      ELSE IF tag = "retry" THEN Idle ELSE [tag |-> tag, seq |-> seq]]
        /\ UNCHANGED <<ownerData, head, failed, ack, sent, lease, paused, clients,
                       fstate, ckpt, repair, admissions, faults>>

(* A lost request or answer, a timeout, or a full receipt store: try again. *)
Timeout(f) ==
    /\ wire[f] # Idle /\ faults < MaxFaults
    /\ wire' = [wire EXCEPT ![f] = Idle]
    /\ faults' = faults + 1
    /\ UNCHANGED <<ownerData, head, failed, ack, sent, lease, paused, clients,
                   followers, repair, admissions>>

(* The worker takes a successful answer. *)
Acknowledge(f) ==
    /\ wire[f].tag = "ok"
    /\ ack' = [ack EXCEPT ![f] = IF wire[f].seq > @ THEN wire[f].seq ELSE @]
    /\ head' = [head EXCEPT ![f] = @ + 1]
    /\ sent' = [sent EXCEPT ![f] = FALSE]
    /\ wire' = [wire EXCEPT ![f] = Idle]
    /\ UNCHANGED <<ownerData, failed, lease, paused, clients, followers, repair,
                   admissions, faults>>

(* Any answer that is neither a success nor a retryable_replication_status. *)
EndStream(f) ==
    /\ wire[f].tag = "terminal"
    /\ failed' = failed \cup {f}
    /\ wire' = [wire EXCEPT ![f] = Idle]
    /\ UNCHANGED <<ownerData, head, ack, sent, lease, paused, clients, followers,
                   repair, admissions, faults>>

-----------------------------------------------------------------------------
(* Followers. *)

(* install_topology or refresh_topology of this epoch. *)
Install(f) ==
    /\ fstate[f] = "old"
    /\ fstate' = [fstate EXCEPT ![f] = "up"]
    /\ UNCHANGED <<ownerData, streams, lease, paused, clients, frec, fdedup, applied,
                   ckpt, lastOwner, fps, repair, admissions, faults>>

Crash(f) ==
    /\ fstate[f] # "dead"
    /\ fstate' = [fstate EXCEPT ![f] = "dead"]
    /\ UNCHANGED <<ownerData, streams, lease, paused, clients, frec, fdedup, applied,
                   ckpt, lastOwner, fps, repair, admissions, faults>>

-----------------------------------------------------------------------------
(* seed_replica_group, for the one group of a stream.  Repairs run while no
   topology change does, so every member has installed the topology. *)

(* copy_replica aborts what an interrupted attempt left, once it is connected to
   both nodes.  The snapshot and the journal replay are another module's. *)
StartRepair(f) ==
    /\ repair[f] = "idle" /\ f \notin admissions
    /\ \A g \in Followers : fstate[g] # "old"
    /\ repair' = [repair EXCEPT ![f] = "copy"]
    /\ paused' = [paused EXCEPT ![f] = @ /\ fstate[f] = "dead"]
    /\ UNCHANGED <<ownerData, streams, lease, clients, followers, admissions, faults>>

PauseStream(f) ==
    /\ repair[f] = "copy" /\ fstate[f] = "up"
    /\ repair' = [repair EXCEPT ![f] = "paused"]
    /\ paused' = [paused EXCEPT ![f] = TRUE]
    /\ UNCHANGED <<ownerData, streams, lease, clients, followers, admissions, faults>>

(* commit_destination_range of the verified copy: the range's records are
   replaced, and the receipts of all copied mutations installed. *)
CommitCopy(f) ==
    /\ repair[f] = "paused" /\ fstate[f] = "up"
    /\ repair' = [repair EXCEPT ![f] = "committed"]
    /\ frec' = [frec EXCEPT ![f] = store]
    /\ fdedup' = [fdedup EXCEPT ![f] = @ \cup {m \in Mutations : rver[m] # 0}]
    /\ UNCHANGED <<ownerData, streams, lease, paused, clients, fstate, applied, ckpt,
                   lastOwner, fps, admissions, faults>>

(* Mistake: a checkpoint that does not advance the stream is refused. *)
InstallCheckpoint_Strict(f) ==
    /\ repair[f] = "committed" /\ fstate[f] = "up"
    /\ f \notin failed /\ Len(log[f]) > applied[f]
    /\ repair' = [repair EXCEPT ![f] = "checkpointed"]
    /\ applied' = [applied EXCEPT ![f] = Len(log[f])]
    /\ ckpt' = [ckpt EXCEPT ![f] = Len(log[f])]
    /\ UNCHANGED <<ownerData, streams, lease, paused, clients, fstate, frec, fdedup,
                   lastOwner, fps, admissions, faults>>

(* get_replication_progress of the owner, which refuses for a failed stream, and
   install_replication_checkpoint, which refuses to rewind. *)
InstallCheckpoint(f) ==
    /\ repair[f] = "committed" /\ fstate[f] = "up"
    /\ f \notin failed /\ Len(log[f]) >= applied[f]
    /\ repair' = [repair EXCEPT ![f] = "checkpointed"]
    /\ applied' = [applied EXCEPT ![f] = Len(log[f])]
    /\ ckpt' = [ckpt EXCEPT ![f] = Len(log[f])]
    /\ UNCHANGED <<ownerData, streams, lease, paused, clients, fstate, frec, fdedup,
                   lastOwner, fps, admissions, faults>>

(* cleanup_source_range: writes go on before the admission is durable. *)
ReleaseStream(f) ==
    /\ repair[f] = "checkpointed"
    /\ repair' = [repair EXCEPT ![f] = "released"]
    /\ paused' = [paused EXCEPT ![f] = FALSE]
    /\ UNCHANGED <<ownerData, streams, lease, clients, followers, admissions, faults>>

StoreAdmission(f) ==
    /\ repair[f] = "released"
    /\ repair' = [repair EXCEPT ![f] = "idle"]
    /\ admissions' = admissions \cup {f}
    /\ UNCHANGED <<ownerData, streams, lease, paused, clients, followers, faults>>

(* Mistake: the error path leaves the source paused. *)
AbortRepair_KeepsPause(f) ==
    /\ \/ repair[f] # "idle" /\ fstate[f] = "dead"
       \/ repair[f] = "committed" /\ f \in failed
    /\ repair' = [repair EXCEPT ![f] = "idle"]
    /\ UNCHANGED <<ownerData, streams, lease, paused, clients, followers, admissions,
                   faults>>

(* A step that fails, because the follower does not answer or the owner's stream
   is terminal: the error path releases the source. *)
AbortRepair(f) ==
    /\ \/ repair[f] # "idle" /\ fstate[f] = "dead"
       \/ repair[f] = "committed" /\ f \in failed
    /\ repair' = [repair EXCEPT ![f] = "idle"]
    /\ paused' = [paused EXCEPT ![f] = FALSE]
    /\ UNCHANGED <<ownerData, streams, lease, clients, followers, admissions, faults>>

(* A lost call ends the attempt, and its cleanup is best effort; a coordinator
   that crashes does not clean up at all. *)
InterruptRepair(f) ==
    /\ repair[f] # "idle" /\ faults < MaxFaults
    /\ repair' = [repair EXCEPT ![f] = "idle"]
    /\ paused' \in {paused, [paused EXCEPT ![f] = FALSE]}
    /\ faults' = faults + 1
    /\ UNCHANGED <<ownerData, streams, lease, clients, followers, admissions>>

-----------------------------------------------------------------------------
ClientStep(c) == CheckReady(c) \/ ReceiptHit(c) \/ Write(c) \/ AckWrite(c) \/ GiveUp(c)

StreamStep(f) == Send(f) \/ Deliver(f) \/ Acknowledge(f) \/ EndStream(f)

RepairStep(f) ==
    \/ StartRepair(f) \/ PauseStream(f) \/ CommitCopy(f) \/ InstallCheckpoint(f)
    \/ ReleaseStream(f) \/ StoreAdmission(f) \/ AbortRepair(f)

Next ==
    \/ \E A \in SUBSET required : RenewLease(A)
    \/ LoseLease
    \/ \E c \in Calls : ClientStep(c)
    \/ \E f \in Followers :
          StreamStep(f) \/ RepairStep(f) \/ Timeout(f) \/ InterruptRepair(f)
          \/ Install(f) \/ Crash(f)

(* The worker of a stream and the coordinator's recovery loop keep trying, and a
   topology reaches every live member.  Clients and faults promise nothing. *)
Fairness ==
    \A f \in Followers :
        WF_vars(StreamStep(f)) /\ WF_vars(RepairStep(f)) /\ WF_vars(Install(f))

Spec == Init /\ [][Next]_vars

FairSpec == Spec /\ Fairness
-----------------------------------------------------------------------------
Answers == [tag : {"idle", "sent", "ok", "terminal"}, seq : Nat]

(* Types of all variables: every version comes from next_sequence, and streams
   number their entries from one. *)
TypeOK ==
    /\ required \in Policies
    /\ next \in Nat /\ store \in [Keys -> 1..next]
    /\ rver \in [Mutations -> 0..next]
    /\ need \in [Mutations -> SUBSET (required \X (1..next))]
    /\ log \in [Followers -> Seq([m : Mutations, v : 2..next])]
    /\ head \in [Followers -> Nat] /\ ack \in [Followers -> Nat]
    /\ failed \subseteq Followers /\ admitted \subseteq required
    /\ leased \in BOOLEAN /\ paused \in [Followers -> BOOLEAN]
    /\ call \in [Calls -> {"idle", "ready", "wait"}]
    /\ succeeded \subseteq Mutations
    /\ sent \in [Followers -> BOOLEAN]
    /\ wire \in [Followers -> Answers]
    /\ fstate \in [Followers -> {"old", "up", "dead"}]
    /\ frec \in [Followers -> [Keys -> 0..next]]
    /\ fdedup \in [Followers -> SUBSET Mutations]
    /\ applied \in [Followers -> Nat] /\ ckpt \in [Followers -> Nat]
    /\ lastOwner \in [Followers -> 0..next]
    /\ fps \in [Followers -> SUBSET Nat]
    /\ repair \in [Followers -> {"idle", "copy", "paused", "committed",
                                 "checkpointed", "released"}]
    /\ admissions \subseteq Followers /\ faults \in 0..MaxFaults

(* The versions a follower has to hold at stream sequence n. *)
Shipped(f, n, k) ==
    {1} \cup {log[f][i].v : i \in {j \in 1..n : KeyOf[log[f][j].m] = k}}

(* An admitted follower misses nothing: it holds what the owner had when the
   epoch began and every entry up to its applied sequence, and no record the
   owner has not written.  seed_replica_group orders copy, pause, commit,
   checkpoint and admission for this.
   All variables keep their types. *)
AdmittedIsComplete == TypeOK /\
    \A f \in admissions : \A k \in Keys :
        /\ \A v \in Shipped(f, applied[f], k) : v <= frec[f][k]
        /\ frec[f][k] <= store[k]

(* A write reported as successful survives the loss of the owner: every follower
   the policy names holds its record, or a newer one, and its receipt.
   wait_required_acks takes progress from checkpoints and answers alike. *)
AckedWritesSurvive ==
    \A m \in succeeded : \A f \in required :
        fstate[f] # "dead" => frec[f][KeyOf[m]] >= rver[m] /\ m \in fdedup[f]

(* A repair that is retried comes to an end: the follower is admitted, unless it
   is lost or its stream has failed. *)
RepairConverges ==
    \A f \in Followers :
        <>(f \in admissions \/ fstate[f] = "dead" \/ f \in failed)

(* The write fence of a repair is always released again, also after an
   attempt whose cleanup was lost (cleanup_interrupted_repairs). *)
PauseIsReleased == \A f \in Followers : paused[f] ~> ~paused[f]

(* A pending repair of a live follower eventually completes: "A failed task
   remains pending; the next call can safely start it again." *)
RepairCompletes == \A f \in Followers : <>(f \in admissions \/ fstate[f] = "dead")

(* Replication never refuses writes for good while the followers live: the refusal
   says "retry with backoff". *)
WritesNotRefusedForever ==
    \A f \in Followers : []<>(f \notin failed \/ fstate[f] = "dead")

-----------------------------------------------------------------------------
(* The inductive invariant behind AdmittedIsComplete and AckedWritesSurvive. *)

Entries == [m : Mutations, v : Nat]

(* Every accepted mutation has one version, and one place in every stream. *)
OwnerInv ==
    /\ required \in Policies
    /\ next \in Nat /\ 1 <= next
    /\ store \in [Keys -> Nat] /\ \A k \in Keys : 1 <= store[k] /\ store[k] <= next
    /\ rver \in [Mutations -> Nat]
    /\ log \in [Followers -> Seq(Entries)]
    /\ \A f \in Followers : Len(log[f]) = next - 1
    /\ \A f \in Followers : \A i \in 1..(next - 1) :
          log[f][i].v = i + 1 /\ rver[log[f][i].m] = i + 1
    /\ \A m \in Mutations :
          rver[m] # 0 => /\ 2 <= rver[m] /\ rver[m] <= next
                         /\ rver[m] <= store[KeyOf[m]]
                         /\ \A f \in Followers : log[f][rver[m] - 1].m = m

(* What a worker has sent is in the stream, and no progress runs ahead of what
   the follower applied. *)
StreamInv ==
    /\ head \in [Followers -> Nat] /\ ack \in [Followers -> Nat] /\ failed \subseteq Followers
    /\ sent \in [Followers -> BOOLEAN]
    /\ wire \in [Followers -> Answers]
    /\ applied \in [Followers -> Nat]
    /\ \A f \in Followers :
          /\ applied[f] < next /\ ack[f] <= applied[f] /\ head[f] < next
          /\ sent[f] => head[f] + 1 < next
          /\ wire[f] # Idle => sent[f]
          /\ wire[f].tag = "ok" => wire[f].seq <= applied[f]

(* The follower has every mutation of the stream up to sequence n. *)
Complete(f, n) ==
    /\ \A k \in Keys : 1 <= frec[f][k]
    /\ \A m \in Mutations :
          rver[m] # 0 /\ rver[m] <= n + 1 => rver[m] <= frec[f][KeyOf[m]] /\ m \in fdedup[f]

(* A committed copy is complete while the pause lasts, and a checkpointed one as
   far as the stream has been applied. *)
CopyInv ==
    /\ repair \in [Followers -> {"idle", "copy", "paused", "committed", "checkpointed", "released"}]
    /\ paused \in [Followers -> BOOLEAN]
    /\ frec \in [Followers -> [Keys -> Nat]] /\ fdedup \in [Followers -> SUBSET Mutations]
    /\ \A f \in Followers :
          /\ \A k \in Keys : frec[f][k] <= store[k]
          /\ repair[f] \in {"paused", "committed", "checkpointed"} => paused[f]
          /\ repair[f] = "committed" => Complete(f, next - 1)
          /\ repair[f] \in {"checkpointed", "released"} \/ f \in admissions => Complete(f, applied[f])

(* The followers of which a lease says so are admitted. *)
AdmissionInv ==
    /\ admissions \subseteq Followers /\ admitted \subseteq required /\ admitted \subseteq admissions
    /\ leased \in BOOLEAN /\ faults \in 0..MaxFaults

(* A receipt waits for its own sequence on each required stream, and a success
   has seen all of them applied by admitted followers. *)
CallInv ==
    /\ need \in [Mutations -> SUBSET (required \X Nat)]
    /\ call \in [Calls -> {"idle", "ready", "wait"}] /\ succeeded \subseteq Mutations
    /\ \A c \in Calls : call[c] = "wait" => rver[c[1]] # 0
    /\ \A m \in Mutations : need[m] # {} =>
          rver[m] # 0 /\ need[m] = {<<f, rver[m] - 1>> : f \in required}
    /\ \A m \in Mutations : rver[m] # 0 /\ m \notin succeeded =>
          need[m] = {<<f, rver[m] - 1>> : f \in required}
    /\ \A m \in succeeded : rver[m] # 0 /\
          \A f \in required : f \in admissions /\ rver[m] <= applied[f] + 1

FollowerInv ==
    /\ fstate \in [Followers -> {"old", "up", "dead"}]
    /\ ckpt \in [Followers -> Nat] /\ fps \in [Followers -> SUBSET Nat]
    /\ lastOwner \in [Followers -> Nat] /\ \A f \in Followers : lastOwner[f] <= next

ReplicationInv ==
    OwnerInv /\ StreamInv /\ CopyInv /\ AdmissionInv /\ CallInv /\ FollowerInv
=============================================================================

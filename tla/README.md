# hashring-rs in TLA+

Models of the replicated, consistently hashed cache hashring-rs, checked with
TLC on small instances, and theorems about its ownership protocol, its ring, the
write path of a node, replication and migration, the client's retries and cache,
key listing and the Redis gateway, proved with TLAPS for instances of any size.
Every definition is translated from the Rust
code; `PROJECT.json` names the lines of each, the runs, the mutants that show
each property can fail, the hazards and the findings.

## The system and its parts

A singleton **coordinator** stores a `ClusterState` (redb): the committed
topology with its epoch, one active change with its phase, registered process
instances, fenced nodes, repairs and admissions. **Nodes** keep records in
memory; a node answers for a range while it holds a lease of its installed
epoch. **Clients** route by the ring and retry a mutation with one identifier.

| Part | State | Operations | Hard behaviour | Must hold |
|---|---|---|---|---|
| Leases | grants and startup quarantine (coordinator), deadline (node) | register, renew, grant, receive, fence | late and lost answers, lost grants after a restart | a lease ends no later than the coordinator believes |
| Topology changes | epoch, phase, target, `activation_ready`, fences | begin, pause, publish, install, activate, lease, release, stop, abort, resume | restart in any phase, unreachable members, wrong suspicion, replaced processes | nobody reads a range that another process writes; fences end with the change |
| Write path | records, receipts, required acks, per-follower streams | put, delete, reserve, dispatch, wait | overlapping attempts, readiness read before the lock | acknowledged writes survive the owner; a mutation applies once |
| Replication | stream sequence, checkpoint, fingerprints | send, apply, acknowledge, time out, end | retransmission, terminal streams, topology skew | an admitted follower misses nothing |
| Repair | task, pause, admission | copy, pause, commit, checkpoint, release, admit, abort | commits while entries are queued, interrupted attempts | it ends, and so does its pause |
| Range migration | captured keys and receipts, journal, staging | prepare, page, replay, pause, digest, commit, activate, clean up, reset, abort | writes and expiry during the copy, lost discards, replaced destination | the new owner has every record and receipt; writes resume |
| Receipts | receipt table, byte budget | look up, insert, purge, stage | retention, budget at its limit, two attempts at once | bytes match the receipts; a retained mutation applies once |
| Expiry | deadline index, deferred deadlines | write, read, sweep, defer, hand back | sweep against migration | each deadline is scheduled exactly once |
| Ring and planning | tokens, members, ranges | owner, replicas, plan, delta | token 0 and wrap-around, colliding tokens | a plan is the difference of two topologies |
| Coordinator state | `ClusterState`, repairs, admissions | plan, prove, publish, reconcile, validate, reload | proofs that go stale, restart anywhere | an owner has its data; an admission stands for a copy; every stored state can be loaded |
| Failure detector | observations, suspicion | probe, report, confirm | wrong suspicion | a removed owner's authority has ended |
| Stop handshake | stopping, prepared, stopped lists | prepare, stop, confirm | restart in between | a node stops only after its hand-off is durable |
| Client | cached topology, attempts of an operation | route, send, refresh, retry, give up | ambiguous outcomes, background refresh racing triggers | "not applied" is true for ever; the cache catches up |
| Key listing | page position, cursor | page, walk, scan, search | owners and keys change between pages | every lasting key is listed exactly once |
| Redis gateway | connections, shared client, stripe locks | run a command, lock, read, write on condition, reply | several gateways on one key, partial failures, deadlines | commands are atomic; TRYAGAIN can be sent again; replies in order |
| Configuration, diagnostics, experiment, Lua | none the cluster depends on | | | |

The modules divide the system by question and meet at named places.
`Authority` asks who may read and write and uses no data; `Placement` asks what
the coordinator may publish and reduces authority to "answers". `Replication`
is one owner's streams in one epoch; the copy that its `CommitCopy` makes in
one step is the protocol of `RangeMigration`. `Store` is the inside of one
owner and is shown to implement `AtomicStore`; `Client` is composed with that
abstract owner (`INSTANCE AtomicStore`) and adds attempts, routing and
ownership that moves. `Gateway` uses what `Client` shows to its caller: a write
takes effect once, or is rejected, or fails, perhaps to take effect later.
`Listing` takes the order of a move (copy, publish, install, activate, clean
up) from `Authority` and `RangeMigration`. `Ring` is the ring of `Placement`;
`Authority` takes its `Owner` from `Clockwise`, the definition `Ring` is checked
against.

## Modules

### Authority, AuthorityProofs

Time is a countdown: every deadline is the number of ticks left, so no clock
has to be bounded. `epoch, topo, kind, phase, target, ready, failed, fenced,
instance` are the stored `ClusterState`; `grants, quarantine, stage, acked` are
lost with the coordinator (`RestartCoordinator`), and so is `suspect`; `up, pepoch, lease, fence`
belong to node processes; `renewals` is the network. A process is its
`process_instance_id`: one that crashes does not return.

`SendRenewal`, `GrantLease`, `ReceiveLease` and `DropRenewal` split a renewal
into its request, `renew_node_lease`, and the answer that may be late or lost.
`BeginChange` starts a move, a direct merge or a policy change; a move may keep the
members and only re-plan. `ConfirmFailure` is the pass that finds a member's
lease ended or its failure reported by two leased members, `BeginFailure` the later step that removes it without a second look: the
suspicion may be wrong, and the node may have renewed in between.
`ProveMergeLeases` asks for the leases of the survivors of a merge before
`PublishMerge`, which does not ask again. Each kind has its publication
(`PublishMove`, `PublishMerge`, `PublishPolicy`, `PublishFailure`) and goes
through installation (`AckInstall`), `SetActivationReady`, leasing, release of
fences, stopping of removed nodes and completion in the order of its executor
in `change.rs`, `merge.rs` or `policy.rs`. `RecoverJoin` supersedes a join whose
node is lost. `Owner` is the table of `ClockwiseOwner` over the ranges and member
sets (`RingAssumption`); the proofs use only what `ConsistentHashing` says of it.

### Replication, ReplicationProofs

One owner and its followers in one epoch. A record is its `owner_sequence`.
`CheckReady` and `Write` are separate because `put` reads readiness before it
takes the write lock; `ReceiptHit` is a retry that finds a receipt; `AckWrite`
is `wait_required_acks`. A stream's index is the `stream_sequence`; `Send`,
`Deliver`, `Acknowledge`, `Timeout` and `EndStream` are the worker and
`replicate_mutations`, one entry at a time (a batch is applied entry by entry).
A repair runs through `StartRepair` to `StoreAdmission`, may fail
(`AbortRepair`) or be interrupted with its pause left behind
(`InterruptRepair`).

### RangeMigration, RangeMigrationProofs

One range between a source and a joining destination. `source` is
`SourceMigration`, `staging[c]` the `DestinationMigration` of change `c`. A
snapshot page is read and applied in two steps, since the source goes on
writing between them; a journal page is one step, since a page applied late is
still a prefix of the journal. `Interrupt` is a failed call or a coordinator
restart before publication, `Reset` and `FinishAbort` call `ClearNodes`, in
which the destination's discard may be lost (`MaxLost`). Versions count the writes
of the range and end at `MaxVersion`. The sweep defers the records of a prepared
range. `latest`, `applied` and `lapsed` are history: what
clients were told, how often a mutation took effect, which deadlines passed.

### Clockwise, Ring

`Clockwise` defines the owner of a token as the member met first when going
clockwise. `Ring` is the code's way to it: a sorted assignment table,
`partition_point` and the walk to distinct members (`ReplicaNodeIds`), derived
ranges, and `topology_delta` with its boundaries taken from both topologies.
Hashing is a parameter (`TokenOf`). The results for all member sets are
tabulated once, since every reachable topology asks for them.

### Placement

The stored `ClusterState` is the record `cs`; `lock, step, todo, seeds, proof`
are the executor that holds `execution_lock`, lost with the coordinator;
`alive, copy` say which process runs for a node and what it has of a key:
everything, everything but what its stream will bring, or nothing usable. Each
publication is one action with the check that the code makes under the state
lock: `PublishMove`, `PublishPolicy` (with its second look at readiness),
`MergeProve` and `MergePublish` (the proof is a snapshot that is compared
again), `PublishFailure`. An abort is durable as "Aborting" first (`Abort`) and ends
in `FinishAbort`, after a restart too; a merge that fails its preparation ends in
`AbortPreparation`, which releases nothing, so `fence` distinguishes the fence of the
active change from one of an earlier change. `BeginFailure` and `RecoverJoin` act on
outages that were confirmed some time ago (`PendingOutage`); the node may be leased
again. `Store` stands for reconcile, validate and
`store_state`. Repair passes seed streams one by one, before an activation the
ones `SelectSeeds` picks. The two coordinator loops share `execution_lock`.

### AtomicStore, Store, StoreProofs

`AtomicStore` is the promise: `TakeEffect` changes one record in one step and
binds the answer, `Recall` answers from a receipt, `Pass` is time. `Store` has
the two locked sections of `put`, `delete` and `set_expiry` (`BeginCall`; then
`FindReceipt`, `RefuseWrite` or `Apply`), and the wait for acknowledgements.
Every index of `NodeState` is a variable of its own: records by token, deadline
index, receipts by token and by deadline, byte budget, stream sequences.
`Reserved` and `RolledBack` are the reservation of all followers' queues.
`Reseed` moves every key within an epoch, also while a range is moving out
(`PrepareSource` to `RemoveSource`): the range was captured under the old seed, so
`source.current` is false from then on and its coverage is no longer claimed.
"fenced" among the refusals is a policy fence or a destination range that is not
activated yet. One clock stands for both of the node's clocks.

### Client, ClientProofs

One operation is a loop with one mutation id (`Invoke`, `Attempt`, `Receive`,
`RpcFails`, `ConnectFails`, `DeadlineExceeded`). A request carries no deadline:
attempts that were given up stay with the network or the owner and may take effect
at any later time, after the operation's deadline too (`Handle`). `StatusCodes` are the
codes an RPC may fail with, `StatusMayHaveApplied` and
`AccumulatedWriteAmbiguity` what the client concludes from them. A refresh
between two attempts may itself fail and then ends the operation (`Retry`).
`MoveRange` hands records and receipts over; `FailOver` is a promotion
that loses recent writes, which OwnerOnly allows.

### TopologyCache, TopologyCacheProofs

The cached topology, the refresh lock with its waiters in order, and the three
atomics of the background refresh, each load and store a step of its own.
Requests, background refreshes and the poller are tasks. `Commit` is the
coordinator publishing.

### Listing, ListingProofs

`Page` is `owned_keys_page`: where a page ends (`EndsAt`) between segments or
before a token, and, for `one_stretch`, where another owner begins. `WalkPage`,
`ScanPage` and `SearchPage` are the client's three loops; a walk pins its
epoch, a scan does not and may continue with another client's topology. A search
asks the owner of its random token (`node`), from that token on and then from the
beginning (`again`), and the owners in `left` after it, in any order: the code
takes them as the member list has them, which no property depends on.
`HandedOver` is what a move brings to the new owner of a key: what the old one holds.
`stable` and `ever` are history: keys live throughout, or at some time.

### Gateway, GatewayProofs

A connection runs one request at a time; a command on several keys has a part
per key, and every part locks its stripe, reads, decides and writes on its own.
A value is the sequence of commands that contributed to it, so that a lost
update shows. `ideal` is what the records would be if each command ran at the
instant its write took effect. `CallFails` and `Deadline` may leave a write in
`late`, which may take effect at any later time. A call that fails for good and
without effect (`OOM`, `CLUSTERDOWN`, `ERR`) is answered `TRYAGAIN` as well, the
answer that promises most, so that no property gains from the other codes. `Outcome` relates the parts of a
command to its answer, `Settle` is reply and mode. What `CLIENT REPLY` promises
(`Silent`) is stated over the requests answered so far, without the mode.

A definition `X_Y` marked "Mistake" is a plausible wrong version of `X`. It is
not part of any specification; putting it in place of `X` breaks the property
that `PROJECT.json` names with it.

## Runs

| Run | Checks | Instance |
|---|---|---|
| `authority` | `TypeOK`, `NoStaleReader`, `LeaseWithinGrant`, `CompletedChangeLeavesNoFence` | two nodes; joins, departures, merges, policy changes and failures over three epochs |
| `replication` | `AckedWritesSurvive`, `AdmittedIsComplete`, `RepairConverges`, `PauseIsReleased` | one follower, required or not; two mutations, one of them with two attempts; a fault; fair |
| `move` | `RetryAppliedOnce`, `LatestIsServed`, `ReplayedCopyVerifies`, `MoveEndsItsFence`, `WritesResume` | two keys, two mutations of one of them, two changes, two interruptions, a lost discard, a lost process, an expiry, fair |
| `placement` | `OwnerHoldsData`, `AdmissionMeansCopy`, `StoredStateReloads`, `RingMatchesReference`, `PlanIsExact`, `SelectedSeedsSuffice` | three nodes with five tokens of eight, two copies, three policies and guards, one crash |
| `store` | `IndicesMirrorStore`, `BudgetIsExact`, `StreamsHaveNoGap`, `MovingRangeIsCovered`, `ImplementsAtomicStore` | two keys, two overlapping calls, two followers, every limit at its edge |
| `client` | `DefiniteMeansNotApplied`, `AppliedAtMostOnce`, `OperationsReturn` (as `<>[]`: from some time on no operation is under way) | a conditional put with two attempts against another client's delete; a move or a failover; fair |
| `cache` | `NoTriggerIsLost`, `OneBackgroundRefresh`, `RetryUsesNewerTopology`, `CacheCatchesUp` | two requests, two background tasks, the poller, three epochs, two failures, fair |
| `listing` | `WalkIsExact`, `ScanIsExact`, `SearchIsTruthful`, `ListingEnds` | two nodes, six tokens, four keys, three topologies, a write, a failure, fair |
| `gateway` | `CommandsAreAtomic`, `MultiKeyRetryIsSafe`, `RenameLosesNothing`, `RepliesFollowRequests`, `CommandsReturn` | three connections at two gateways, two keys of one stripe, six mixes of commands, a fault, fair |
| `merge_outage`, `move_stale`, `gateway_rename` | one property each, violated | see Findings |

Every module has a type invariant; outside `Authority` it is a conjunct of one
of the invariants above, which says so.

**What the deep ones show.** `ImplementsAtomicStore` is a refinement: each step
of `Store` is a step of `AtomicStore` or changes nothing a client can see, so
sweeps, purges, reseeds and migrations are invisible and an answer never
contradicts the store. `DefiniteMeansNotApplied` is about the future as well: an
operation that was reported as not applied does not take effect later by an
attempt that was overtaken. `AppliedAtMostOnce` speaks of the time until the
operation's deadline: a retry handled later meets an owner whose receipt has
lapsed (`Client_late.cfg`). `CommandsAreAtomic` compares two histories, with and
without interleaving. `WalkIsExact` and `ScanIsExact` hold for every schedule of
pages, moves and clean-ups: what one owner drops another already serves.

**Bounds.** Two epochs contain a change from any phase to any other; `authority`
has a third, so that a change follows a change. A lease of two ticks and a
renewal of one separate "valid", "about to expire" and "expired"; the theorems
cover every length. One renewal in flight per process already meets every
topology change. In `replication` two mutations give an order and an overlap; a
fingerprint window of one is full after one entry; a queue of two refuses the
third. Streams of different followers share nothing but the owner's receipt and
reservation, and the reservation is checked with two followers in `store`. In
`move` the key without a mutation is only copied and the other one is also
written; `MaxVersion` lets each mutation be written at both nodes. In `placement` two of the tokens collide and the key at token 6 lies
exactly on one; the ranges wrap; a node may come back as a second process. In
`store` the budget has room for a receipt and a half, the queue, the journal and
the token bucket for one entry, so each limit is met in each order. In `client`
the timeout is longer than the retention. In `listing` a page has one key and
three examined entries, two keys share a token, and the token space ends inside a
segment. In `gateway` one of the mixes is a pipeline of every local command.
Fault counts bound lost answers, interruptions, crashes and failed calls; each of
them may happen anywhere.

**Deadlock** is checked in `cache`, where the poller never stops. Elsewhere a
model in which all bounded writes, changes and faults are used up has nothing
left to do.

**Fairness.** `Replication`: a stream's worker loops until the stream ends, the
coordinator's recovery loop takes repairs up again (`main.rs`, on its interval
and on wake-ups), and `install_topology` is retried for live members.
`RangeMigration`: the recovery loop resumes a pending change, and a lost joiner
is recovered. `Client`: time passes and timers fire, nothing else. 
`TopologyCache`: a task that can go on does, and the poller polls; the refresh
lock is first come, first served. `Listing`: the cluster finishes its change, and
the client's loop goes on. `Gateway`: as long as some connection can go on, one
does. Clients, faults and the expiry sweep are not fair. `RetryAppliedOnce`,
`MoveEndsItsFence`, `ReplayedCopyVerifies` and `WritesResume` promise nothing once
a discard of staging was lost (`AllDiscarded`), for the reason that `move_stale`
shows; `LatestIsServed` holds even then.

**Further configurations.** These are kept for questions the runs above do not
ask; TLC answers each in a few minutes.

| Configuration | Module | Result |
|---|---|---|
| `Authority_join.cfg` | `MCAuthority` | holds: a joining node is lost and comes back as another process |
| `Authority_failure.cfg` | `MCAuthority` | holds: three members, any of them suspected, rightly or wrongly |
| `Authority_merge_abort.cfg` | `MCAuthority` | `AbortedChangeLeavesNoFence` is violated |
| `Client_late.cfg` | `MCClient` | `RetryCannotApplyTwice` is violated |
| `Replication_repair.cfg` | `MCReplication` | `RepairCompletes` is violated |
| `Replication_skew.cfg` | `MCReplication` | `WritesNotRefusedForever` is violated |
| `RangeMigration_leftover.cfg` | `MCRangeMigration` | `MovedRangeTakesWrites` is violated |
| `Placement_status.cfg` | `MCPlacement` | `ReportedWritableTakesWrites` is violated |

## Proofs

`AuthorityProofs` proves for all nodes, processes, rings, lease lengths and
epoch bounds that satisfy the assumptions of `Authority`:

* `TypeCorrect`: `Spec => []TypeOK`;
* `LeasesWithinGrants`: `Spec => []LeaseWithinGrant`;
* `StaleReadersExcluded`: `Spec => []NoStaleReader`, if a removed member that
  does not answer has really stopped (`MergeOutage = FALSE`). The run
  `merge_outage` shows that the condition is needed;
* `CompletedChangesReleaseWrites`: `Spec => []CompletedChangeLeavesNoFence`, whatever
  an unanswered removal means.

`NoStaleReader` is not inductive: whether a process may read later depends on
answers in flight and on what the executor has been told. `AuthorityInv` adds
that. Its first half, `StateInv`, holds without any condition: leases belong to
running processes (`ProcessInv`), instances to their nodes (`InstanceInv`), the
published topologies fit the active change (`TopologyInv`), leases stay within
grants, and an acknowledgement stands for an installed topology or a set fence
(`ExecutorInv`). Its second half, `AccountInv`, accounts for authority: under
the committed epoch only registered members hold it, and nobody before
activation (`CurrentInv`); under an older epoch only while a change is being
installed and where it cannot conflict (`OldInv`); in a merge it faces only
write-fenced members until the removed ones are gone (`MergeInv`); and none is
left when fences are released (`ReleaseInv`). There is a lemma per conjunct,
with a step per action: first `StateInv` and the lemmas on who may come to hold
authority in a step, then `AccountInv` and the theorems. The last one needs `FenceInv` besides `StateInv`: only a
policy change or a merge fences, only processes that registered, and a member whose
release was acknowledged is not fenced again, since the change that could do it has been
published.

The same module proves `ConsistentHashing` for every set of nodes and every choice
of tokens, colliding ones included: the member met first clockwise is a member
of the set, and it stays the first when others leave. `Owner` is that member, so
the theorems above are about the ring the code uses, and nothing is assumed of its
stability. The argument: distances from a token are natural numbers, so a least
one exists (well-foundedness of `<`), ties go to the smaller node, and a subset
that keeps the minimum keeps it as its minimum. That `Ring` computes
`ClockwiseOwner` is model-checked (`RingMatchesReference`). Besides the types of
the constants, it is assumed that each member owns a range (`CoverAssumption`).

`StoreProofs` proves `StoreRefinesAtomicStore`: `Spec => ImplementsAtomicStore`,
for any keys, calls, requests, followers, limits and clock bound. A client sees
`VisibleRecord` (a record that is live), `VisibleReceipt` (a receipt that is
retained) and `VisibleCall` (what a call may still answer). Each action of `Store`
has a lemma: `BeginCall`, `FindReceipt`, `RefuseWrite`, `Apply`, the
acknowledgement and the clock map to a step of `AtomicStore`; sweep, reseed and
the steps of a migration change nothing visible. This needs to know that what a
sweep or a purge takes away is really dead, which `StoreInv` says: a scheduled
deadline is that of the record the node holds now, in the deadline index or in the
deferred set and not in both, and the purge finds each receipt that is due.
`ReseedSource` says what a reseed leaves of a migration that is under way.
The module shows first that `StoreInv` is inductive, and proves

* `IndicesAreExact`: `Spec => []IndicesMirrorStore`;
* `StreamsAreUnbroken`: `Spec => []StreamsHaveNoGap`;
* `MovingRangeCovered`: `Spec => []MovingRangeIsCovered`;
* `BudgetExact`: `Spec => []BudgetIsExact`.

`MirrorInv` strengthens the first three. `QueueInv`: every accepted write takes one
sequence on each stream, so that a refused reservation, which is rolled back,
leaves all streams where the writes left them. `DeferredInv`: a migration that is
over holds no deferred deadline back, so that the next one may start with an empty
set. The coverage of a moving range, as long as no reseed has come after its
preparation, holds because a write journals under the token
of its key and the sweep leaves the records of the range alone. `BudgetInv` says
what each receipt is charged for and that nothing is charged for one that is gone;
the sum over the receipts is the number of charged pairs of receipt and byte, so an
insertion, a growth or a purge changes it by the pairs it adds or takes away, and no
induction over the table is needed. Assumed
(`StoreAssumption`): keys are positive numbers, required followers are followers,
queue capacity, retention, clock bound and sweep limit are numbers, all but the
first of them positive, one of the seeds is the least, and requests have a key and
a deadline.

`ReplicationProofs` proves for any followers, policies, keys, mutations, overlapping
attempts and limits:

* `AcknowledgedWritesSurvive`: `Spec => []AckedWritesSurvive`;
* `AdmittedFollowersComplete`: `Spec => []AdmittedIsComplete`.

`ReplicationInv` strengthens both. `OwnerInv`: every accepted mutation has one
version and the same place in every stream. `StreamInv`: what a worker sends is in
the stream, and no answer on the wire and no acknowledged progress runs ahead of
what the follower applied. `CopyInv`: a committed copy is complete while the pause
lasts, a checkpointed one as far as the stream has been applied, and so is the copy
of an admitted follower, through the writes between release and admission.
`CallInv`: a receipt waits for its own sequence on each required stream, and what
has been reported was applied by admitted followers; this stays true because
admissions and applied sequences only grow within an epoch. Assumed
(`ReplicationAssumption`): policies name followers, mutations have keys, and the
limits are numbers.

`ClientProofs` proves for any operations, numbers of attempts, timeouts and
retentions, with ownership moving and failing over:

* `DefiniteReports`: `Spec => []DefiniteMeansNotApplied`;
* `AtMostOnce`: `Spec => []AppliedAtMostOnce`.

`ClientInv` strengthens both. `EffectInv`: as long as an operation knows of no
attempt with an open end, every attempt so far has ended without effect, or the
one that is awaited is the only one that may have one; so a report of "not
applied" cannot be overtaken. `ReceiptInv`: an operation that took effect has a
receipt that lasts at least until its deadline, because `mutation_deadline` puts the
deadline at most the retention after the start of the operation, and the receipt of an
effect lasts for the retention from the effect. `AtMostOnce` claims nothing after the
deadline, where it would be false. It rests on the
owner being an `AtomicStore`, which `StoreRefinesAtomicStore` shows of `Store`, and
on operations having identifiers of their own (`ClientAssumption`).

`TopologyCacheProofs` proves for any number of requests, background tasks, epochs
and failures:

* `TriggersAreKept`: `Spec => []NoTriggerIsLost`;
* `RefreshesAreSingle`: `Spec => []OneBackgroundRefresh`;
* `RetriesMoveOn`: `Spec => []RetryUsesNewerTopology`.

`CacheInv` strengthens the three. `FlagInv`: the flag is set exactly while one
runner works, so a task that takes the flag back is alone. `TriggerInv`: while an
epoch has not been asked for, a request has yet to bump the counter, or each runner
will still read the epoch or see that the counter has moved; this is what carries a
trigger over the gap between the last look at the counter and the clearing of the
flag. `LockInv`: nobody waits twice for the refresh lock, and who fetches holds it.
`RefusedInv`: while a refused operation refreshes, the cache is newer than what was
refused, or the refresh asks for something newer. Assumed (`TasksAssumption`): the
kinds of task are disjoint and the bounds are numbers.

`RangeMigrationProofs` proves for any keys, mutations, changes, interruptions, lost
discards, lost processes and expiring records:

* `MovedRangeServesLatest`: `Spec => []LatestIsServed`;
* `MovedReceiptsPreventReplay`: `Spec => []RetryAppliedOnce`;
* `CleanCopiesVerify`: `Spec => []ReplayedCopyVerifies`;
* `CompletedMoveIsOpen`: `Spec => []MoveEndsItsFence`.

`MoveInv` strengthens the four. `StageInv`: the coordinator's stage decides who serves,
and the source is paused from verification to cleanup. `ProcessInv`: the process noted
at preparation is the one that still has the staging, and a process that is gone has
nothing, so the instance check before publication is enough. `StagingInv` and
`CleanInv`: staging follows its stage, and as long as no discard was lost an attempt
finds none. `JournalInv`: captured keys and receipts together with the journal account
for all the source holds. `CopyInv`: an attempt that started clean has staged, of each
key, what the source holds or an older version that the journal will overtake, whatever
was written between the reading and the applying of a page. `CommitInv`: what was
verified is committed, and the source, paused, still has it. `ServedInv`: until the
handover the source has receipts of exactly the mutations that took effect. The largest
version among staged and replayed ones exists because versions are bounded numbers
(well-foundedness of `<`). Assumed (`BoundsAssumption`): the bounds are numbers, and
mutations have keys.

`ListingProofs` proves for any nodes, tokens, keys, sequences of topologies, page
limits, writes and failures:

* `WalkExact`: `Spec => []WalkIsExact`;
* `ScanExact`: `Spec => []ScanIsExact`;
* `SearchTruthful`: `Spec => []SearchIsTruthful`.

`ListingInv` strengthens the three. `MoveInv`: a node is at most one epoch behind, and
until all have the new one both owners of a key hold the same of it; this is why it
does not matter which of them serves a page. `HistoryInv`: a key that was live
throughout is live at its owner now. `WalkInv` and `ScanInv`: keys before a position
are counted, each once if it was live throughout, and of the keys from the position on
none was seen; a page gets past the token it started at and ends between tokens, so
two keys of one token are not parted, and a stretch ends before another owner's tokens.
`SearchInv`: a key that was live throughout belongs to an owner still to be asked or
lies ahead of the position. Assumed (`ListingAssumption`): each topology assigns at
least one token, and no token twice; a page has room for a key and for two examined
entries.

`GatewayProofs` proves for any connections, gateways, keys, stripes, pipelines,
deadlines and faults:

* `AtomicCommands`: `Spec => []CommandsAreAtomic`;
* `SafeRetries`: `Spec => []MultiKeyRetryIsSafe`;
* `RenameKeeps`: `Spec => []RenameLosesNothing`;
* `RepliesInOrder`: `Spec => []RepliesFollowRequests`.

`GatewayInv` strengthens the four. A write that was decided some time ago, and perhaps
given up by its command since, must do what the command would do now. `Decided`
(in `RecordInv` for late writes, in `PartInv` for the others) says so under the write's
own precondition: if the version it expects is still the record's, the record is the
one it was decided from, and deciding again gives the same change. Time is the
exception: an expiry whose time has come by then acts as a delete (`Agrees`). The stripe
locks are not used: they spare retries, and atomicity rests on versions alone, so it
holds across gateways. `Held` is the same for `RENAME`: the version its delete expects
holds the value that was copied. `RetryInv`: a write that took effect or still may
belongs to a rename, to an answer other than `TRYAGAIN`, or to a command that is running
and has a part that ended "ok" or "unknown", which `partial_write_outcome` will see.
`ReplyInv`: the mode is what the requests answered so far have made it. Assumed
(`GatewayAssumption`): requests have the number of keys that `Arity` of the command
table asks for, and the bounds are positive.

`AuthorityInv`'s parts, `FenceInv`, `StoreInv`, `MirrorInv`, `BudgetInv`,
`ReplicationInv`, `ClientInv`, `CacheInv`, `MoveInv`, `ListingInv` and `GatewayInv` were
checked with TLC on the instances of the runs before they were proved. A leaf names Zenon
where it is first-order reasoning without arithmetic.

Only model-checked: the invariants of `Placement`, and `Ring` as code.
`RingMatchesReference`, `PlanIsExact`, `SelectedSeedsSuffice`, `OwnerHoldsData` and
`AdmissionMeansCopy` rest on what the walk round the ring and the selection of seeds
compute, and both are folds over sequences; `StoredStateReloads` includes the type of
the selected seeds. What a fold computes for every input needs induction over data.
That, liveness under fairness (`RepairConverges`,
`PauseIsReleased`, `WritesResume`, `OperationsReturn`, `CacheCatchesUp`, `ListingEnds`,
`CommandsReturn`) and ENABLED are beyond the prover and stay with TLC.

## Findings

Three runs end in a violation of something the repository says:

* `merge_outage`: a direct merge takes an unreachable old owner for stopped and
  does not wait for its lease (RFC 0001, line 250).
* `move_stale`: when the discard of destination staging is lost, the next
  attempt skips journal entries with their receipts, and a retry at the new
  owner is applied again (README of the repository, lines 188-190).
* `gateway_rename`: `RENAME` answers `TRYAGAIN` when the delete of its source
  fails, although its destination is written (`docs/redis-compatibility.md`,
  lines 217-220).

The further configurations show, in the same way:

* `Authority_merge_abort.cfg`: a merge resumed after a restart that fails its
  preparation ends as aborted with the fences of the first attempt set, while
  `merge.rs:319-321` says that the preparation "never installs the cutover fence".
* `Client_late.cfg`: an attempt takes effect and its answer is lost; the retry is on its
  way until the receipt has lapsed and another client has deleted the record, and takes
  effect again, while
  `docs/configuration.md:50` says "Clients stop retrying a mutation within it, so a
  retry cannot apply twice."
* `Replication_repair.cfg`: a repair that commits its copy while an entry with the
  same receipt is queued ends the stream for the epoch (`rpc.rs:133`), while
  `repair.rs:227` says "A failed task remains pending; the next call can safely
  start it again."
* `Replication_skew.cfg`: an owner that replicates before its follower has
  installed the epoch ends the stream (`rpc.rs:68`); writes are refused from then
  on as retryable (`replication.rs:212`).
* `RangeMigration_leftover.cfg`: staging left by an aborted change makes the
  destination refuse writes after a later change moved the range to it
  (`rpc.rs:604`), while the repository's README says, at lines 251-252, "A failure
  before publication aborts cleanly."
* `Placement_status.cfg`: `get_replica_status` calls a range writable while its
  owner is fenced: it takes a change for fencing only where the acknowledgement
  policy changes or the range moves (coordinator `rpc.rs:297-322`), but a change
  of the guards alone fences every member as well, and so does a merge.

Found by reading: `docs/redis-compatibility.md:89` says that "`RENAMENX` on an
existing destination errors"; `keys.rs:90-92` answers 0.

## Not modelled

* RESP and argument parsing, glob patterns, `INCRBYFLOAT` formatting: functions of
  bytes without protocol state.
* Introspection commands (`INFO`, `CONFIG`, `COMMAND`, `CLIENT LIST`), connection
  permits, the closing of a connection on an invalid frame or a full query buffer,
  the private overlay of the gateway's store and the experimental Lua commands on
  top of it. `SETRANGE`: an update like `APPEND` with another function of bytes.
* Configuration, diagnostics, RPC profiling and the experiment harness: no
  decision of the cluster depends on them.
* Probe rounds and the ages of observations: suspicion may arise at any time in
  `Authority` and `Placement`, which includes every schedule of probes.
* The confirmation that a stopping process waits for before it exits: its order
  is in `Authority` and `Placement`, its polling is not.
* Due times and backoff of repairs, jitter of delays, pooling of connections:
  they delay steps that may be delayed anyway.
* Several owners that share a follower, byte limits of batches and pages, and
  versions compared across two processes of one owner.

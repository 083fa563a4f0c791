--------------------------- MODULE RangeMigration ---------------------------
(***************************************************************************)
(* One range moves from the node that owns it, the source, to a joining    *)
(* node, the destination.  The coordinator copies the records and the      *)
(* receipts that the source held when the range was prepared, replays the  *)
(* journal of later writes, pauses the source, compares digests, lets the  *)
(* destination commit its staging, publishes the topology and cleans up.   *)
(* Meanwhile clients write and retry, records expire and are swept, the    *)
(* destination's process may be replaced, and an attempt may be            *)
(* interrupted anywhere before publication and start again or abort.       *)
(*                                                                         *)
(* A record is its version; 0 is absence.  A deletion is a write as well,  *)
(* since it leaves a tombstone with a version.  Who may serve is taken     *)
(* from Authority: the source until it installs the published topology,    *)
(* the destination once activation is ready.  Receipts do not lapse here.  *)
(***************************************************************************)
EXTENDS Integers, Sequences, FiniteSets, FiniteSetsExt

CONSTANTS
    Keys,           \* keys of the range
    Mutations,      \* mutation identifiers (request_id)
    KeyOf,          \* the key that a mutation writes
    MaxVersion,     \* the last version that a write may take
    MaxChanges,     \* how many changes move the range to this destination
    MaxFails,       \* how many attempts are interrupted
    MaxLost,        \* how many discards of destination staging are lost
    MaxCrashes,     \* how many destination processes are lost
    MaxLapses       \* how many records reach their deadline

ASSUME BoundsAssumption ==
    /\ KeyOf \in [Mutations -> Keys]
    /\ MaxVersion \in Nat \ {0} /\ MaxChanges \in Nat \ {0}
    /\ {MaxFails, MaxLost, MaxCrashes, MaxLapses} \subseteq Nat

VARIABLES
    src, srcIds,    \* the source's records and receipts
    dst, dstIds,    \* the destination's records and receipts
    source,         \* SourceMigration: keys and receipts captured, journal, pause
    staging,        \* DestinationMigration of each change
    process,        \* the destination's process, 0 when it is down
    serves,         \* which of the two nodes owns the range and has a lease
    stage,          \* how far the coordinator is with the change
    change,         \* number of the change
    todo,           \* captured keys whose page has not been applied
    page,           \* a snapshot page between its read and its application
    watermark,      \* changelog_watermark: journal entries replayed so far
    expected,       \* destination_process_instance_id noted at preparation
    next,           \* the last version given to a record
    latest,         \* the last version of each key that a client was given
    lapsed,         \* versions whose deadline has passed
    applied,        \* how often each mutation took effect
    fails, lost, crashes

nodes == <<src, srcIds, dst, dstIds>>
history == <<next, latest, lapsed, applied>>
faults == <<fails, lost, crashes>>
progress == <<change, todo, page, watermark, expected>>
coordinator == <<stage, progress>>
vars == <<nodes, source, staging, process, serves, coordinator, history, faults>>

Version == 0 .. MaxVersion
Entry == [k : Keys, v : Version, m : Mutations]
NoPage == [k |-> "none", v |-> 0]
NoSource == [on |-> FALSE, keys |-> {}, ids |-> {}, log |-> <<>>, paused |-> FALSE]
NoStaging == [state |-> "none", rec |-> [k \in Keys |-> 0], ids |-> {}, wm |-> 0]

Copying == {"planned", "sourced", "snapshot", "receipts", "replay"}
Prepublication == (Copying \ {"planned"}) \cup {"copied", "final", "verified", "committed", "checked"}
Stage == {"idle"} \cup Copying \cup Prepublication
         \cup {"resetting", "aborting", "aborted", "published", "installed", "activated", "serving", "complete"}

(* apply_record keeps the newer of two versions. *)
Newer(old, new) == IF new > old THEN new ELSE old

Init ==
    /\ src \in [Keys -> {0, 1}] /\ srcIds = {}
    /\ dst = [k \in Keys |-> 0] /\ dstIds = {}
    /\ source = NoSource
    /\ staging = [c \in 1 .. MaxChanges |-> NoStaging]
    /\ process = 1 /\ serves = "source"
    /\ stage = "idle" /\ change = 0
    /\ todo = {} /\ page = NoPage /\ watermark = 0 /\ expected = 0
    /\ next = 1 /\ latest = src /\ lapsed = {}
    /\ applied = [m \in Mutations |-> 0]
    /\ fails = 0 /\ lost = 0 /\ crashes = 0

-----------------------------------------------------------------------------
(* Clients and the expiry sweep.                                           *)

(* put and delete at the source: a known receipt answers the request without *)
(* an effect, a paused source refuses it, and a prepared source journals it. *)
WriteAtSource(m) ==
    /\ serves = "source" /\ ~source.paused
    /\ m \notin srcIds
    /\ next < MaxVersion
    /\ next' = next + 1
    /\ src' = [src EXCEPT ![KeyOf[m]] = next + 1]
    /\ srcIds' = srcIds \cup {m}
    /\ source' = IF source.on
                 THEN [source EXCEPT !.log = Append(@, [k |-> KeyOf[m], v |-> next + 1, m |-> m])]
                 ELSE source
    /\ latest' = [latest EXCEPT ![KeyOf[m]] = next + 1]
    /\ applied' = [applied EXCEPT ![m] = @ + 1]
    /\ UNCHANGED <<dst, dstIds, staging, process, serves, coordinator, lapsed, faults>>

(* The destination refuses writes while it has any staging of the range   *)
(* whose writes are not activated, of this change or of another.           *)
AcceptsWrites == \A c \in 1 .. MaxChanges : staging[c].state \notin {"open", "committed"}

WriteAtDestination(m) ==
    /\ serves = "destination" /\ process # 0 /\ AcceptsWrites
    /\ m \notin dstIds
    /\ next < MaxVersion
    /\ next' = next + 1
    /\ dst' = [dst EXCEPT ![KeyOf[m]] = next + 1]
    /\ dstIds' = dstIds \cup {m}
    /\ latest' = [latest EXCEPT ![KeyOf[m]] = next + 1]
    /\ applied' = [applied EXCEPT ![m] = @ + 1]
    /\ UNCHANGED <<src, srcIds, source, staging, process, serves, coordinator, lapsed, faults>>

(* A record passes its deadline; from now on no read returns it. *)
Lapse(k) ==
    /\ latest[k] # 0 /\ latest[k] \notin lapsed
    /\ Cardinality(lapsed) < MaxLapses
    /\ lapsed' = lapsed \cup {latest[k]}
    /\ UNCHANGED <<nodes, source, staging, process, serves, coordinator, next, latest, applied, faults>>

(* Mistake: the sweep does not look at the migrations. *)
SweepSource_Always(k) ==
    /\ src[k] \in lapsed
    /\ src' = [src EXCEPT ![k] = 0]
    /\ UNCHANGED <<srcIds, dst, dstIds, source, staging, process, serves, coordinator, history, faults>>

(* sweep_expired_records defers the records of a range that migrates out. *)
SweepSource(k) ==
    /\ src[k] \in lapsed /\ ~source.on
    /\ src' = [src EXCEPT ![k] = 0]
    /\ UNCHANGED <<srcIds, dst, dstIds, source, staging, process, serves, coordinator, history, faults>>

SweepDestination(k) ==
    /\ dst[k] \in lapsed
    /\ dst' = [dst EXCEPT ![k] = 0]
    /\ UNCHANGED <<src, srcIds, dstIds, source, staging, process, serves, coordinator, history, faults>>

-----------------------------------------------------------------------------
(* Copying.                                                                *)

BeginChange ==
    /\ stage \in {"idle", "aborted"} /\ change < MaxChanges
    /\ stage' = "planned" /\ change' = change + 1
    /\ UNCHANGED <<nodes, source, staging, process, serves, todo, page, watermark, expected, history, faults>>

(* The source captures the keys and the receipts of the range; later writes *)
(* go to its journal as well.                                               *)
PrepareSource ==
    /\ stage = "planned"
    /\ source' = [on |-> TRUE, keys |-> {k \in Keys : src[k] # 0}, ids |-> srcIds,
                  log |-> <<>>, paused |-> FALSE]
    /\ stage' = "sourced"
    /\ UNCHANGED <<nodes, staging, process, serves, progress, history, faults>>

(* The destination keeps staging that it already has under this change. *)
PrepareDestination ==
    /\ stage = "sourced" /\ process # 0
    /\ staging' = IF staging[change].state = "none"
                  THEN [staging EXCEPT ![change] = [NoStaging EXCEPT !.state = "open"]]
                  ELSE staging
    /\ expected' = process
    /\ todo' = source.keys /\ watermark' = 0
    /\ stage' = "snapshot"
    /\ UNCHANGED <<nodes, source, process, serves, change, page, history, faults>>

Staged == process # 0 /\ staging[change].state = "open"

(* A page carries what the source holds when it is read, not what it held *)
(* when the keys were captured; a key without a record is skipped.         *)
ReadSnapshot(k) ==
    /\ stage = "snapshot" /\ page = NoPage /\ k \in todo
    /\ page' = [k |-> k, v |-> src[k]]
    /\ UNCHANGED <<nodes, source, staging, process, serves, stage, change, todo, watermark, expected, history, faults>>

ApplySnapshot ==
    /\ stage = "snapshot" /\ page # NoPage /\ (page.v = 0 \/ Staged)
    /\ staging' = [staging EXCEPT ![change].rec[page.k] = Newer(@, page.v)]
    /\ todo' = todo \ {page.k} /\ page' = NoPage
    /\ UNCHANGED <<nodes, source, process, serves, stage, change, watermark, expected, history, faults>>

SnapshotDone ==
    /\ stage = "snapshot" /\ todo = {}
    /\ stage' = "receipts"
    /\ UNCHANGED <<nodes, source, staging, process, serves, progress, history, faults>>

(* The captured receipts do not change, so their pages are one step. *)
CopyReceipts ==
    /\ stage = "receipts" /\ (source.ids = {} \/ Staged)
    /\ staging' = [staging EXCEPT ![change].ids = @ \cup source.ids]
    /\ stage' = "replay"
    /\ UNCHANGED <<nodes, source, process, serves, progress, history, faults>>

(* apply_migration_batch skips entries up to its own watermark, receipts   *)
(* included, and refuses a gap.                                            *)
Replayed(st, from, to) ==
    LET fresh == Newer(st.wm, from) + 1 .. to
    IN [st EXCEPT
        !.rec = [k \in Keys |-> Max({@[k]} \cup {source.log[i].v : i \in {j \in fresh : source.log[j].k = k}})],
        !.ids = @ \cup {source.log[i].m : i \in fresh},
        !.wm = Newer(@, to)]

(* replay_changelog, one page: the journal only grows, so a page applied   *)
(* after later writes is a prefix of the journal.                          *)
ReplayPage(to) ==
    /\ stage \in {"replay", "final"} /\ Staged
    /\ to \in watermark + 1 .. Len(source.log)
    /\ watermark <= staging[change].wm
    /\ staging' = [staging EXCEPT ![change] = Replayed(@, watermark, to)]
    /\ watermark' = to
    /\ UNCHANGED <<nodes, source, process, serves, stage, change, todo, page, expected, history, faults>>

(* The first replay ends when a page reached the journal's end as it was   *)
(* when the page was read.                                                 *)
ReplayDone ==
    /\ stage = "replay"
    /\ stage' = "copied"
    /\ UNCHANGED <<nodes, source, staging, process, serves, progress, history, faults>>

-----------------------------------------------------------------------------
(* Cutover.                                                                *)

PauseRange ==
    /\ stage = "copied"
    /\ source' = [source EXCEPT !.paused = TRUE]
    /\ stage' = "final"
    /\ UNCHANGED <<nodes, staging, process, serves, progress, history, faults>>

DigestsAgree == staging[change].rec = src /\ staging[change].wm = Len(source.log)

(* Mistake: the digests are not compared after the pause. *)
VerifyRange_NoReplay ==
    /\ stage = "final" /\ process # 0 /\ staging[change].state # "none"
    /\ stage' = "verified"
    /\ UNCHANGED <<nodes, source, staging, process, serves, progress, history, faults>>

(* finalize_range: the journal is replayed to its end and the digests and  *)
(* watermarks of both sides agree.                                         *)
VerifyRange ==
    /\ stage = "final" /\ process # 0 /\ staging[change].state # "none"
    /\ watermark = Len(source.log) /\ DigestsAgree
    /\ stage' = "verified"
    /\ UNCHANGED <<nodes, source, staging, process, serves, progress, history, faults>>

(* Mistake: the records are committed without their receipts. *)
CommitRange_NoReceipts ==
    /\ stage = "verified" /\ process # 0 /\ staging[change].state # "none"
    /\ dst' = staging[change].rec
    /\ staging' = [staging EXCEPT ![change].state = "committed"]
    /\ stage' = "committed"
    /\ UNCHANGED <<src, srcIds, dstIds, source, process, serves, progress, history, faults>>

(* The staged records replace whatever the destination held of the range;  *)
(* a repeated commit has no effect.                                        *)
CommitRange ==
    /\ stage = "verified" /\ process # 0 /\ staging[change].state # "none"
    /\ dst' = IF staging[change].state = "open" THEN staging[change].rec ELSE dst
    /\ dstIds' = IF staging[change].state = "open" THEN dstIds \cup staging[change].ids ELSE dstIds
    /\ staging' = [staging EXCEPT ![change].state = "committed"]
    /\ stage' = "committed"
    /\ UNCHANGED <<src, srcIds, source, process, serves, progress, history, faults>>

VerifyInstance ==
    /\ stage = "committed" /\ process = expected
    /\ stage' = "checked"
    /\ UNCHANGED <<nodes, source, staging, process, serves, progress, history, faults>>

(* process_instances: a lost process stays registered until another one   *)
(* registers in its place.                                                 *)
Registered == IF process # 0 THEN process ELSE crashes

(* Mistake: the process is not compared again. *)
Publish_Unchecked ==
    /\ stage = "checked"
    /\ stage' = "published"
    /\ UNCHANGED <<nodes, source, staging, process, serves, progress, history, faults>>

(* The process is compared again under the coordinator's state lock. *)
Publish ==
    /\ stage = "checked" /\ Registered = expected
    /\ stage' = "published"
    /\ UNCHANGED <<nodes, source, staging, process, serves, progress, history, faults>>

(* The old owner installs the published topology first and stops serving. *)
InstallTopology ==
    /\ stage = "published"
    /\ serves' = "nobody"
    /\ stage' = "installed"
    /\ UNCHANGED <<nodes, source, staging, process, progress, history, faults>>

(* Mistake: the destination's writes stay fenced. *)
ActivateRange_Forgotten ==
    /\ stage = "installed" /\ process # 0 /\ staging[change].state = "committed"
    /\ stage' = "activated"
    /\ UNCHANGED <<nodes, source, staging, process, serves, progress, history, faults>>

ActivateRange ==
    /\ stage = "installed" /\ process # 0 /\ staging[change].state = "committed"
    /\ staging' = [staging EXCEPT ![change].state = "active"]
    /\ stage' = "activated"
    /\ UNCHANGED <<nodes, source, process, serves, progress, history, faults>>

(* set_activation_ready, after which the destination gets its lease. *)
SetActivationReady ==
    /\ stage = "activated" /\ process # 0
    /\ serves' = "destination"
    /\ stage' = "serving"
    /\ UNCHANGED <<nodes, source, staging, process, progress, history, faults>>

(* The source drops the records unless it remains a replica of the range. *)
CleanupSource ==
    /\ stage = "serving"
    /\ src' \in {src, [k \in Keys |-> 0]}
    /\ source' = NoSource
    /\ stage' = "complete"
    /\ UNCHANGED <<srcIds, dst, dstIds, staging, process, serves, progress, history, faults>>

-----------------------------------------------------------------------------
(* Interruption.                                                           *)

(* An RPC fails or runs into its deadline, or the coordinator restarts: a  *)
(* resumed change is reset, another one aborts (abort_after_error).        *)
Interrupt ==
    /\ stage \in Prepublication /\ fails < MaxFails
    /\ fails' = fails + 1
    /\ stage' \in {"resetting", "aborting"}
    /\ page' = NoPage /\ todo' = {} /\ watermark' = 0 /\ expected' = 0
    /\ UNCHANGED <<nodes, source, staging, process, serves, change, history, lost, crashes>>

(* The same when the step at hand cannot succeed: the destination's process *)
(* is gone or another one, its staging does not take the call, or the       *)
(* digests differ.  Only a process that does not answer is worth a retry.   *)
Refused ==
    \/ stage = "sourced" /\ process = 0
    \/ stage \in {"snapshot", "receipts", "replay", "final"} /\ ~Staged
    \/ stage = "final" /\ watermark = Len(source.log) /\ ~DigestsAgree
    \/ stage = "verified" /\ (process = 0 \/ staging[change].state = "none")
    \/ stage = "committed" /\ process # expected
    \/ stage = "checked" /\ Registered # expected

Fail ==
    /\ Refused
    /\ stage' \in IF process = 0 THEN {"resetting", "aborting"} ELSE {"aborting"}
    /\ page' = NoPage /\ todo' = {} /\ watermark' = 0 /\ expected' = 0
    /\ UNCHANGED <<nodes, source, staging, process, serves, change, history, faults>>

(* clear_prepublication_nodes: the source has to acknowledge, the          *)
(* destination is asked once and its answer ignored.                       *)
ClearNodes ==
    /\ source' = NoSource
    /\ \/ staging' = [staging EXCEPT ![change] = NoStaging] /\ lost' = lost
       \/ process # 0 /\ lost < MaxLost /\ staging' = staging /\ lost' = lost + 1

Reset ==
    /\ stage = "resetting" /\ ClearNodes
    /\ stage' = "planned"
    /\ UNCHANGED <<nodes, process, serves, progress, history, fails, crashes>>

FinishAbort ==
    /\ stage = "aborting" /\ ClearNodes
    /\ stage' = "aborted"
    /\ UNCHANGED <<nodes, process, serves, progress, history, fails, crashes>>

(* A joining process is lost with everything it held. *)
CrashDestination ==
    /\ process # 0 /\ stage \notin {"serving", "complete"} /\ crashes < MaxCrashes
    /\ process' = 0 /\ crashes' = crashes + 1
    /\ dst' = [k \in Keys |-> 0] /\ dstIds' = {}
    /\ staging' = [c \in 1 .. MaxChanges |-> NoStaging]
    /\ UNCHANGED <<src, srcIds, source, serves, coordinator, history, fails, lost>>

(* Another process may register until the node is a member. *)
RestartDestination ==
    /\ process = 0 /\ stage \notin {"published", "installed", "activated"}
    /\ process' = crashes + 1
    /\ UNCHANGED <<nodes, source, staging, serves, coordinator, history, faults>>

(* recover_pending_change_failure: the range returns to the source, which  *)
(* still has it, under a further epoch.                                    *)
RecoverJoin ==
    /\ process = 0 /\ stage \in {"published", "installed", "activated"}
    /\ serves' = "source" /\ source' = NoSource
    /\ stage' = "aborted" /\ todo' = {} /\ page' = NoPage /\ watermark' = 0 /\ expected' = 0
    /\ UNCHANGED <<nodes, staging, process, change, history, faults>>

-----------------------------------------------------------------------------
CoordinatorStep ==
    \/ PrepareSource \/ PrepareDestination
    \/ \E k \in Keys : ReadSnapshot(k)
    \/ ApplySnapshot \/ SnapshotDone \/ CopyReceipts
    \/ \E to \in 1 .. Len(source.log) : ReplayPage(to)
    \/ ReplayDone \/ PauseRange \/ VerifyRange \/ CommitRange \/ VerifyInstance
    \/ Publish \/ InstallTopology \/ ActivateRange \/ SetActivationReady
    \/ CleanupSource \/ Fail \/ Reset \/ FinishAbort \/ RecoverJoin

Next ==
    \/ CoordinatorStep
    \/ BeginChange \/ Interrupt \/ CrashDestination \/ RestartDestination
    \/ \E m \in Mutations : WriteAtSource(m) \/ WriteAtDestination(m)
    \/ \E k \in Keys : Lapse(k) \/ SweepSource(k) \/ SweepDestination(k)

Spec == Init /\ [][Next]_vars

(* The coordinator goes on with a pending change, after a restart as well: *)
(* its recovery loop resumes it.                                           *)
FairSpec == Spec /\ WF_vars(CoordinatorStep)

-----------------------------------------------------------------------------
Records == [Keys -> Version]
Page == [k : Keys, v : Version]
Source == [on : BOOLEAN, keys : SUBSET Keys, ids : SUBSET Mutations, log : Seq(Entry), paused : BOOLEAN]
Staging == [state : {"none", "open", "committed", "active"}, rec : Records,
            ids : SUBSET Mutations, wm : Nat]

(* Types of all variables; the journal of prepare_source_range holds each  *)
(* mutation at most once.                                                  *)
TypeOK ==
    /\ src \in Records /\ dst \in Records
    /\ srcIds \subseteq Mutations /\ dstIds \subseteq Mutations
    /\ source \in Source
    /\ \A i, j \in 1 .. Len(source.log) : source.log[i].m = source.log[j].m => i = j
    /\ staging \in [1 .. MaxChanges -> Staging]
    /\ process \in 0 .. MaxCrashes + 1
    /\ serves \in {"source", "nobody", "destination"}
    /\ stage \in Stage /\ change \in 0 .. MaxChanges
    /\ todo \subseteq Keys /\ page \in Page \cup {NoPage}
    /\ watermark \in Nat /\ expected \in 0 .. MaxCrashes + 1
    /\ next \in Version \ {0} /\ latest \in Records /\ lapsed \subseteq Version
    /\ applied \in [Mutations -> Nat]
    /\ fails \in 0 .. MaxFails /\ lost \in 0 .. MaxLost /\ crashes \in 0 .. MaxCrashes

(* A retry is not applied twice: whichever node answers it, before, during *)
(* or after the move, put finds the receipt of the first application,      *)
(* which commit_destination_range brought along.                           *)
AppliedOnce == \A m \in Mutations : applied[m] <= 1

(* When a move is complete its destination takes writes of the range: no   *)
(* staging that fences them is left, neither of this change nor of one     *)
(* that aborted before.                                                    *)
MovedRangeTakesWrites == stage = "complete" => AcceptsWrites

(* Every discard that clear_prepublication_nodes asked for took place. *)
AllDiscarded == lost = 0

(* A retry is not applied twice if no discard of staging was lost: journal *)
(* entries and captured receipts then cover every mutation.                *)
RetryAppliedOnce == AllDiscarded => AppliedOnce

(* If no discard was lost, a completed move leaves the destination open    *)
(* for writes: activate_destination_range ends the only fence.             *)
MoveEndsItsFence == AllDiscarded => MovedRangeTakesWrites

(* One node's records are those of another, but for expired ones. *)
Follows(mine, others) ==
    \A k \in Keys : mine[k] = others[k] \/ (mine[k] = 0 /\ others[k] \in lapsed)

Holds(records) == Follows(records, latest)

(* The node that serves the range has every acknowledged write of it, but  *)
(* for records that expired: the pause, the replay up to it, the digests   *)
(* and the instance checks of execute_change leave no write behind, even   *)
(* when an attempt starts from the staging of an earlier one.  All         *)
(* variables keep their types.                                             *)
LatestIsServed ==
    /\ TypeOK
    /\ serves = "source" => Holds(src)
    /\ serves = "destination" => Holds(dst)

(* When the journal is replayed to its end the digests agree, whatever     *)
(* wrote or expired during the copy, so that finalize_range never answers  *)
(* "range verification failed" to an attempt that started clean.           *)
ReplayedCopyVerifies ==
    (AllDiscarded /\ stage = "final" /\ Staged /\ process = expected /\ watermark = Len(source.log))
        => DigestsAgree

(* Again and again some node takes writes of the range: the pause of       *)
(* pause_range_writes ends with the move, its abort or the recovery of the *)
(* old owner.                                                              *)
WritesResume ==
    []<>(\/ serves = "source" /\ ~source.paused
         \/ serves = "destination" /\ AcceptsWrites
         \/ ~AllDiscarded)

-----------------------------------------------------------------------------
(* Why the four invariants hold.                                           *)

Cutover == {"final", "verified", "committed", "checked", "published", "installed", "activated", "serving"}
Committing == {"committed", "checked", "published", "installed"}

(* The coordinator's stage decides who serves, whether the source keeps a  *)
(* journal, and whether it is paused.                                      *)
StageInv ==
    /\ serves = "source" <=> stage \notin {"installed", "activated", "serving", "complete"}
    /\ serves = "destination" <=> stage \in {"serving", "complete"}
    /\ source.on <=> stage \notin {"idle", "planned", "aborted", "complete"}
    /\ stage \in Cutover => source.paused
    /\ stage # "idle" => change # 0
    /\ page # NoPage => stage = "snapshot" /\ page.k \in todo
    /\ stage \in {"receipts", "replay", "copied", "final"} => todo = {}

(* The process that was noted at preparation is the one that still has the *)
(* staging; a process that is gone has nothing.                            *)
ProcessInv ==
    /\ process \in {0, crashes + 1}
    /\ process = 0 => \A c \in 1 .. MaxChanges : staging[c].state = "none"
    /\ stage \in Prepublication \ {"sourced"} =>
        /\ expected \in 1 .. crashes + 1 /\ (process = 0 => expected <= crashes)
        /\ process = expected => staging[change].state # "none"
    /\ stage \in {"published", "installed", "activated"} => (process # 0 => staging[change].state # "none")
    /\ stage \in {"serving", "complete"} => process # 0

(* Staging goes through its states with the stage of its change. *)
StagingInv ==
    /\ \A c \in 1 .. MaxChanges :
        /\ c > change => staging[c].state = "none"
        /\ staging[c].state = "active" => stage \in {"activated", "serving", "complete"}
    /\ stage \in Committing => staging[change].state \in {"none", "committed"}
    /\ stage = "activated" => staging[change].state \in {"none", "active"}
    /\ stage \in {"serving", "complete"} => staging[change].state = "active"

(* As long as no discard is lost, an attempt finds no staging and leaves none. *)
CleanInv ==
    AllDiscarded =>
        /\ \A c \in 1 .. MaxChanges :
              c # change \/ stage \in {"idle", "planned", "sourced", "aborted"} => staging[c].state = "none"
        /\ stage \in Prepublication \ Committing => staging[change].state \in {"none", "open"}

Journalled(k) == \E i \in 1 .. Len(source.log) : source.log[i].k = k

(* The journal and the captured keys and receipts account for everything  *)
(* the source holds.                                                       *)
JournalInv ==
    /\ \A k \in Keys : src[k] <= next
    /\ source.on =>
        /\ srcIds = source.ids \cup {source.log[i].m : i \in 1 .. Len(source.log)}
        /\ \A i \in 1 .. Len(source.log) : source.log[i].v <= src[source.log[i].k]
        /\ \A k \in Keys :
            /\ Journalled(k) => \E i \in 1 .. Len(source.log) : source.log[i].k = k /\ source.log[i].v = src[k]
            /\ k \notin source.keys => src[k] = 0 \/ Journalled(k)

Attempt == {"snapshot", "receipts", "replay", "copied", "final"}
CleanAttempt == AllDiscarded /\ stage \in Attempt /\ staging[change].state = "open"

(* An attempt that started clean has staged, of each key, what the source  *)
(* holds or an older version that the journal will overtake.               *)
CopyInv ==
    CleanAttempt =>
        /\ staging[change].wm = watermark /\ watermark <= Len(source.log)
        /\ \A k \in Keys : /\ staging[change].rec[k] <= src[k]
                           /\ k \in todo \/ staging[change].rec[k] = src[k] \/ Journalled(k)
        /\ \A i \in 1 .. watermark : /\ source.log[i].v <= staging[change].rec[source.log[i].k]
                                     /\ source.log[i].m \in staging[change].ids
        /\ stage \in {"replay", "copied", "final"} => source.ids \subseteq staging[change].ids
        /\ page # NoPage => /\ page.v <= src[page.k]
                            /\ page.v = src[page.k] \/ Journalled(page.k)

(* What was verified is committed, and what is committed is what the       *)
(* source, paused, still has.                                              *)
CommitInv ==
    /\ change # 0 /\ staging[change].state = "committed" => Follows(dst, staging[change].rec)
    /\ stage = "verified" /\ staging[change].state # "none" =>
        /\ staging[change].rec = src
        /\ AllDiscarded => srcIds \subseteq staging[change].ids
    /\ stage \in Committing \cup {"activated"} /\ staging[change].state # "none" =>
        /\ Follows(dst, src)
        /\ AllDiscarded => srcIds \subseteq dstIds

(* Before the handover the source has a receipt of exactly the mutations   *)
(* that took effect, and the latest version of each key.                   *)
ServedInv ==
    /\ serves # "destination" =>
        /\ Holds(src)
        /\ \A m \in Mutations : applied[m] = IF m \in srcIds THEN 1 ELSE 0
    /\ serves = "destination" =>
        /\ Holds(dst)
        /\ AllDiscarded => \A m \in Mutations : applied[m] <= 1 /\ (m \in dstIds \/ applied[m] = 0)

(* The inductive invariant. *)
MoveInv ==
    TypeOK /\ StageInv /\ ProcessInv /\ StagingInv /\ CleanInv /\ JournalInv /\ CopyInv /\ CommitInv /\ ServedInv
=============================================================================

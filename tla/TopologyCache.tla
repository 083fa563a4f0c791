---------------------------- MODULE TopologyCache ----------------------------
(***************************************************************************)
(* The topology a client caches and everybody who refreshes it: the        *)
(* requests whose attempts were refused, the background refresh an answer  *)
(* from a newer epoch triggers, and the poller.  They share one lock, and  *)
(* three atomics coordinate the triggers.                                  *)
(*                                                                         *)
(* The two generation counters are only ever compared with an earlier      *)
(* value of themselves, so a task remembers whether the counter has moved  *)
(* since it read it.                                                       *)
(***************************************************************************)
EXTENDS Integers, Sequences

CONSTANTS
    Requests,     \* operations of one client
    Runners,      \* background tasks
    Poller,
    MaxEpoch,     \* bound on committed topologies
    MaxFailures   \* bound on unanswered calls and expired timeouts

ASSUME TasksAssumption ==
    /\ Requests \cap Runners = {} /\ Poller \notin Requests \cup Runners
    /\ MaxEpoch \in Nat /\ MaxFailures \in Nat

VARIABLES
    ring,      \* the epoch the coordinator has committed
    cached,    \* epoch of the cached topology
    lock,      \* refresh_lock: the holder, then the tasks in line for it
    running,   \* background_refresh_running
    wanted,    \* background_minimum_epoch
    task,
    asked,     \* history: the newest epoch a background refresh asked for
    failures

atomics == <<running, wanted, asked>>
vars == <<ring, cached, lock, running, wanted, task, asked, failures>>

Tasks == Requests \cup Runners \cup {Poller}

(* epoch: what an attempt was routed by; refused: the epoch of the last one that met
   Moved; min: the epoch a refresh asks for, 0 for whatever there is; moved: has the
   generation the task watches changed? *)
Task(pc) == [pc |-> pc, epoch |-> 0, refused |-> 0, via |-> "min", min |-> 0,
             got |-> 0, moved |-> FALSE]

(* connect_with_config *)
Init ==
    /\ ring = 1 /\ cached = 1 /\ lock = <<>>
    /\ running = FALSE /\ wanted = 0 /\ asked = 0 /\ failures = 0
    /\ task = [t \in Tasks |-> Task(IF t \in Requests THEN "route"
                                    ELSE IF t \in Runners THEN "off" ELSE "sleep")]

(* What a task remembers beyond a point is what it will read again. *)
Kept(t, pc) ==
    CASE pc \in {"route", "newest", "clear", "raced", "reclaim"} ->
            [Task(pc) EXCEPT !.refused = task[t].refused, !.moved = task[t].moved /\ t \in Runners]
      [] pc \in {"done", "sleep", "off", "handle", "spawn"} -> Task(pc)
      [] OTHER -> [task[t] EXCEPT !.pc = pc, !.got = 0]

Go(t, pc) == task' = [task EXCEPT ![t] = Kept(t, pc)]
Fail == failures < MaxFailures /\ failures' = failures + 1

(* The coordinator publishes. *)
Commit ==
    /\ ring < MaxEpoch /\ ring' = ring + 1
    /\ UNCHANGED <<cached, lock, atomics, task, failures>>

-----------------------------------------------------------------------------
(* refresh_topology_for_inner and refresh_after_unavailable. *)

(* Where a task goes on after a refresh. *)
AfterRefresh(t, ok) ==
    IF t \in Runners THEN "newest"
    ELSE IF t = Poller THEN "sleep"
    ELSE IF ok THEN "route" ELSE "done"

(* Is a refresh no longer needed? *)
Satisfied(t) ==
    IF task[t].via = "min" THEN task[t].min # 0 /\ cached >= task[t].min
    ELSE cached > task[t].epoch

EnterRefresh(t) ==
    /\ task[t].pc = "enter"
    /\ IF Satisfied(t)
       THEN Go(t, AfterRefresh(t, TRUE)) /\ UNCHANGED lock
       ELSE /\ task' = [task EXCEPT ![t] =
                  [@ EXCEPT !.pc = "queued", !.moved = task[t].moved /\ task[t].via = "min"]]
            /\ lock' = Append(lock, t)
    /\ UNCHANGED <<ring, cached, atomics, failures>>

HoldsLock(t) == lock # <<>> /\ Head(lock) = t
InLine(t) == \E i \in 1..Len(lock) : lock[i] = t
Without(line, i) == SubSeq(line, 1, i - 1) \o SubSeq(line, i + 1, Len(line))

(* The second look, with the lock: somebody else may have refreshed meanwhile, and
   after an unavailable owner any refresh will do. *)
Locked(t) ==
    LET done == Satisfied(t) \/ (task[t].via = "unavailable" /\ task[t].moved)
    IN  /\ task[t].pc = "queued" /\ HoldsLock(t)
        /\ Go(t, IF done THEN AfterRefresh(t, TRUE) ELSE "fetch")
        /\ lock' = IF done THEN Tail(lock) ELSE lock
        /\ UNCHANGED <<ring, cached, atomics, failures>>

(* fetch_topology_for_refresh, answered *)
Fetch(t) ==
    /\ task[t].pc = "fetch"
    /\ task' = [task EXCEPT ![t] = [@ EXCEPT !.pc = "got", !.got = ring]]
    /\ UNCHANGED <<ring, cached, lock, atomics, failures>>

Newer(e) == IF e > cached THEN e ELSE cached

(* The fetched topology is cached if it is newer; a refresh that asked for more than
   it got fetches again. *)
Install(t) ==
    LET again == task[t].via = "min" /\ Newer(task[t].got) < task[t].min
    IN  /\ task[t].pc = "got"
        /\ cached' = Newer(task[t].got)
        /\ task' = [u \in Tasks |->
              IF u = t THEN Kept(t, IF again THEN "fetch" ELSE AfterRefresh(t, TRUE))
              ELSE IF task[u].pc = "queued" /\ task[u].via = "unavailable"
              THEN [task[u] EXCEPT !.moved = TRUE]
              ELSE task[u]]
        /\ lock' = IF again THEN lock ELSE Tail(lock)
        /\ UNCHANGED <<ring, atomics, failures>>

(* The coordinator cannot be reached, or time is up, in line or with the lock.  Only
   after an unavailable owner is a refresh that failed as good as any. *)
RefreshFails(t) ==
    /\ task[t].pc \in {"queued", "fetch"} /\ Fail
    /\ \E ok \in {FALSE, task[t].via = "unavailable" /\ task[t].pc = "fetch"} :
          Go(t, AfterRefresh(t, ok))
    /\ \E i \in 1..Len(lock) : lock[i] = t /\ lock' = Without(lock, i)
    /\ UNCHANGED <<ring, cached, atomics>>

-----------------------------------------------------------------------------
(* One operation: get, and the retries put and delete share with it. *)

Route(r) ==
    /\ task[r].pc = "route"
    /\ task' = [task EXCEPT ![r] = [@ EXCEPT !.pc = "sent", !.epoch = cached]]
    /\ UNCHANGED <<ring, cached, lock, atomics, failures>>

(* Epochs the node that answers may have installed: refresh_if_newer has brought it
   to the caller's at least.  A newer epoch may or may not have moved the key. *)
NodeEpochs(r) == task[r].epoch..ring

Answer(r) ==
    /\ task[r].pc = "sent"
    /\ \E e \in NodeEpochs(r) :
          task' = [task EXCEPT ![r] = IF e > task[r].epoch
                                         THEN [Task("wanted") EXCEPT !.min = e]
                                         ELSE Task("done")]
    /\ UNCHANGED <<ring, cached, lock, atomics, failures>>

Refresh(r, via, min) ==
    task' = [task EXCEPT ![r] = [@ EXCEPT !.pc = "enter", !.via = via, !.min = min]]

(* Mistake: the epoch that was tried is good enough. *)
RequiredEpoch_Tried(r, e) == task[r].epoch

(* handle_retryable, for Moved *)
RequiredEpoch(r, e) == IF e > task[r].epoch + 1 THEN e ELSE task[r].epoch + 1

Moved(r) ==
    /\ task[r].pc = "sent"
    /\ \E e \in NodeEpochs(r) \ {task[r].epoch} :
          task' = [task EXCEPT ![r] =
                      [@ EXCEPT !.pc = "enter", !.via = "min", !.min = RequiredEpoch(r, e),
                                !.refused = task[r].epoch]]
    /\ UNCHANGED <<ring, cached, lock, atomics, failures>>

(* retry_code: refresh only if the node knows of more *)
RetryCode(r) ==
    /\ task[r].pc = "sent"
    /\ \E e \in NodeEpochs(r) :
          IF e > task[r].epoch THEN Refresh(r, "min", e) ELSE Go(r, "route")
    /\ UNCHANGED <<ring, cached, lock, atomics, failures>>

(* LeaseExpired asks for whatever there is. *)
LeaseExpired(r) ==
    /\ task[r].pc = "sent"
    /\ Refresh(r, "min", 0)
    /\ UNCHANGED <<ring, cached, lock, atomics, failures>>

(* No connection, or a status that is tried again. *)
Unavailable(r) ==
    /\ task[r].pc = "sent" /\ Fail
    /\ Refresh(r, "unavailable", 0)
    /\ UNCHANGED <<ring, cached, lock, atomics>>

-----------------------------------------------------------------------------
(* trigger_background_refresh, one atomic at a time. *)

RaiseWanted(r) ==
    /\ task[r].pc = "wanted"
    /\ wanted' = IF task[r].min > wanted THEN task[r].min ELSE wanted
    /\ Go(r, "bump")
    /\ UNCHANGED <<ring, cached, lock, running, asked, failures>>

BumpTrigger(r) ==
    /\ task[r].pc = "bump"
    /\ task' = [t \in Tasks |->
          IF t = r THEN Kept(r, "spawn")
          ELSE IF t \in Runners /\ task[t].pc # "off" THEN [task[t] EXCEPT !.moved = TRUE]
          ELSE task[t]]
    /\ UNCHANGED <<ring, cached, lock, atomics, failures>>

Spawn(r) ==
    /\ task[r].pc = "spawn"
    /\ IF running
       THEN Go(r, "done") /\ UNCHANGED running
       ELSE /\ running' = TRUE
            /\ \E b \in Runners :
                  /\ task[b].pc = "off"
                  /\ task' = [task EXCEPT ![r] = Task("done"), ![b] = Task("handle")]
    /\ UNCHANGED <<ring, cached, lock, wanted, asked, failures>>

(* run_background_refresh, one atomic at a time. *)

HandleTrigger(b) ==
    /\ task[b].pc = "handle"
    /\ task' = [task EXCEPT ![b] = [@ EXCEPT !.pc = "ask", !.moved = FALSE]]
    /\ UNCHANGED <<ring, cached, lock, atomics, failures>>

AskForWanted(b) ==
    /\ task[b].pc = "ask"
    /\ task' = [task EXCEPT ![b] = [@ EXCEPT !.pc = "enter", !.min = wanted]]
    /\ asked' = IF wanted > asked THEN wanted ELSE asked
    /\ UNCHANGED <<ring, cached, lock, running, wanted, failures>>

NewestTrigger(b) ==
    /\ task[b].pc = "newest"
    /\ Go(b, IF task[b].moved THEN "handle" ELSE "clear")
    /\ UNCHANGED <<ring, cached, lock, atomics, failures>>

(* Mistake: nobody looks again once the flag is cleared. *)
ClearRunning_AndLeave(b) ==
    /\ task[b].pc = "clear"
    /\ running' = FALSE
    /\ Go(b, "off")
    /\ UNCHANGED <<ring, cached, lock, wanted, asked, failures>>

ClearRunning(b) ==
    /\ task[b].pc = "clear"
    /\ running' = FALSE
    /\ Go(b, "raced")
    /\ UNCHANGED <<ring, cached, lock, wanted, asked, failures>>

RacedTrigger(b) ==
    /\ task[b].pc = "raced"
    /\ Go(b, IF task[b].moved THEN "reclaim" ELSE "off")
    /\ UNCHANGED <<ring, cached, lock, atomics, failures>>

(* Mistake: the flag is set without asking whether it is. *)
Reclaim_Always(b) ==
    /\ task[b].pc = "reclaim"
    /\ running' = TRUE
    /\ Go(b, "handle")
    /\ UNCHANGED <<ring, cached, lock, wanted, asked, failures>>

Reclaim(b) ==
    /\ task[b].pc = "reclaim"
    /\ running' = TRUE
    /\ Go(b, IF running THEN "off" ELSE "handle")
    /\ UNCHANGED <<ring, cached, lock, wanted, asked, failures>>

-----------------------------------------------------------------------------
(* poll_for_topology_changes *)

PollEpoch ==
    /\ task[Poller].pc = "sleep"
    /\ task' = [task EXCEPT ![Poller] = [@ EXCEPT !.pc = "polled", !.min = ring]]
    /\ UNCHANGED <<ring, cached, lock, atomics, failures>>

(* Mistake: the poll counts on a trigger once a request has asked for an epoch. *)
PollCompare_LeaveToTriggers ==
    /\ task[Poller].pc = "polled"
    /\ Go(Poller, IF cached < task[Poller].min /\ wanted = 0 THEN "enter" ELSE "sleep")
    /\ UNCHANGED <<ring, cached, lock, atomics, failures>>

PollCompare ==
    /\ task[Poller].pc = "polled"
    /\ Go(Poller, IF cached < task[Poller].min THEN "enter" ELSE "sleep")
    /\ UNCHANGED <<ring, cached, lock, atomics, failures>>

PollFails ==
    /\ task[Poller].pc = "sleep" /\ Fail
    /\ UNCHANGED <<ring, cached, lock, atomics, task>>

-----------------------------------------------------------------------------
RefreshStep(t) == EnterRefresh(t) \/ Locked(t) \/ Fetch(t) \/ Install(t)
RunnerStep(b) ==
    HandleTrigger(b) \/ AskForWanted(b) \/ NewestTrigger(b) \/ ClearRunning(b)
    \/ RacedTrigger(b) \/ Reclaim(b)

Next ==
    \/ Commit
    \/ \E t \in Tasks : RefreshStep(t) \/ RefreshFails(t)
    \/ \E r \in Requests :
          \/ Route(r) \/ Answer(r) \/ Moved(r) \/ RetryCode(r) \/ LeaseExpired(r)
          \/ Unavailable(r) \/ RaiseWanted(r) \/ BumpTrigger(r) \/ Spawn(r)
    \/ \E b \in Runners : RunnerStep(b)
    \/ PollEpoch \/ PollCompare \/ PollFails

Spec == Init /\ [][Next]_vars

(* A task that can go on does; the coordinator answers all but finitely many calls. *)
FairSpec ==
    /\ Spec
    /\ \A t \in Tasks : WF_vars(RefreshStep(t))
    /\ \A b \in Runners : WF_vars(RunnerStep(b))
    /\ WF_vars(PollEpoch \/ PollCompare)

-----------------------------------------------------------------------------
(* Properties. *)

TypeOK ==
    /\ cached \in 1..ring /\ wanted \in 0..ring /\ asked \in 0..wanted
    /\ \A t \in Tasks : task[t].pc \in {"got", "fetch"} => HoldsLock(t)
    /\ \A t \in Tasks : InLine(t) <=> task[t].pc \in {"queued", "fetch", "got"}

(* No trigger is lost: whenever no background refresh runs and no request is about to
   start one, the newest epoch a trigger named has been asked for.  The flag, the
   counter and the epoch are read and written one by one by every side
   (trigger_background_refresh, run_background_refresh). *)
NoTriggerIsLost ==
    /\ \A b \in Runners : task[b].pc = "off"
    /\ \A r \in Requests : task[r].pc \notin {"bump", "spawn"}
    => asked = wanted

(* At most one background refresh is at work: the task that cleared the flag takes it
   back only if no new one was started (background_refresh_running).
   All variables keep their types. *)
OneBackgroundRefresh == TypeOK /\
    \A a, b \in Runners :
        /\ task[a].pc \notin {"off", "raced", "reclaim"}
        /\ task[b].pc \notin {"off", "raced", "reclaim"}
        => a = b

(* An operation never goes back to a topology that was refused: what it is routed by
   after Moved is newer, whoever did the refreshing (handle_retryable). *)
RetryUsesNewerTopology ==
    \A r \in Requests :
        task[r].pc = "sent" => task[r].epoch > task[r].refused

(* An idle client catches up with the committed topology, however requests, triggers
   and timeouts compete for the lock (poll_for_topology_changes). *)
CacheCatchesUp == <>[](cached = ring)

-----------------------------------------------------------------------------
(* The inductive invariants behind the three. *)

Refreshing == {"enter", "queued", "fetch", "got"}
RequestPcs == {"route", "sent", "wanted", "bump", "spawn", "done"} \cup Refreshing
RunnerPcs == {"off", "handle", "ask", "newest", "clear", "raced", "reclaim"} \cup Refreshing
PollerPcs == {"sleep", "polled"} \cup Refreshing
Pcs == RequestPcs \cup RunnerPcs \cup PollerPcs
TaskType == [pc : Pcs, epoch : Nat, refused : Nat, via : {"min", "unavailable"},
             min : Nat, got : Nat, moved : BOOLEAN]

(* Each kind of task is in its own code, and no epoch it knows is newer than the
   ring's. *)
Fits(t, x) ==
    /\ t \in Requests => x.pc \in RequestPcs
    /\ t \in Runners => x.pc \in RunnerPcs /\ x.via = "min"
    /\ t = Poller => x.pc \in PollerPcs
    /\ x.epoch <= cached /\ x.min <= ring /\ x.got <= ring

ShapeInv ==
    /\ ring \in Nat /\ cached \in 1..ring /\ wanted \in 0..ring /\ asked \in 0..wanted
    /\ running \in BOOLEAN /\ task \in [Tasks -> TaskType]
    /\ \A t \in Tasks : Fits(t, task[t])

(* Nobody is in line twice, and those who fetch hold the lock. *)
LockInv ==
    /\ lock \in Seq(Tasks)
    /\ \A i, j \in 1..Len(lock) : lock[i] = lock[j] => i = j
    /\ \A t \in Tasks : task[t].pc \in {"got", "fetch"} => HoldsLock(t)
    /\ \A t \in Tasks : InLine(t) <=> task[t].pc \in {"queued", "fetch", "got"}

(* A refused topology is behind the cached one, or the refresh asks for a newer one. *)
Behind(x) ==
    /\ x.pc = "route" => x.refused < cached
    /\ x.pc = "sent" => x.refused < x.epoch
    /\ x.pc \in Refreshing =>
          x.refused < cached \/ (x.via = "min" /\ x.refused < x.min)

RefusedInv == \A r \in Requests : Behind(task[r])

Working(b) == task[b].pc \notin {"off", "raced", "reclaim"}

(* The flag is set exactly while one runner works. *)
FlagInv ==
    /\ \A b \in Runners : Working(b) => running
    /\ \A a, b \in Runners : Working(a) /\ Working(b) => a = b
    /\ running => \E b \in Runners : Working(b)

(* While an epoch has not been asked for, a request has yet to bump the counter, or
   every runner will read the epoch or see that the counter has moved. *)
TriggerInv ==
    \/ asked = wanted
    \/ \E r \in Requests : task[r].pc = "bump"
    \/ \A b \in Runners : task[b].pc \in {"off", "handle", "ask"} \/ task[b].moved

CacheInv ==
    ShapeInv /\ LockInv /\ RefusedInv /\ FlagInv /\ TriggerInv /\ NoTriggerIsLost
=============================================================================

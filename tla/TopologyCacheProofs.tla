------------------------- MODULE TopologyCacheProofs -------------------------
(***************************************************************************)
(* CacheInv is inductive for any number of requests, background tasks,     *)
(* epochs and failures.                                                    *)
(***************************************************************************)
EXTENDS TopologyCache, TLAPS

(* The three kinds of task share no task. *)
LEMMA TasksApart ==
    /\ Requests \subseteq Tasks /\ Runners \subseteq Tasks /\ Poller \in Tasks
    /\ \A t \in Requests : t \notin Runners /\ t # Poller
    /\ \A t \in Runners : t \notin Requests /\ t # Poller
    /\ Poller \notin Requests /\ Poller \notin Runners
BY TasksAssumption, Zenon DEF Tasks

(* Every kind of task may be in a refresh. *)
LEMMA PcShape ==
    /\ RequestPcs \subseteq Pcs /\ RunnerPcs \subseteq Pcs /\ PollerPcs \subseteq Pcs
    /\ Refreshing \subseteq RequestPcs /\ Refreshing \subseteq RunnerPcs /\ Refreshing \subseteq PollerPcs
BY Zenon DEF Pcs, RequestPcs, RunnerPcs, PollerPcs

-----------------------------------------------------------------------------
(* Records of a task.                                                      *)

(* A task at the start of its code. *)
LEMMA TaskShape ==
    ASSUME NEW pc \in Pcs
    PROVE  /\ Task(pc) \in TaskType /\ Task(pc).pc = pc
           /\ Task(pc).epoch = 0 /\ Task(pc).min = 0 /\ Task(pc).got = 0
           /\ Task(pc).via = "min" /\ Task(pc).refused = 0
BY DEF Task, TaskType

(* A trigger marks every runner. *)
LEMMA MovedShape ==
    ASSUME NEW x \in TaskType
    PROVE  LET n == [x EXCEPT !.moved = TRUE] IN
           /\ n \in TaskType /\ n.pc = x.pc /\ n.epoch = x.epoch /\ n.refused = x.refused
           /\ n.via = x.via /\ n.min = x.min /\ n.got = x.got /\ n.moved
BY Zenon DEF TaskType

(* What a task keeps when it goes on. *)
LEMMA KeptShape ==
    ASSUME NEW t \in Tasks, task[t] \in TaskType, NEW pc \in Pcs
    PROVE  /\ Kept(t, pc) \in TaskType /\ Kept(t, pc).pc = pc
           /\ Kept(t, pc).epoch \in {0, task[t].epoch} /\ Kept(t, pc).min \in {0, task[t].min}
           /\ Kept(t, pc).got = 0 /\ Kept(t, pc).via \in {"min", task[t].via}
           /\ pc = "route" => Kept(t, pc).refused = task[t].refused
           /\ pc \in {"newest", "clear", "raced", "reclaim"} /\ t \in Runners =>
                 Kept(t, pc).moved = task[t].moved
           /\ pc \in Refreshing =>
                 /\ Kept(t, pc).via = task[t].via /\ Kept(t, pc).min = task[t].min
                 /\ Kept(t, pc).refused = task[t].refused /\ Kept(t, pc).moved = task[t].moved
<1>1. CASE pc \in {"route", "newest", "clear", "raced", "reclaim"}
  <2>1. Kept(t, pc) = [Task(pc) EXCEPT !.refused = task[t].refused, !.moved = task[t].moved /\ t \in Runners]
    BY <1>1, Zenon DEF Kept
  <2>2. (task[t].moved /\ t \in Runners) \in BOOLEAN /\ task[t].refused \in Nat /\ task[t].moved \in BOOLEAN
    BY DEF TaskType
  <2>3. PICK m \in BOOLEAN : m = (task[t].moved /\ t \in Runners)
    BY <2>2, Zenon
  <2>4. PICK d \in Nat : d = task[t].refused
    BY <2>2, Zenon
  <2>5. Kept(t, pc) = [pc |-> pc, epoch |-> 0, refused |-> d, via |-> "min", min |-> 0, got |-> 0, moved |-> m]
    BY <2>1, <2>3, <2>4 DEF Task
  <2>6. t \in Runners => m = task[t].moved
    BY <2>2, <2>3, Zenon
  <2>7. pc \notin Refreshing
    BY <1>1 DEF Refreshing
  <2>8. /\ Kept(t, pc) \in TaskType /\ Kept(t, pc).pc = pc
        /\ Kept(t, pc).epoch = 0 /\ Kept(t, pc).min = 0
        /\ Kept(t, pc).got = 0 /\ Kept(t, pc).via = "min" 
        /\ Kept(t, pc).refused = d /\ Kept(t, pc).moved = m
    BY <2>5 DEF TaskType
  <2> QED
    BY <2>4, <2>6, <2>7, <2>8, Zenon
<1>2. CASE pc \in {"done", "sleep", "off", "handle", "spawn"}
  <2>1. Kept(t, pc) = Task(pc)
    BY <1>2 DEF Kept
  <2>2. pc \notin Refreshing /\ pc \notin {"newest", "clear", "raced", "reclaim"} /\ pc # "route"
    BY <1>2 DEF Refreshing
  <2> QED
    BY <2>1, <2>2, TaskShape, Zenon
<1>3. CASE pc \notin {"route", "newest", "clear", "raced", "reclaim", "done", "sleep", "off", "handle", "spawn"}
  <2>1. Kept(t, pc) = [task[t] EXCEPT !.pc = pc, !.got = 0]
    BY <1>3 DEF Kept
  <2>2. pc \notin {"newest", "clear", "raced", "reclaim"} /\ pc # "route"
    BY <1>3, Zenon
  <2>3. /\ Kept(t, pc) \in TaskType /\ Kept(t, pc).pc = pc /\ Kept(t, pc).epoch = task[t].epoch
        /\ Kept(t, pc).refused = task[t].refused
        /\ Kept(t, pc).via = task[t].via /\ Kept(t, pc).min = task[t].min /\ Kept(t, pc).got = 0
        /\ Kept(t, pc).moved = task[t].moved
    <3>1. PICK x \in TaskType : x = task[t]
      BY Zenon
    <3>2. PICK n : n = [x EXCEPT !.pc = pc, !.got = 0]
      BY Zenon
    <3>3. /\ n \in TaskType /\ n.pc = pc /\ n.epoch = x.epoch /\ n.refused = x.refused
          /\ n.via = x.via /\ n.min = x.min /\ n.got = 0 /\ n.moved = x.moved
      BY <3>2, Zenon DEF TaskType
    <3> QED
      BY <2>1, <3>1, <3>2, <3>3, Zenon
  <2> QED
    BY <2>2, <2>3, Zenon
<1> QED
  BY <1>1, <1>2, <1>3, Zenon

-----------------------------------------------------------------------------
(* One task goes on with the record n; the others may learn that a counter *)
(* has moved.                                                              *)
Moves(t, n) ==
    /\ task' \in [Tasks -> TaskType] /\ task'[t] = n
    /\ \A u \in Tasks : u # t =>
          /\ task'[u].pc = task[u].pc /\ task'[u].epoch = task[u].epoch
          /\ task'[u].refused = task[u].refused /\ task'[u].via = task[u].via
          /\ task'[u].min = task[u].min /\ task'[u].got = task[u].got
          /\ task[u].moved => task'[u].moved

LEMMA SetMoves ==
    ASSUME ShapeInv, NEW t \in Tasks, NEW n \in TaskType, task' = [task EXCEPT ![t] = n]
    PROVE  Moves(t, n)
BY Zenon DEF Moves, ShapeInv

LEMMA ShapeMoves ==
    ASSUME ShapeInv, NEW t \in Tasks, NEW n, Moves(t, n), Fits(t, n)',
           ring' = ring, cached' \in cached..ring, wanted' \in 0..ring, asked' \in 0..wanted',
           running' \in BOOLEAN
    PROVE  ShapeInv'
<1>1. ring \in Nat /\ cached \in 1..ring /\ ring' \in Nat /\ cached' \in 1..ring'
  BY DEF ShapeInv
<1>2. ASSUME NEW u \in Tasks PROVE Fits(u, task[u])'
  <2>1. CASE u = t
    BY <2>1, Zenon DEF Moves, Fits
  <2>2. CASE u # t
    <3>1. Fits(u, task[u]) /\ task[u].epoch \in Nat
      BY DEF ShapeInv, TaskType
    <3>2. /\ task'[u].pc = task[u].pc /\ task'[u].epoch = task[u].epoch
          /\ task'[u].via = task[u].via /\ task'[u].min = task[u].min /\ task'[u].got = task[u].got
      BY <2>2, Zenon DEF Moves
    <3>3. task'[u].epoch <= cached'
      BY <1>1, <3>1, <3>2 DEF Fits
    <3> QED
      BY <3>1, <3>2, <3>3, Zenon DEF Fits
  <2> QED
    BY <2>1, <2>2, Zenon
<1> QED
  BY <1>1, <1>2, Zenon DEF ShapeInv, Moves

LEMMA LockMoves ==
    ASSUME LockInv, NEW t \in Tasks, NEW n, Moves(t, n), lock' = lock,
           n.pc \in {"queued", "fetch", "got"} <=> task[t].pc \in {"queued", "fetch", "got"},
           n.pc \in {"got", "fetch"} => HoldsLock(t)
    PROVE  LockInv'
BY ZenonT(30) DEF LockInv, Moves, HoldsLock, InLine

LEMMA RefusedMoves ==
    ASSUME ShapeInv, RefusedInv, NEW t \in Tasks, NEW n, Moves(t, n), cached' \in cached..ring,
           t \in Requests => Behind(n)'
    PROVE  RefusedInv'
<1>1. ASSUME NEW r \in Requests PROVE Behind(task[r])'
  <2>0. r \in Tasks
    BY TasksApart, Zenon
  <2>1. CASE r = t
    BY <2>1, Zenon DEF Moves, Behind
  <2>2. CASE r # t
    <3>1. /\ task'[r].pc = task[r].pc /\ task'[r].epoch = task[r].epoch
          /\ task'[r].refused = task[r].refused
          /\ task'[r].via = task[r].via /\ task'[r].min = task[r].min
      BY <2>0, <2>2, Zenon DEF Moves
    <3>2. task[r].refused < cached => task[r].refused < cached'
      BY <2>0 DEF ShapeInv, TaskType
    <3> QED
      BY <3>1, <3>2, Zenon DEF Behind, RefusedInv
  <2> QED
    BY <2>1, <2>2, Zenon
<1> QED
  BY <1>1, Zenon DEF RefusedInv

LEMMA FlagMoves ==
    ASSUME FlagInv, NEW t \in Tasks, NEW n, Moves(t, n), running' = running,
           t \in Runners => (Working(t) <=> n.pc \notin {"off", "raced", "reclaim"})
    PROVE  FlagInv'
<1>1. \A b \in Runners : Working(b)' <=> Working(b)
  BY TasksApart, Zenon DEF Moves, Working
<1> QED
  BY <1>1, Zenon DEF FlagInv

LEMMA TriggerMoves ==
    ASSUME TriggerInv, NoTriggerIsLost, NEW t \in Tasks, NEW n, Moves(t, n),
           asked' = asked, wanted' = wanted,
           t \in Requests => task[t].pc \notin {"bump", "spawn"},
           t \in Runners => /\ task[t].pc # "off" /\ n.pc # "off"
                            /\ \/ n.pc \in {"handle", "ask"}
                               \/ task[t].pc \notin {"handle", "ask"} /\ (task[t].moved => n.moved)
    PROVE  TriggerInv' /\ NoTriggerIsLost'
<1>1. CASE asked = wanted
  BY <1>1, Zenon DEF TriggerInv, NoTriggerIsLost
<1>2. CASE \E r \in Requests : task[r].pc = "bump"
  <2>1. PICK r \in Requests : task[r].pc = "bump"
    BY <1>2, Zenon
  <2>2. task'[r].pc = "bump"
    BY <2>1, TasksApart, Zenon DEF Moves
  <2> QED
    BY <2>2, Zenon DEF TriggerInv, NoTriggerIsLost
<1>3. CASE asked # wanted /\ ~(\E r \in Requests : task[r].pc = "bump")
  <2>1. \A b \in Runners : task[b].pc \in {"off", "handle", "ask"} \/ task[b].moved
    BY <1>3, Zenon DEF TriggerInv
  <2>2. \A b \in Runners : task'[b].pc \in {"off", "handle", "ask"} \/ task'[b].moved
    BY <2>1, TasksApart, ZenonT(30) DEF Moves
  <2>3. (\E b \in Runners : task[b].pc # "off") \/ (\E r \in Requests : task[r].pc \in {"bump", "spawn"})
    BY <1>3, Zenon DEF NoTriggerIsLost
  <2>4. (\E b \in Runners : task'[b].pc # "off") \/ (\E r \in Requests : task'[r].pc \in {"bump", "spawn"})
    BY <2>3, TasksApart, ZenonT(30) DEF Moves
  <2> QED
    BY <2>2, <2>4, Zenon DEF TriggerInv, NoTriggerIsLost
<1> QED
  BY <1>1, <1>2, <1>3, Zenon

-----------------------------------------------------------------------------
(* The steps of a refresh.                                                 *)

LEMMA AfterShape ==
    ASSUME NEW t \in Tasks, NEW ok \in BOOLEAN
    PROVE  LET pc == AfterRefresh(t, ok) IN
           /\ pc \in Pcs /\ pc \notin {"queued", "fetch", "got", "sent", "bump", "spawn", "off"}
           /\ pc \notin Refreshing
           /\ t \in Requests => pc \in RequestPcs /\ (pc = "route" => ok)
           /\ t \in Runners => pc = "newest" /\ pc \in RunnerPcs
           /\ t = Poller => pc \in PollerPcs
<1>1. CASE t \in Runners
  <2>1. AfterRefresh(t, ok) = "newest"
    BY <1>1, Zenon DEF AfterRefresh
  <2> QED
    BY <1>1, <2>1, TasksApart, Zenon DEF Pcs, RunnerPcs, Refreshing
<1>2. CASE t = Poller
  <2>1. AfterRefresh(t, ok) = "sleep"
    BY <1>2, TasksApart, Zenon DEF AfterRefresh
  <2> QED
    BY <1>2, <2>1, TasksApart, Zenon DEF Pcs, PollerPcs, Refreshing
<1>3. CASE t \in Requests
  <2>1. AfterRefresh(t, ok) = (IF ok THEN "route" ELSE "done")
    BY <1>3, TasksApart, Zenon DEF AfterRefresh
  <2>2. CASE ok
    BY <1>3, <2>1, <2>2, TasksApart, Zenon DEF Pcs, RequestPcs, Refreshing
  <2>3. CASE ~ok
    BY <1>3, <2>1, <2>3, TasksApart, Zenon DEF Pcs, RequestPcs, Refreshing
  <2> QED
    BY <2>2, <2>3, Zenon
<1> QED
  BY <1>1, <1>2, <1>3, Zenon DEF Tasks

(* A task that leaves a refresh, or stays in it, keeps everything but the lock. *)
LEMMA RefreshGoes ==
    ASSUME CacheInv, NEW t \in Tasks, NEW n, Moves(t, n), task[t].pc \in Refreshing,
           UNCHANGED <<ring, atomics>>, cached' \in cached..ring,
           n.epoch \in {0, task[t].epoch}, n.min \in {0, task[t].min}, n.got <= ring,
           n.via \in {"min", task[t].via},
           \/ n.pc \in Refreshing /\ n.refused = task[t].refused /\ n.via = task[t].via
              /\ n.min = task[t].min
              /\ (t \in Runners /\ task[t].moved => n.moved)
           \/ \E ok \in BOOLEAN :
                 /\ n.pc = AfterRefresh(t, ok)
                 /\ t \in Requests /\ ok => n.refused < cached'
                 /\ t \in Runners /\ task[t].moved => n.moved
    PROVE  ShapeInv' /\ RefusedInv' /\ FlagInv' /\ TriggerInv' /\ NoTriggerIsLost'
<1>0. /\ ShapeInv /\ RefusedInv /\ FlagInv /\ TriggerInv /\ NoTriggerIsLost
      /\ task[t] \in TaskType /\ Fits(t, task[t])
  BY Zenon DEF CacheInv, ShapeInv
<1>1. /\ n.pc \notin {"bump", "spawn", "off", "sent", "raced", "reclaim"}
      /\ t \in Requests => n.pc \in RequestPcs
      /\ t \in Runners => n.pc \in RunnerPcs
      /\ t = Poller => n.pc \in PollerPcs
  <2>1. CASE n.pc \in Refreshing
    BY <2>1, PcShape, Zenon DEF Refreshing
  <2>2. CASE \E ok \in BOOLEAN : n.pc = AfterRefresh(t, ok)
    <3>1. PICK ok \in BOOLEAN : n.pc = AfterRefresh(t, ok)
      BY <2>2, Zenon
    <3>2. n.pc \notin {"raced", "reclaim"}
      BY <3>1, Zenon DEF AfterRefresh
    <3> QED
      BY <3>1, <3>2, AfterShape, ZenonT(30)
  <2> QED
    BY <2>1, <2>2, Zenon
<1>2. Fits(t, n)'
  <2>1. t \in Runners => n.via = "min"
    BY <1>0, Zenon DEF Fits
  <2>2. n.epoch <= cached' /\ n.min <= ring' /\ n.got <= ring'
    BY <1>0 DEF Fits, ShapeInv, TaskType
  <2> QED
    BY <1>1, <2>1, <2>2, Zenon DEF Fits
<1>3. ShapeInv'
  <2>1. wanted' \in 0..ring /\ asked' \in 0..wanted' /\ running' \in BOOLEAN
    BY <1>0 DEF ShapeInv, atomics
  <2> QED
    BY <1>0, <1>2, <2>1, ShapeMoves, Zenon
<1>4. RefusedInv'
  <2>1. ASSUME t \in Requests PROVE Behind(n)'
    <3>1. CASE n.pc \in Refreshing
      <4>1. Behind(task[t])
        BY <1>0, <2>1, Zenon DEF RefusedInv
      <4>2. task[t].refused < cached \/ (task[t].via = "min" /\ task[t].refused < task[t].min)
        BY <4>1, Zenon DEF Behind
      <4>3. task[t].refused < cached => task[t].refused < cached'
        BY <1>0 DEF ShapeInv, TaskType
      <4>4. n.refused = task[t].refused /\ n.via = task[t].via /\ n.min = task[t].min
        BY <3>1, AfterShape, Zenon
      <4>5. n.pc # "route" /\ n.pc # "sent"
        BY <3>1, Zenon DEF Refreshing
      <4> QED
        BY <4>2, <4>3, <4>4, <4>5, Zenon DEF Behind
    <3>2. CASE n.pc \notin Refreshing
      <4>1. PICK ok \in BOOLEAN : n.pc = AfterRefresh(t, ok) /\ (t \in Requests /\ ok => n.refused < cached')
        BY <3>2, Zenon
      <4>2. n.pc = "route" => ok
        BY <2>1, <4>1, AfterShape, Zenon
      <4> QED
        BY <1>1, <2>1, <3>2, <4>1, <4>2, Zenon DEF Behind
    <3> QED
      BY <3>1, <3>2, Zenon
  <2> QED
    BY <1>0, <2>1, RefusedMoves, Zenon
<1>5. FlagInv'
  <2>1. Working(t) /\ n.pc \notin {"off", "raced", "reclaim"} /\ running' = running
    BY <1>1, Zenon DEF Working, Refreshing, atomics
  <2> QED
    BY <1>0, <2>1, FlagMoves, Zenon
<1>6. TriggerInv' /\ NoTriggerIsLost'
  <2>1. task[t].pc \notin {"bump", "spawn", "off", "handle", "ask"} /\ n.pc # "off"
    BY <1>1, Zenon DEF Refreshing
  <2>2. asked' = asked /\ wanted' = wanted
    BY Zenon DEF atomics
  <2>3. t \in Runners => (task[t].moved => n.moved)
    BY Zenon
  <2> QED
    BY <1>0, <2>1, <2>2, <2>3, TriggerMoves, Zenon
<1> QED
  BY <1>3, <1>4, <1>5, <1>6, Zenon

(* A task that joins the line, is in it, or leaves it. *)
LEMMA LockJoins ==
    ASSUME LockInv, NEW t \in Tasks, NEW n, Moves(t, n), lock' = Append(lock, t),
           task[t].pc \notin {"queued", "fetch", "got"}, n.pc = "queued"
    PROVE  LockInv'
<1>1. lock \in Seq(Tasks) /\ lock' \in Seq(Tasks) /\ Len(lock) \in Nat /\ Len(lock') = Len(lock) + 1
  BY DEF LockInv
<1>2. (\A i \in 1..Len(lock) : lock'[i] = lock[i]) /\ lock'[Len(lock) + 1] = t
  BY <1>1
<1>3. \A i \in 1..Len(lock) : lock[i] # t
  BY Zenon DEF LockInv, InLine
<1>4. \A i, j \in 1..Len(lock') : lock'[i] = lock'[j] => i = j
  <2> SUFFICES ASSUME NEW i \in 1..Len(lock'), NEW j \in 1..Len(lock'), lock'[i] = lock'[j]
               PROVE  i = j
    BY Zenon
  <2>1. CASE i \in 1..Len(lock) /\ j \in 1..Len(lock)
    BY <1>2, <2>1, ZenonT(30) DEF LockInv
  <2>2. CASE i = Len(lock) + 1 /\ j \in 1..Len(lock)
    BY <1>2, <1>3, <2>2, Zenon
  <2>3. CASE i \in 1..Len(lock) /\ j = Len(lock) + 1
    BY <1>2, <1>3, <2>3, Zenon
  <2> QED
    BY <1>1, <2>1, <2>2, <2>3
<1>5. \A u \in Tasks : u # t => (InLine(u)' <=> InLine(u))
  BY <1>1, <1>2 DEF InLine
<1>6. InLine(t)'
  BY <1>1, <1>2 DEF InLine
<1>7. \A u \in Tasks : task'[u].pc \in {"got", "fetch"} => HoldsLock(u)'
  <2> SUFFICES ASSUME NEW u \in Tasks, task'[u].pc \in {"got", "fetch"} PROVE HoldsLock(u)'
    BY Zenon
  <2>1. HoldsLock(u)
    BY Zenon DEF Moves, LockInv
  <2> QED
    BY <1>1, <2>1 DEF HoldsLock
<1>8. \A u \in Tasks : InLine(u)' <=> task'[u].pc \in {"queued", "fetch", "got"}
  BY <1>5, <1>6, Zenon DEF Moves, LockInv
<1> QED
  BY <1>1, <1>4, <1>7, <1>8, Zenon DEF LockInv

LEMMA Concat ==
    ASSUME NEW S, NEW a \in Seq(S), NEW b \in Seq(S)
    PROVE  a \o b \in Seq(S) /\ Len(a \o b) = Len(a) + Len(b)
OBVIOUS

LEMMA LockLeaves ==
    ASSUME LockInv, NEW t \in Tasks, NEW n, Moves(t, n), NEW k \in 1..Len(lock), lock[k] = t,
           lock' = Without(lock, k), n.pc \notin {"queued", "fetch", "got"}
    PROVE  LockInv'
<1>1. lock \in Seq(Tasks) /\ Len(lock) \in Nat /\ k \in Nat
  BY DEF LockInv
<1>2. /\ lock' \in Seq(Tasks) /\ Len(lock') = Len(lock) - 1
      /\ \A i \in 1..Len(lock') : lock'[i] = IF i < k THEN lock[i] ELSE lock[i + 1]
  <2> DEFINE a == SubSeq(lock, 1, k - 1)
             b == SubSeq(lock, k + 1, Len(lock))
  <2>1. a \in Seq(Tasks) /\ Len(a) = k - 1 /\ \A i \in 1..k - 1 : a[i] = lock[i]
    BY <1>1
  <2>2. b \in Seq(Tasks) /\ Len(b) = Len(lock) - k /\ \A i \in 1..Len(lock) - k : b[i] = lock[k + i]
    BY <1>1
  <2>3. lock' = a \o b
    BY Zenon DEF Without
  <2> HIDE DEF a, b
  <2>4. lock' \in Seq(Tasks) /\ Len(lock') = Len(a) + Len(b)
    BY <2>1, <2>2, <2>3, Concat, ZenonT(30)
  <2>5. ASSUME NEW i \in 1..Len(lock') PROVE lock'[i] = IF i < k THEN lock[i] ELSE lock[i + 1]
    <3>1. CASE i < k
      BY <1>1, <2>1, <2>2, <2>3, <2>5, <3>1
    <3>2. CASE ~(i < k)
      <4>1. i - Len(a) \in 1..Len(lock) - k /\ k + (i - Len(a)) = i + 1
        BY <1>1, <2>1, <2>2, <2>4, <2>5, <3>2
      <4>2. lock'[i] = b[i - Len(a)]
        BY <1>1, <2>1, <2>2, <2>3, <2>5, <3>2
      <4> QED
        BY <2>2, <3>2, <4>1, <4>2
    <3> QED
      BY <3>1, <3>2, Zenon
  <2> QED
    BY <1>1, <2>1, <2>2, <2>4, <2>5
<1>3. \A i \in 1..Len(lock) : lock[i] = t => i = k
  BY Zenon DEF LockInv
<1>4. \A i, j \in 1..Len(lock') : lock'[i] = lock'[j] => i = j
  <2> SUFFICES ASSUME NEW i \in 1..Len(lock'), NEW j \in 1..Len(lock'), lock'[i] = lock'[j]
               PROVE  i = j
    BY Zenon
  <2>1. \A a, b \in 1..Len(lock) : lock[a] = lock[b] => a = b
    BY Zenon DEF LockInv
  <2> QED
    BY <1>1, <1>2, <2>1
<1>5. \A u \in Tasks : u # t => (InLine(u)' <=> InLine(u))
  <2> SUFFICES ASSUME NEW u \in Tasks, u # t PROVE InLine(u)' <=> InLine(u)
    BY Zenon
  <2>1. ASSUME InLine(u)' PROVE InLine(u)
    BY <1>1, <1>2, <2>1 DEF InLine
  <2>2. ASSUME InLine(u) PROVE InLine(u)'
    <3>1. PICK i \in 1..Len(lock) : lock[i] = u
      BY <2>2, Zenon DEF InLine
    <3>2. i # k
      BY <3>1, Zenon
    <3>3. CASE i < k
      BY <1>1, <1>2, <3>1, <3>3 DEF InLine
    <3>4. CASE i > k
      <4>1. i - 1 \in 1..Len(lock') /\ lock'[i - 1] = u
        BY <1>1, <1>2, <3>1, <3>4
      <4> QED
        BY <4>1, Zenon DEF InLine
    <3> QED
      BY <1>1, <3>2, <3>3, <3>4
  <2> QED
    BY <2>1, <2>2, Zenon
<1>6. ~InLine(t)'
  BY <1>1, <1>2, <1>3 DEF InLine
<1>7. \A u \in Tasks : task'[u].pc \in {"got", "fetch"} => HoldsLock(u)'
  <2> SUFFICES ASSUME NEW u \in Tasks, task'[u].pc \in {"got", "fetch"} PROVE HoldsLock(u)'
    BY Zenon
  <2>1. HoldsLock(u) /\ u # t
    BY Zenon DEF Moves, LockInv
  <2>2. lock[1] = u /\ 1 \in 1..Len(lock) /\ k # 1
    BY <1>1, <2>1 DEF HoldsLock
  <2>3. lock'[1] = u /\ Len(lock') >= 1
    BY <1>1, <1>2, <2>2
  <2> QED
    BY <1>2, <2>3 DEF HoldsLock
<1>8. \A u \in Tasks : InLine(u)' <=> task'[u].pc \in {"queued", "fetch", "got"}
  BY <1>5, <1>6, ZenonT(30) DEF Moves, LockInv
<1> QED
  BY <1>2, <1>4, <1>7, <1>8, Zenon DEF LockInv

(* The first of the line is the one that is taken from it. *)
LEMMA TailLeaves ==
    ASSUME LockInv, NEW t \in Tasks, HoldsLock(t)
    PROVE  1 \in 1..Len(lock) /\ lock[1] = t /\ Tail(lock) = Without(lock, 1)
BY DEF LockInv, HoldsLock, Without

-----------------------------------------------------------------------------
(* One lemma per action.                                                   *)

LEMMA StepEnter ==
    ASSUME CacheInv, NEW t \in Tasks, EnterRefresh(t)
    PROVE  CacheInv'
<1>0. /\ ShapeInv /\ LockInv /\ task[t] \in TaskType /\ Fits(t, task[t]) /\ task[t].pc = "enter"
      /\ "enter" \in Refreshing /\ "queued" \in Pcs /\ "queued" \in Refreshing
      /\ UNCHANGED <<ring, atomics>> /\ cached' = cached
  BY Zenon DEF CacheInv, ShapeInv, EnterRefresh, Refreshing, Pcs, RequestPcs
<1>1. cached' \in cached..ring
  BY <1>0 DEF ShapeInv
<1>2. task[t].moved \in BOOLEAN /\ task[t].got <= ring /\ task[t].refused \in Nat /\ task[t].min \in Nat
  BY <1>0 DEF TaskType, Fits
<1>3. CASE Satisfied(t)
  <2>1. PICK n : n = Kept(t, AfterRefresh(t, TRUE))
    BY Zenon
  <2>2. task' = [task EXCEPT ![t] = n] /\ lock' = lock
    BY <1>3, <2>1, Zenon DEF EnterRefresh, Go
  <2>3. AfterRefresh(t, TRUE) \in Pcs
        /\ AfterRefresh(t, TRUE) \notin {"queued", "fetch", "got"}
        /\ (t \in Requests => AfterRefresh(t, TRUE) = "route")
        /\ (t \in Runners => AfterRefresh(t, TRUE) = "newest")
    BY AfterShape, TasksApart, Zenon DEF AfterRefresh
  <2>4. /\ n \in TaskType /\ n.pc = AfterRefresh(t, TRUE) /\ n.epoch \in {0, task[t].epoch}
        /\ n.min \in {0, task[t].min} /\ n.got = 0 /\ n.via \in {"min", task[t].via}
        /\ t \in Requests => n.refused = task[t].refused
        /\ t \in Runners => n.moved = task[t].moved
    BY <1>0, <2>1, <2>3, KeptShape, Zenon
  <2>5. Moves(t, n)
    BY <1>0, <2>2, <2>4, SetMoves, Zenon
  <2>6. t \in Requests => n.refused < cached'
    <3>1. t \in Requests => Behind(task[t])
      BY Zenon DEF CacheInv, RefusedInv
    <3>2. t \in Requests => task[t].refused < cached
      BY <1>0, <1>2, <1>3, <3>1 DEF Satisfied, Behind, Fits, ShapeInv, TaskType
    <3> QED
      BY <1>0, <2>4, <3>2, Zenon
  <2>7. n.got <= ring
    BY <1>0, <2>4 DEF ShapeInv
  <2>8. ShapeInv' /\ RefusedInv' /\ FlagInv' /\ TriggerInv' /\ NoTriggerIsLost'
    BY <1>0, <1>1, <2>4, <2>5, <2>6, <2>7, RefreshGoes, Zenon
  <2>9. LockInv'
    BY <1>0, <2>2, <2>3, <2>4, <2>5, LockMoves, Zenon
  <2> QED
    BY <2>8, <2>9, Zenon DEF CacheInv
<1>4. CASE ~Satisfied(t)
  <2>1. PICK m : m = (task[t].moved /\ task[t].via = "min")
    BY Zenon
  <2>2. PICK n : n = [task[t] EXCEPT !.pc = "queued", !.moved = task[t].moved /\ task[t].via = "min"]
    BY Zenon
  <2>3. task' = [task EXCEPT ![t] = n] /\ lock' = Append(lock, t)
    BY <1>4, <2>2, Zenon DEF EnterRefresh
  <2>10. m \in BOOLEAN /\ n = [task[t] EXCEPT !.pc = "queued", !.moved = m]
    BY <2>1, <2>2, Zenon
  <2>4. PICK x \in TaskType : x = task[t]
    BY <1>0, Zenon
  <2>5. /\ n \in TaskType /\ n.pc = "queued" /\ n.epoch = x.epoch /\ n.refused = x.refused
        /\ n.via = x.via /\ n.min = x.min /\ n.got = x.got /\ n.moved = m
    BY <1>0, <2>10, <2>4, Zenon DEF TaskType
  <2>6. t \in Runners /\ task[t].moved => n.moved
    BY <1>0, <2>1, <2>5, Zenon DEF Fits
  <2>7. Moves(t, n)
    BY <1>0, <2>3, <2>5, SetMoves, Zenon
  <2>8. ShapeInv' /\ RefusedInv' /\ FlagInv' /\ TriggerInv' /\ NoTriggerIsLost'
    BY <1>0, <1>1, <1>2, <2>4, <2>5, <2>6, <2>7, RefreshGoes, Zenon
  <2>9. LockInv'
    BY <1>0, <2>3, <2>5, <2>7, LockJoins, Zenon
  <2> QED
    BY <2>8, <2>9, Zenon DEF CacheInv
<1> QED
  BY <1>3, <1>4, Zenon

LEMMA StepLocked ==
    ASSUME CacheInv, NEW t \in Tasks, Locked(t)
    PROVE  CacheInv'
<1>0. /\ ShapeInv /\ LockInv /\ task[t] \in TaskType /\ Fits(t, task[t]) /\ task[t].pc = "queued"
      /\ "queued" \in Refreshing /\ "fetch" \in Pcs /\ "fetch" \in Refreshing /\ HoldsLock(t)
      /\ UNCHANGED <<ring, atomics>> /\ cached' = cached
  BY Zenon DEF CacheInv, ShapeInv, Locked, Refreshing, Pcs, RequestPcs
<1>1. cached' \in cached..ring
  BY <1>0 DEF ShapeInv
<1>2. task[t].got <= ring /\ 0 <= ring /\ task[t].refused \in Nat /\ task[t].min \in Nat
  BY <1>0 DEF TaskType, Fits, ShapeInv
<1>3. PICK done \in BOOLEAN :
         /\ done = (Satisfied(t) \/ (task[t].via = "unavailable" /\ task[t].moved))
         /\ Go(t, IF done THEN AfterRefresh(t, TRUE) ELSE "fetch")
         /\ lock' = IF done THEN Tail(lock) ELSE lock
  BY Zenon DEF Locked
<1>4. CASE done
  <2>1. PICK n : n = Kept(t, AfterRefresh(t, TRUE))
    BY Zenon
  <2>2. task' = [task EXCEPT ![t] = n] /\ lock' = Tail(lock)
    BY <1>3, <1>4, <2>1, Zenon DEF Go
  <2>3. AfterRefresh(t, TRUE) \in Pcs
        /\ AfterRefresh(t, TRUE) \notin {"queued", "fetch", "got"}
        /\ (t \in Requests => AfterRefresh(t, TRUE) = "route")
        /\ (t \in Runners => AfterRefresh(t, TRUE) = "newest")
    BY AfterShape, TasksApart, Zenon DEF AfterRefresh
  <2>4. /\ n \in TaskType /\ n.pc = AfterRefresh(t, TRUE) /\ n.epoch \in {0, task[t].epoch}
        /\ n.min \in {0, task[t].min} /\ n.got = 0 /\ n.via \in {"min", task[t].via}
        /\ t \in Requests => n.refused = task[t].refused
        /\ t \in Runners => n.moved = task[t].moved
    BY <1>0, <2>1, <2>3, KeptShape, Zenon
  <2>5. Moves(t, n)
    BY <1>0, <2>2, <2>4, SetMoves, Zenon
  <2>6. t \in Requests => n.refused < cached'
    <3>1. t \in Requests => Behind(task[t])
      BY Zenon DEF CacheInv, RefusedInv
    <3>2. CASE task[t].via = "min"
      <4>1. Satisfied(t)
        BY <1>3, <1>4, <3>2
      <4>2. t \in Requests => task[t].refused < cached
        BY <1>0, <1>2, <3>1, <4>1 DEF Satisfied, Behind, Fits, ShapeInv, TaskType
      <4> QED
        BY <1>0, <2>4, <4>2, Zenon
    <3>3. CASE task[t].via # "min"
      BY <1>0, <2>4, <3>1, <3>3, Zenon DEF Behind
    <3> QED
      BY <3>2, <3>3, Zenon
  <2>7. n.got <= ring
    BY <1>0, <2>4 DEF ShapeInv
  <2>8. ShapeInv' /\ RefusedInv' /\ FlagInv' /\ TriggerInv' /\ NoTriggerIsLost'
    BY <1>0, <1>1, <2>4, <2>5, <2>6, <2>7, RefreshGoes, Zenon
  <2>9. LockInv'
    BY <1>0, <2>2, <2>3, <2>4, <2>5, TailLeaves, LockLeaves, ZenonT(30)
  <2> QED
    BY <2>8, <2>9, Zenon DEF CacheInv
<1>5. CASE ~done
  <2>1. PICK n : n = Kept(t, "fetch")
    BY Zenon
  <2>2. task' = [task EXCEPT ![t] = n] /\ lock' = lock
    BY <1>3, <1>5, <2>1, Zenon DEF Go
  <2>4. /\ n \in TaskType /\ n.pc = "fetch" /\ n.epoch \in {0, task[t].epoch}
        /\ n.min = task[t].min /\ n.got = 0 /\ n.via = task[t].via
        /\ n.refused = task[t].refused /\ n.moved = task[t].moved
    BY <1>0, <2>1, KeptShape, Zenon
  <2>5. Moves(t, n)
    BY <1>0, <2>2, <2>4, SetMoves, Zenon
  <2>8. ShapeInv' /\ RefusedInv' /\ FlagInv' /\ TriggerInv' /\ NoTriggerIsLost'
    BY <1>0, <1>1, <1>2, <2>4, <2>5, RefreshGoes, Zenon
  <2>9. LockInv'
    BY <1>0, <2>2, <2>4, <2>5, LockMoves, Zenon
  <2> QED
    BY <2>8, <2>9, Zenon DEF CacheInv
<1> QED
  BY <1>4, <1>5, Zenon

LEMMA StepFetch ==
    ASSUME CacheInv, NEW t \in Tasks, Fetch(t)
    PROVE  CacheInv'
<1>0. /\ ShapeInv /\ LockInv /\ task[t] \in TaskType /\ Fits(t, task[t]) /\ task[t].pc = "fetch"
      /\ "fetch" \in Refreshing /\ "got" \in Pcs /\ "got" \in Refreshing /\ HoldsLock(t)
      /\ UNCHANGED <<ring, atomics>> /\ cached' = cached /\ lock' = lock
  BY Zenon DEF CacheInv, ShapeInv, LockInv, Fetch, Refreshing, Pcs, RequestPcs
<1>1. cached' \in cached..ring /\ ring \in Nat /\ ring <= ring
  BY <1>0 DEF ShapeInv
<1>2. PICK n : n = [task[t] EXCEPT !.pc = "got", !.got = ring]
  BY Zenon
<1>3. task' = [task EXCEPT ![t] = n]
  BY <1>2, Zenon DEF Fetch
<1>4. PICK x \in TaskType : x = task[t]
  BY <1>0, Zenon
<1>5. /\ n \in TaskType /\ n.pc = "got" /\ n.epoch = x.epoch /\ n.refused = x.refused
      /\ n.via = x.via /\ n.min = x.min /\ n.got = ring /\ n.moved = x.moved
  BY <1>0, <1>1, <1>2, <1>4, Zenon DEF TaskType
<1>6. Moves(t, n)
  BY <1>0, <1>3, <1>5, SetMoves, Zenon
<1>7. ShapeInv' /\ RefusedInv' /\ FlagInv' /\ TriggerInv' /\ NoTriggerIsLost'
  BY <1>0, <1>1, <1>4, <1>5, <1>6, RefreshGoes, Zenon
<1>8. LockInv'
  BY <1>0, <1>5, <1>6, LockMoves, Zenon
<1> QED
  BY <1>7, <1>8, Zenon DEF CacheInv

LEMMA StepInstall ==
    ASSUME CacheInv, NEW t \in Tasks, Install(t)
    PROVE  CacheInv'
<1>0. /\ ShapeInv /\ LockInv /\ task[t] \in TaskType /\ Fits(t, task[t]) /\ task[t].pc = "got"
      /\ "got" \in Refreshing /\ "fetch" \in Pcs /\ "fetch" \in Refreshing /\ HoldsLock(t)
      /\ UNCHANGED <<ring, atomics>> /\ cached' = Newer(task[t].got)
  BY Zenon DEF CacheInv, ShapeInv, LockInv, Install, Refreshing, Pcs, RequestPcs
<1>1. cached' \in cached..ring /\ 0 <= ring
  BY <1>0 DEF ShapeInv, Fits, TaskType, Newer
<1>2. task[t].refused \in Nat /\ task[t].min \in Nat /\ cached \in Nat
  BY <1>0 DEF TaskType, ShapeInv
<1>3. PICK again \in BOOLEAN : again = (task[t].via = "min" /\ Newer(task[t].got) < task[t].min)
  BY Zenon
<1>4. PICK pc : pc = IF again THEN "fetch" ELSE AfterRefresh(t, TRUE)
  BY Zenon
<1>5. PICK n : n = Kept(t, pc)
  BY Zenon
<1>6. /\ task' = [u \in Tasks |->
              IF u = t THEN n
              ELSE IF task[u].pc = "queued" /\ task[u].via = "unavailable"
              THEN [task[u] EXCEPT !.moved = TRUE]
              ELSE task[u]]
      /\ lock' = IF again THEN lock ELSE Tail(lock)
  BY <1>3, <1>4, <1>5, Zenon DEF Install
<1>7. /\ AfterRefresh(t, TRUE) \in Pcs
      /\ AfterRefresh(t, TRUE) \notin {"queued", "fetch", "got"}
      /\ t \in Requests => AfterRefresh(t, TRUE) = "route"
      /\ t \in Runners => AfterRefresh(t, TRUE) = "newest"
  BY AfterShape, TasksApart, Zenon DEF AfterRefresh
<1>8. pc \in Pcs
  BY <1>0, <1>4, <1>7, Zenon
<1>9. /\ n \in TaskType /\ n.pc = pc /\ n.epoch \in {0, task[t].epoch}
      /\ n.min \in {0, task[t].min} /\ n.got = 0 /\ n.via \in {"min", task[t].via}
      /\ pc = "route" => n.refused = task[t].refused
      /\ pc = "newest" /\ t \in Runners => n.moved = task[t].moved
      /\ pc = "fetch" => n.via = task[t].via /\ n.min = task[t].min /\ n.refused = task[t].refused
                         /\ n.moved = task[t].moved
  BY <1>0, <1>5, <1>8, KeptShape, ZenonT(30)
<1>10. Moves(t, n)
  <2>1. ASSUME NEW u \in Tasks, u # t
        PROVE  /\ task'[u] \in TaskType
               /\ task'[u].pc = task[u].pc /\ task'[u].epoch = task[u].epoch
               /\ task'[u].refused = task[u].refused /\ task'[u].via = task[u].via
               /\ task'[u].min = task[u].min /\ task'[u].got = task[u].got
               /\ task[u].moved => task'[u].moved
    <3>1. PICK x \in TaskType : x = task[u]
      BY <1>0, Zenon DEF ShapeInv
    <3>2. task'[u] = x \/ task'[u] = [x EXCEPT !.moved = TRUE]
      BY <1>6, <2>1, <3>1, Zenon
    <3>3. LET y == [x EXCEPT !.moved = TRUE] IN
          /\ y \in TaskType /\ y.pc = x.pc /\ y.epoch = x.epoch /\ y.refused = x.refused
          /\ y.via = x.via /\ y.min = x.min /\ y.got = x.got /\ y.moved
      BY MovedShape, Zenon
    <3> QED
      BY <3>1, <3>2, <3>3, Zenon
  <2>2. task'[t] = n
    BY <1>6, Zenon
  <2>3. task' \in [Tasks -> TaskType]
    BY <1>6, <1>9, <2>1, <2>2, Zenon
  <2> QED
    BY <2>1, <2>2, <2>3, Zenon DEF Moves
<1>11. CASE again
  <2>1. n.pc = "fetch" /\ lock' = lock
    BY <1>4, <1>6, <1>9, <1>11, Zenon
  <2>2. ShapeInv' /\ RefusedInv' /\ FlagInv' /\ TriggerInv' /\ NoTriggerIsLost'
    BY <1>0, <1>1, <1>9, <1>10, <2>1, RefreshGoes, Zenon
  <2>3. LockInv'
    BY <1>0, <1>10, <2>1, LockMoves, Zenon
  <2> QED
    BY <2>2, <2>3, Zenon DEF CacheInv
<1>12. CASE ~again
  <2>1. pc = AfterRefresh(t, TRUE) /\ lock' = Tail(lock)
    BY <1>4, <1>6, <1>12, Zenon
  <2>2. t \in Requests => n.refused < cached'
    <3>1. t \in Requests => Behind(task[t])
      BY Zenon DEF CacheInv, RefusedInv
    <3>2. t \in Requests => task[t].refused < cached \/ (task[t].via = "min" /\ task[t].refused < task[t].min)
      BY <1>0, <3>1, Zenon DEF Behind
    <3>3. task[t].via = "min" => task[t].min <= cached'
      <4>1. task[t].via = "min" => ~(cached' < task[t].min)
        BY <1>0, <1>3, <1>12, Zenon
      <4> QED
        BY <1>0, <1>1, <1>2, <4>1 DEF ShapeInv
    <3>4. t \in Requests => task[t].refused < cached'
      BY <1>1, <1>2, <3>2, <3>3
    <3> QED
      BY <1>7, <1>9, <2>1, <3>4, Zenon
  <2>3. ShapeInv' /\ RefusedInv' /\ FlagInv' /\ TriggerInv' /\ NoTriggerIsLost'
    BY <1>0, <1>1, <1>7, <1>9, <1>10, <2>1, <2>2, RefreshGoes, Zenon
  <2>4. LockInv'
    BY <1>0, <1>7, <1>9, <1>10, <2>1, TailLeaves, LockLeaves, ZenonT(30)
  <2> QED
    BY <2>3, <2>4, Zenon DEF CacheInv
<1> QED
  BY <1>11, <1>12, Zenon

LEMMA StepFails ==
    ASSUME CacheInv, NEW t \in Tasks, RefreshFails(t)
    PROVE  CacheInv'
<1>0. /\ ShapeInv /\ LockInv /\ task[t] \in TaskType /\ Fits(t, task[t])
      /\ task[t].pc \in Refreshing
      /\ UNCHANGED <<ring, atomics>> /\ cached' = cached
  BY Zenon DEF CacheInv, ShapeInv, RefreshFails, Refreshing
<1>1. cached' \in cached..ring /\ 0 <= ring
  BY <1>0 DEF ShapeInv
<1>2. PICK ok \in BOOLEAN : Go(t, AfterRefresh(t, ok)) /\ (ok => task[t].via = "unavailable")
  BY Zenon DEF RefreshFails
<1>3. PICK k \in 1..Len(lock) : lock[k] = t /\ lock' = Without(lock, k)
  BY Zenon DEF RefreshFails
<1>4. PICK n : n = Kept(t, AfterRefresh(t, ok)) /\ task' = [task EXCEPT ![t] = n]
  BY <1>2, Zenon DEF Go
<1>5. /\ AfterRefresh(t, ok) \in Pcs
      /\ AfterRefresh(t, ok) \notin {"queued", "fetch", "got"}
      /\ t \in Requests /\ ok => AfterRefresh(t, ok) = "route"
      /\ t \in Runners => AfterRefresh(t, ok) = "newest"
  BY AfterShape, TasksApart, Zenon DEF AfterRefresh
<1>6. /\ n \in TaskType /\ n.pc = AfterRefresh(t, ok) /\ n.epoch \in {0, task[t].epoch}
      /\ n.min \in {0, task[t].min} /\ n.got = 0 /\ n.via \in {"min", task[t].via}
      /\ t \in Requests /\ ok => n.refused = task[t].refused
      /\ t \in Runners => n.moved = task[t].moved
  BY <1>0, <1>4, <1>5, KeptShape, Zenon
<1>7. Moves(t, n)
  BY <1>0, <1>4, <1>6, SetMoves, Zenon
<1>8. t \in Requests /\ ok => n.refused < cached'
  <2>1. t \in Requests => Behind(task[t])
    BY Zenon DEF CacheInv, RefusedInv
  <2> QED
    BY <1>0, <1>2, <1>6, <2>1, Zenon DEF Behind
<1>9. ShapeInv' /\ RefusedInv' /\ FlagInv' /\ TriggerInv' /\ NoTriggerIsLost'
  BY <1>0, <1>1, <1>6, <1>7, <1>8, RefreshGoes, Zenon
<1>10. LockInv'
  BY <1>0, <1>3, <1>5, <1>6, <1>7, LockLeaves, Zenon
<1> QED
  BY <1>9, <1>10, Zenon DEF CacheInv

(* A step outside the line for the lock that leaves ring, cache, flag and epochs alone. *)
LEMMA Aside ==
    ASSUME CacheInv, NEW t \in Tasks, NEW n \in TaskType, task' = [task EXCEPT ![t] = n],
           UNCHANGED <<ring, cached, lock, atomics>>,
           task[t].pc \notin {"queued", "fetch", "got"}, n.pc \notin {"queued", "fetch", "got"},
           Fits(t, n), t \in Requests => Behind(n),
           t \in Requests => task[t].pc \notin {"bump", "spawn"},
           t \in Runners =>
              /\ task[t].pc \notin {"off", "raced", "reclaim"}
              /\ n.pc \notin {"off", "raced", "reclaim"}
              /\ \/ n.pc \in {"handle", "ask"}
                 \/ task[t].pc \notin {"handle", "ask"} /\ (task[t].moved => n.moved)
    PROVE  CacheInv'
<1>0. /\ ShapeInv /\ LockInv /\ RefusedInv /\ FlagInv /\ TriggerInv /\ NoTriggerIsLost
      /\ ring' = ring /\ cached' = cached /\ lock' = lock
      /\ running' = running /\ asked' = asked /\ wanted' = wanted
  BY Zenon DEF CacheInv, atomics
<1>1. Moves(t, n)
  BY <1>0, SetMoves, Zenon
<1>2. cached' \in cached..ring /\ wanted' \in 0..ring /\ asked' \in 0..wanted' /\ running' \in BOOLEAN
  BY <1>0 DEF ShapeInv
<1>3. Fits(t, n)'
  BY <1>0, Zenon DEF Fits
<1>4. t \in Requests => Behind(n)'
  BY <1>0, Zenon DEF Behind
<1>5. ShapeInv'
  BY <1>0, <1>1, <1>2, <1>3, ShapeMoves, Zenon
<1>6. LockInv'
  BY <1>0, <1>1, LockMoves, Zenon
<1>7. RefusedInv'
  BY <1>0, <1>1, <1>2, <1>4, RefusedMoves, Zenon
<1>8. FlagInv'
  BY <1>0, <1>1, FlagMoves, Zenon DEF Working
<1>9. TriggerInv' /\ NoTriggerIsLost'
  BY <1>0, <1>1, TriggerMoves, Zenon
<1> QED
  BY <1>5, <1>6, <1>7, <1>8, <1>9, Zenon DEF CacheInv

LEMMA StepRequest ==
    ASSUME CacheInv, NEW r \in Requests,
           Route(r) \/ Answer(r) \/ Moved(r) \/ RetryCode(r) \/ LeaseExpired(r) \/ Unavailable(r)
    PROVE  CacheInv'
<1>0. /\ r \in Tasks /\ r \notin Runners /\ r # Poller
      /\ ShapeInv /\ task[r] \in TaskType /\ Fits(r, task[r]) /\ Behind(task[r])
      /\ task[r].pc \in {"route", "sent"}
      /\ UNCHANGED <<ring, cached, lock, atomics>>
      /\ {"route", "sent", "enter", "wanted", "done"} \subseteq RequestPcs
      /\ "enter" \in Refreshing /\ {"route", "sent", "wanted", "done"} \cap Refreshing = {}
  <2>1. r \in Tasks /\ r \notin Runners /\ r # Poller
    BY TasksApart, Zenon
  <2>2. /\ ShapeInv /\ task[r] \in TaskType /\ Fits(r, task[r]) /\ Behind(task[r])
    BY <2>1, Zenon DEF CacheInv, ShapeInv, RefusedInv
  <2>3. task[r].pc \in {"route", "sent"} /\ UNCHANGED <<ring, cached, lock, atomics>>
    BY Zenon DEF Route, Answer, Moved, RetryCode, LeaseExpired, Unavailable
  <2>4. /\ {"route", "sent", "enter", "wanted", "done"} \subseteq RequestPcs
        /\ "enter" \in Refreshing /\ {"route", "sent", "wanted", "done"} \cap Refreshing = {}
    BY Zenon DEF RequestPcs, Refreshing
  <2> QED
    BY <2>1, <2>2, <2>3, <2>4, Zenon
<1>1. /\ task[r].pc \notin {"queued", "fetch", "got", "bump", "spawn"}
      /\ \A p \in {"route", "sent", "enter", "wanted", "done"} :
            p \in Pcs /\ p \notin {"queued", "fetch", "got"}
  BY <1>0, PcShape, Zenon
<1>2. /\ ring \in Nat /\ cached \in Nat /\ cached <= ring /\ task[r].epoch \in Nat /\ task[r].refused \in Nat
      /\ task[r].min \in Nat /\ task[r].got \in Nat /\ cached <= cached /\ 0 <= ring
      /\ task[r].epoch <= cached /\ task[r].min <= ring /\ task[r].got <= ring /\ 0 <= cached
  BY <1>0 DEF ShapeInv, TaskType, Fits
<1>3. PICK x \in TaskType : x = task[r]
  BY <1>0, Zenon
<1>4. CASE Route(r)
  <2>1. PICK n : n = [x EXCEPT !.pc = "sent", !.epoch = cached]
    BY Zenon
  <2>2. task' = [task EXCEPT ![r] = n] /\ task[r].pc = "route"
    BY <1>3, <1>4, <2>1, Zenon DEF Route
  <2>3. /\ n \in TaskType /\ n.pc = "sent" /\ n.epoch = cached /\ n.refused = x.refused
        /\ n.via = x.via /\ n.min = x.min /\ n.got = x.got
    BY <1>1, <1>2, <2>1, Zenon DEF TaskType
  <2>4. Fits(r, n)
    BY <1>0, <1>2, <1>3, <2>3, Zenon DEF Fits
  <2>5. Behind(n)
    BY <1>0, <1>3, <2>2, <2>3, Zenon DEF Behind
  <2> QED
    BY <1>0, <1>1, <2>2, <2>3, <2>4, <2>5, Aside, Zenon
<1>5. CASE Answer(r)
  <2>1. PICK e \in NodeEpochs(r) : task' = [task EXCEPT ![r] = IF e > task[r].epoch
                                         THEN [Task("wanted") EXCEPT !.min = e]
                                         ELSE Task("done")]
    BY <1>5, Zenon DEF Answer
  <2>2. e \in Nat /\ e <= ring
    BY <1>2 DEF NodeEpochs
  <2>3. PICK n : n = IF e > task[r].epoch THEN [Task("wanted") EXCEPT !.min = e] ELSE Task("done")
    BY Zenon
  <2>4. PICK w \in TaskType : w = Task("wanted") /\ w.pc = "wanted" /\ w.epoch = 0 /\ w.got = 0
    BY <1>1, TaskShape, Zenon
  <2>5. PICK y : y = [w EXCEPT !.min = e]
    BY Zenon
  <2>6. y \in TaskType /\ y.pc = "wanted" /\ y.epoch = 0 /\ y.got = 0 /\ y.min = e
    BY <2>2, <2>4, <2>5, Zenon DEF TaskType
  <2>7. /\ n \in TaskType /\ n.pc \in {"wanted", "done"} /\ n.epoch = 0 /\ n.got = 0 /\ n.min \in {e, 0}
    BY <1>1, <2>3, <2>4, <2>5, <2>6, TaskShape, Zenon
  <2>8. Fits(r, n)
    BY <1>0, <1>2, <2>2, <2>7, Zenon DEF Fits
  <2>9. Behind(n)
    BY <1>0, <2>7, Zenon DEF Behind
  <2>10. task' = [task EXCEPT ![r] = n]
    BY <2>1, <2>3, Zenon
  <2> QED
    BY <1>0, <1>1, <2>7, <2>8, <2>9, <2>10, Aside, Zenon
<1>6. CASE Moved(r)
  <2>1. PICK e \in NodeEpochs(r) \ {task[r].epoch} :
          task' = [task EXCEPT ![r] =
                      [@ EXCEPT !.pc = "enter", !.via = "min", !.min = RequiredEpoch(r, e),
                                !.refused = task[r].epoch]]
    BY <1>6, Zenon DEF Moved
  <2>2. PICK m : m = RequiredEpoch(r, e)
    BY Zenon
  <2>3. m \in Nat /\ m <= ring /\ task[r].epoch < m
    BY <1>2, <2>2 DEF NodeEpochs, RequiredEpoch
  <2>4. PICK n : n = [x EXCEPT !.pc = "enter", !.via = "min", !.min = m, !.refused = x.epoch]
    BY Zenon
  <2>5. task' = [task EXCEPT ![r] = n]
    BY <1>3, <2>1, <2>2, <2>4, Zenon
  <2>6. /\ n \in TaskType /\ n.pc = "enter" /\ n.epoch = x.epoch /\ n.refused = x.epoch
        /\ n.via = "min" /\ n.min = m /\ n.got = x.got
    BY <1>1, <1>2, <1>3, <2>3, <2>4, Zenon DEF TaskType
  <2>7. Fits(r, n)
    BY <1>0, <1>2, <1>3, <2>3, <2>6, Zenon DEF Fits
  <2>8. Behind(n)
    BY <1>0, <1>3, <2>3, <2>6, Zenon DEF Behind
  <2> QED
    BY <1>0, <1>1, <2>5, <2>6, <2>7, <2>8, Aside, Zenon
<1>7. ASSUME NEW v \in {"min", "unavailable"}, NEW e \in Nat, e <= ring, task[r].pc = "sent",
             Refresh(r, v, e)
      PROVE  CacheInv'
  <2>1. PICK n : n = [x EXCEPT !.pc = "enter", !.via = v, !.min = e]
    BY Zenon
  <2>2. task' = [task EXCEPT ![r] = n]
    BY <1>3, <1>7, <2>1, Zenon DEF Refresh
  <2>3. /\ n \in TaskType /\ n.pc = "enter" /\ n.epoch = x.epoch /\ n.refused = x.refused
        /\ n.via = v /\ n.min = e /\ n.got = x.got
    BY <1>1, <1>7, <2>1, Zenon DEF TaskType
  <2>4. Fits(r, n)
    BY <1>0, <1>2, <1>3, <1>7, <2>3, Zenon DEF Fits
  <2>5. x.refused < cached
    BY <1>0, <1>2, <1>3, <1>7 DEF Behind
  <2>6. Behind(n)
    BY <1>0, <2>3, <2>5, Zenon DEF Behind
  <2> QED
    BY <1>0, <1>1, <2>2, <2>3, <2>4, <2>6, Aside, Zenon
<1>8. CASE RetryCode(r)
  <2>1. PICK e \in NodeEpochs(r) : IF e > task[r].epoch THEN Refresh(r, "min", e) ELSE Go(r, "route")
    BY <1>8, Zenon DEF RetryCode
  <2>2. e \in Nat /\ e <= ring /\ task[r].pc = "sent"
    BY <1>2, <1>8 DEF NodeEpochs, RetryCode
  <2>3. CASE Refresh(r, "min", e)
    BY <1>7, <2>2, <2>3, Zenon
  <2>4. CASE Go(r, "route")
    <3>1. PICK n : n = Kept(r, "route") /\ task' = [task EXCEPT ![r] = n]
      BY <2>4, Zenon DEF Go
    <3>2. /\ n \in TaskType /\ n.pc = "route" /\ n.epoch \in {0, task[r].epoch} /\ n.min \in {0, task[r].min}
          /\ n.got = 0 /\ n.refused = task[r].refused
      BY <1>0, <1>1, <3>1, KeptShape, ZenonT(30)
    <3>3. Fits(r, n)
      BY <1>0, <1>2, <3>2, Zenon DEF Fits
    <3>4. task[r].refused < cached
      BY <1>0, <1>2, <2>2 DEF Behind
    <3>5. Behind(n)
      BY <1>0, <3>2, <3>4, Zenon DEF Behind
    <3> QED
      BY <1>0, <1>1, <3>1, <3>2, <3>3, <3>5, Aside, Zenon
  <2> QED
    BY <2>1, <2>3, <2>4, Zenon
<1>9. CASE LeaseExpired(r)
  BY <1>2, <1>7, <1>9 DEF LeaseExpired
<1>10. CASE Unavailable(r)
  BY <1>2, <1>7, <1>10 DEF Unavailable
<1> QED
  BY <1>4, <1>5, <1>6, <1>8, <1>9, <1>10, Zenon

LEMMA StepRaise ==
    ASSUME CacheInv, NEW r \in Requests, RaiseWanted(r)
    PROVE  CacheInv'
<1>0. /\ ShapeInv /\ LockInv /\ RefusedInv /\ FlagInv
      /\ r \in Tasks /\ r \notin Runners /\ r # Poller
      /\ ring' = ring /\ cached' = cached /\ lock' = lock /\ running' = running /\ asked' = asked
      /\ task[r].pc = "wanted" /\ "bump" \in Pcs /\ "bump" \in RequestPcs /\ "bump" \notin Refreshing
  BY TasksApart, Zenon DEF CacheInv, RaiseWanted, Pcs, RequestPcs, Refreshing
<1>1. task[r] \in TaskType /\ Fits(r, task[r])
  BY <1>0, Zenon DEF ShapeInv
<1>2. PICK n : n = Kept(r, "bump") /\ task' = [task EXCEPT ![r] = n]
  BY Zenon DEF RaiseWanted, Go
<1>3. /\ n \in TaskType /\ n.pc = "bump" /\ n.epoch \in {0, task[r].epoch} /\ n.min \in {0, task[r].min}
      /\ n.got = 0
  BY <1>0, <1>1, <1>2, KeptShape, Zenon
<1>4. Moves(r, n)
  BY <1>0, <1>2, <1>3, SetMoves, Zenon
<1>5. /\ cached' \in cached..ring /\ 0 <= ring' /\ 0 <= cached' /\ running' \in BOOLEAN
      /\ wanted' \in 0..ring /\ asked' \in 0..wanted'
  BY <1>0, <1>1 DEF ShapeInv, RaiseWanted, Fits, TaskType
<1>6. Fits(r, n)'
  BY <1>0, <1>1, <1>3, <1>5, Zenon DEF Fits
<1>7. ShapeInv'
  BY <1>0, <1>4, <1>5, <1>6, ShapeMoves, Zenon
<1>8. LockInv'
  BY <1>0, <1>3, <1>4, LockMoves, Zenon
<1>9. RefusedInv'
  <2>1. Behind(n)'
    BY <1>0, <1>3, Zenon DEF Behind
  <2> QED
    BY <1>0, <1>4, <1>5, <2>1, RefusedMoves, Zenon
<1>10. FlagInv'
  BY <1>0, <1>4, FlagMoves, Zenon
<1>11. TriggerInv' /\ NoTriggerIsLost'
  <2>1. task'[r].pc = "bump"
    BY <1>3, <1>4, Zenon DEF Moves
  <2> QED
    BY <2>1, Zenon DEF TriggerInv, NoTriggerIsLost
<1> QED
  BY <1>7, <1>8, <1>9, <1>10, <1>11, Zenon DEF CacheInv

LEMMA StepBump ==
    ASSUME CacheInv, NEW r \in Requests, BumpTrigger(r)
    PROVE  CacheInv'
<1>0. /\ ShapeInv /\ LockInv /\ RefusedInv /\ FlagInv
      /\ r \in Tasks /\ r \notin Runners /\ r # Poller
      /\ ring' = ring /\ cached' = cached /\ lock' = lock /\ running' = running /\ asked' = asked
      /\ wanted' = wanted
      /\ task[r].pc = "bump" /\ "spawn" \in Pcs /\ "spawn" \in RequestPcs /\ "spawn" \notin Refreshing
  BY TasksApart, Zenon DEF CacheInv, BumpTrigger, Pcs, RequestPcs, Refreshing, atomics
<1>1. task[r] \in TaskType /\ Fits(r, task[r])
  BY <1>0, Zenon DEF ShapeInv
<1>2. PICK n : n = Kept(r, "spawn")
  BY Zenon
<1>3. task' = [t \in Tasks |->
          IF t = r THEN n
          ELSE IF t \in Runners /\ task[t].pc # "off" THEN [task[t] EXCEPT !.moved = TRUE]
          ELSE task[t]]
  BY <1>2, Zenon DEF BumpTrigger
<1>4. /\ n \in TaskType /\ n.pc = "spawn" /\ n.epoch \in {0, task[r].epoch} /\ n.min \in {0, task[r].min}
      /\ n.got = 0
  BY <1>0, <1>1, <1>2, KeptShape, Zenon
<1>5. ASSUME NEW u \in Tasks, u # r
      PROVE  /\ task'[u] \in TaskType
             /\ task'[u].pc = task[u].pc /\ task'[u].epoch = task[u].epoch
             /\ task'[u].refused = task[u].refused /\ task'[u].via = task[u].via
             /\ task'[u].min = task[u].min /\ task'[u].got = task[u].got
             /\ task[u].moved => task'[u].moved
             /\ u \in Runners /\ task[u].pc # "off" => task'[u].moved
  <2>1. PICK x \in TaskType : x = task[u]
    BY <1>0, Zenon DEF ShapeInv
  <2>2. /\ task'[u] = x \/ task'[u] = [x EXCEPT !.moved = TRUE]
        /\ u \in Runners /\ task[u].pc # "off" => task'[u] = [x EXCEPT !.moved = TRUE]
    BY <1>3, <1>5, <2>1, Zenon
  <2>3. LET y == [x EXCEPT !.moved = TRUE] IN
        /\ y \in TaskType /\ y.pc = x.pc /\ y.epoch = x.epoch /\ y.refused = x.refused
        /\ y.via = x.via /\ y.min = x.min /\ y.got = x.got /\ y.moved
    BY MovedShape, Zenon
  <2> QED
    BY <2>1, <2>2, <2>3, Zenon
<1>6. Moves(r, n)
  <2>1. task'[r] = n
    BY <1>0, <1>3, Zenon
  <2>2. task' \in [Tasks -> TaskType]
    BY <1>3, <1>4, <1>5, <2>1, Zenon
  <2> QED
    BY <1>5, <2>1, <2>2, Zenon DEF Moves
<1>7. /\ cached' \in cached..ring /\ 0 <= ring' /\ 0 <= cached' /\ running' \in BOOLEAN
      /\ wanted' \in 0..ring /\ asked' \in 0..wanted'
  BY <1>0, <1>1 DEF ShapeInv
<1>8. Fits(r, n)'
  BY <1>0, <1>1, <1>4, <1>7, Zenon DEF Fits
<1>9. ShapeInv'
  BY <1>0, <1>6, <1>7, <1>8, ShapeMoves, Zenon
<1>10. LockInv'
  BY <1>0, <1>4, <1>6, LockMoves, Zenon
<1>11. RefusedInv'
  <2>1. Behind(n)'
    BY <1>0, <1>4, Zenon DEF Behind
  <2> QED
    BY <1>0, <1>6, <1>7, <2>1, RefusedMoves, Zenon
<1>12. FlagInv'
  BY <1>0, <1>6, FlagMoves, Zenon
<1>13. TriggerInv' /\ NoTriggerIsLost'
  <2>1. task'[r].pc = "spawn"
    BY <1>4, <1>6, Zenon DEF Moves
  <2>2. \A b \in Runners : task'[b].pc = "off" \/ task'[b].moved
    BY <1>0, <1>5, TasksApart, Zenon
  <2> QED
    BY <2>1, <2>2, Zenon DEF TriggerInv, NoTriggerIsLost
<1> QED
  BY <1>9, <1>10, <1>11, <1>12, <1>13, Zenon DEF CacheInv

LEMMA StepSpawn ==
    ASSUME CacheInv, NEW r \in Requests, Spawn(r)
    PROVE  CacheInv'
<1>0. /\ ShapeInv /\ LockInv /\ RefusedInv /\ FlagInv /\ TriggerInv /\ NoTriggerIsLost
      /\ r \in Tasks /\ r \notin Runners /\ r # Poller
      /\ ring' = ring /\ cached' = cached /\ lock' = lock /\ asked' = asked
      /\ wanted' = wanted /\ task[r].pc = "spawn"
      /\ "done" \in Pcs /\ "done" \in RequestPcs /\ "done" \notin Refreshing
      /\ "handle" \in Pcs /\ "handle" \in RunnerPcs
  BY TasksApart, Zenon DEF CacheInv, Spawn, Pcs, RequestPcs, RunnerPcs, Refreshing
<1>1. task[r] \in TaskType /\ Fits(r, task[r]) /\ Task("done") \in TaskType /\ Task("handle") \in TaskType
  BY <1>0, TaskShape, Zenon DEF ShapeInv
<1>2. /\ cached' \in cached..ring /\ 0 <= ring' /\ 0 <= cached'
      /\ wanted' \in 0..ring /\ asked' \in 0..wanted'
  BY <1>0, <1>1 DEF ShapeInv
<1>3. CASE running
  <2>1. Kept(r, "done") = Task("done")
    BY DEF Kept
  <2>2. PICK n : n = Task("done") /\ task' = [task EXCEPT ![r] = n] /\ running' = running
    BY <1>3, <2>1, Zenon DEF Spawn, Go
  <2>3. n \in TaskType /\ n.pc = "done" /\ n.epoch = 0 /\ n.min = 0 /\ n.got = 0
    BY <1>0, <2>2, TaskShape, Zenon
  <2>4. Moves(r, n)
    BY <1>0, <2>2, <2>3, SetMoves, Zenon
  <2>5. Fits(r, n)'
    BY <1>0, <1>2, <2>3, Zenon DEF Fits
  <2>6. ShapeInv'
    BY <1>0, <1>2, <2>2, <2>4, <2>5, ShapeMoves, Zenon DEF ShapeInv
  <2>7. LockInv'
    BY <1>0, <2>3, <2>4, LockMoves, Zenon
  <2>8. RefusedInv'
    <3>1. Behind(n)'
      BY <1>0, <2>3, Zenon DEF Behind
    <3> QED
      BY <1>0, <1>2, <2>4, <3>1, RefusedMoves, Zenon
  <2>9. FlagInv'
    BY <1>0, <2>2, <2>4, FlagMoves, Zenon
  <2>10. PICK b \in Runners : Working(b)'
    BY <1>3, <2>2, <2>9, Zenon DEF FlagInv
  <2>11. NoTriggerIsLost'
    BY <2>10, Zenon DEF NoTriggerIsLost, Working
  <2>12. TriggerInv'
    <3>1. \A t \in Runners : task'[t] = task[t]
      BY <1>0, <2>2, TasksApart, Zenon DEF ShapeInv
    <3>2. \A t \in Requests : task[t].pc = "bump" => task'[t].pc = "bump"
      BY <1>0, <2>4, TasksApart, Zenon DEF Moves
    <3> QED
      BY <1>0, <3>1, <3>2, Zenon DEF TriggerInv
  <2> QED
    BY <2>6, <2>7, <2>8, <2>9, <2>11, <2>12, Zenon DEF CacheInv
<1>4. CASE ~running
  <2>1. PICK b \in Runners : task[b].pc = "off"
                             /\ task' = [task EXCEPT ![r] = Task("done"), ![b] = Task("handle")]
                             /\ running' = TRUE
    BY <1>4, Zenon DEF Spawn
  <2>2. b \in Tasks /\ b # r /\ b # Poller /\ b \notin Requests
    BY <1>0, TasksApart, Zenon
  <2>3. /\ task' \in [Tasks -> TaskType] /\ task'[r] = Task("done") /\ task'[b] = Task("handle")
        /\ \A t \in Tasks : t # r /\ t # b => task'[t] = task[t]
    BY <1>0, <1>1, <2>1, <2>2, Zenon DEF ShapeInv
  <2>4. /\ task'[r].pc = "done" /\ task'[b].pc = "handle" /\ task'[b].via = "min"
        /\ task'[r].epoch = 0 /\ task'[r].min = 0 /\ task'[r].got = 0
        /\ task'[b].epoch = 0 /\ task'[b].min = 0 /\ task'[b].got = 0
    <3>1. /\ Task("done").pc = "done" /\ Task("done").epoch = 0 /\ Task("done").min = 0
          /\ Task("done").got = 0
      BY <1>0, TaskShape, Zenon
    <3>2. /\ Task("handle").pc = "handle" /\ Task("handle").epoch = 0 /\ Task("handle").min = 0
          /\ Task("handle").got = 0 /\ Task("handle").via = "min"
      BY <1>0, TaskShape, Zenon
    <3> QED
      BY <2>3, <3>1, <3>2, Zenon
  <2>5. ShapeInv'
    <3>1. ASSUME NEW t \in Tasks PROVE Fits(t, task[t])'
      <4>1. CASE t = r
        <5>1. /\ task'[t].pc \in RequestPcs /\ t \notin Runners /\ t # Poller
              /\ task'[t].epoch = 0 /\ task'[t].min = 0 /\ task'[t].got = 0
          BY <1>0, <2>4, <4>1, Zenon
        <5> QED
          BY <1>2, <5>1, Zenon DEF Fits
      <4>2. CASE t = b
        <5>1. /\ task'[t].pc \in RunnerPcs /\ task'[t].via = "min" /\ t \notin Requests /\ t # Poller
              /\ task'[t].epoch = 0 /\ task'[t].min = 0 /\ task'[t].got = 0
          BY <1>0, <2>2, <2>4, <4>2, Zenon
        <5> QED
          BY <1>2, <5>1, Zenon DEF Fits
      <4>3. CASE t # r /\ t # b
        BY <1>0, <2>3, <4>3, Zenon DEF Fits, ShapeInv
      <4> QED
        BY <4>1, <4>2, <4>3, Zenon
    <3> QED
      BY <1>0, <2>1, <2>3, <3>1, Zenon DEF ShapeInv
  <2>6. LockInv'
    <3>1. \A t \in {r, b} : /\ task'[t].pc \notin {"queued", "fetch", "got"}
                             /\ task[t].pc \notin {"queued", "fetch", "got"}
      BY <1>0, <2>1, <2>4, Zenon
    <3>2. \A t \in Tasks : t \notin {r, b} => task'[t].pc = task[t].pc
      BY <2>3, Zenon
    <3>3. \A t \in Tasks : (HoldsLock(t)' <=> HoldsLock(t)) /\ (InLine(t)' <=> InLine(t))
      BY <1>0, Zenon DEF HoldsLock, InLine
    <3>4. \A t \in Tasks : task'[t].pc \in {"got", "fetch"} => HoldsLock(t)'
      BY <1>0, <3>1, <3>2, <3>3, Zenon DEF LockInv
    <3>5. \A t \in Tasks : InLine(t)' <=> task'[t].pc \in {"queued", "fetch", "got"}
      BY <1>0, <3>1, <3>2, <3>3, Zenon DEF LockInv
    <3> QED
      BY <1>0, <3>4, <3>5, Zenon DEF LockInv
  <2>7. RefusedInv'
    <3>1. ASSUME NEW t \in Requests PROVE Behind(task[t])'
      <4>1. CASE t = r
        BY <1>0, <2>4, <4>1, Zenon DEF Behind
      <4>2. CASE t # r
        BY <1>0, <2>2, <2>3, <4>2, TasksApart, Zenon DEF Behind, RefusedInv
      <4> QED
        BY <4>1, <4>2, Zenon
    <3> QED
      BY <3>1, Zenon DEF RefusedInv
  <2>8. FlagInv'
    <3>1. \A t \in Runners : Working(t)' => t = b
      BY <1>0, <1>4, <2>3, TasksApart, Zenon DEF Working, FlagInv
    <3>2. Working(b)'
      BY <2>4, Zenon DEF Working
    <3> QED
      BY <2>1, <3>1, <3>2, Zenon DEF FlagInv
  <2>9. NoTriggerIsLost'
    BY <2>4, Zenon DEF NoTriggerIsLost
  <2>10. TriggerInv'
    <3>1. \A t \in Runners : task[t].pc \in {"off", "handle", "ask"} \/ task[t].moved
                => task'[t].pc \in {"off", "handle", "ask"} \/ task'[t].moved
      BY <1>0, <2>3, <2>4, TasksApart, Zenon
    <3>2. \A t \in Requests : task[t].pc = "bump" => task'[t].pc = "bump"
      BY <1>0, <2>2, <2>3, TasksApart, Zenon
    <3> QED
      BY <1>0, <3>1, <3>2, Zenon DEF TriggerInv
  <2> QED
    BY <2>5, <2>6, <2>7, <2>8, <2>9, <2>10, Zenon DEF CacheInv
<1> QED
  BY <1>3, <1>4, Zenon

LEMMA StepRunner ==
    ASSUME CacheInv, NEW b \in Runners, RunnerStep(b)
    PROVE  CacheInv'
<1>0. /\ ShapeInv /\ LockInv /\ RefusedInv /\ FlagInv /\ TriggerInv /\ NoTriggerIsLost
      /\ b \in Tasks /\ b \notin Requests /\ b # Poller
      /\ ring' = ring /\ cached' = cached /\ lock' = lock /\ wanted' = wanted
      /\ {"off", "handle", "ask", "enter", "clear", "raced", "reclaim"} \subseteq RunnerPcs
      /\ \A p \in {"off", "handle", "ask", "enter", "clear", "raced", "reclaim"} :
            p \in Pcs /\ p \notin {"queued", "fetch", "got"}
  BY TasksApart, Zenon DEF CacheInv, RunnerStep, HandleTrigger, AskForWanted, NewestTrigger,
       ClearRunning, RacedTrigger, Reclaim, RunnerPcs, Pcs, Refreshing, atomics
<1>1. task[b] \in TaskType /\ Fits(b, task[b])
  BY <1>0, Zenon DEF ShapeInv
<1>2. PICK x \in TaskType : x = task[b]
  BY <1>1, Zenon
<1>3. /\ cached' \in cached..ring /\ 0 <= ring /\ 0 <= cached /\ wanted \in Nat /\ wanted <= ring
      /\ wanted' \in 0..ring /\ asked \in 0..wanted' /\ running \in BOOLEAN
      /\ x.epoch <= cached /\ x.min <= ring /\ x.got <= ring /\ x.via = "min"
  BY <1>0, <1>1, <1>2 DEF ShapeInv, Fits
<1>4. CASE HandleTrigger(b)
  <2>1. PICK n : n = [x EXCEPT !.pc = "ask", !.moved = FALSE]
    BY Zenon
  <2>2. /\ task' = [task EXCEPT ![b] = n] /\ task[b].pc = "handle"
        /\ UNCHANGED <<ring, cached, lock, atomics>>
    BY <1>2, <1>4, <2>1, Zenon DEF HandleTrigger
  <2>3. /\ n \in TaskType /\ n.pc = "ask" /\ n.epoch = x.epoch /\ n.via = x.via /\ n.min = x.min
        /\ n.got = x.got
    BY <1>0, <2>1, Zenon DEF TaskType
  <2>4. Fits(b, n)
    BY <1>0, <1>3, <2>3, Zenon DEF Fits
  <2> QED
    BY <1>0, <2>2, <2>3, <2>4, Aside, Zenon
<1>5. CASE NewestTrigger(b)
  <2>1. PICK pc \in {"handle", "clear"} : Go(b, pc) /\ pc = IF task[b].moved THEN "handle" ELSE "clear"
    BY <1>5, Zenon DEF NewestTrigger
  <2>2. PICK n : n = Kept(b, pc) /\ task' = [task EXCEPT ![b] = n]
    BY <2>1, Zenon DEF Go
  <2>3. /\ n \in TaskType /\ n.pc = pc /\ n.epoch \in {0, task[b].epoch} /\ n.min \in {0, task[b].min}
        /\ n.got = 0 /\ n.via \in {"min", task[b].via}
        /\ pc = "clear" => n.moved = task[b].moved
    BY <1>0, <1>1, <2>1, <2>2, KeptShape, ZenonT(30)
  <2>4. Fits(b, n)
    BY <1>0, <1>2, <1>3, <2>1, <2>3, Zenon DEF Fits
  <2>5. UNCHANGED <<ring, cached, lock, atomics>> /\ task[b].pc = "newest"
    BY <1>5, Zenon DEF NewestTrigger
  <2> QED
    BY <1>0, <2>1, <2>2, <2>3, <2>4, <2>5, Aside, Zenon
<1>6. ASSUME NEW n \in TaskType, task' = [task EXCEPT ![b] = n], Fits(b, n),
             task[b].pc \notin {"queued", "fetch", "got"}, n.pc \notin {"queued", "fetch", "got"},
             asked' \in 0..wanted, running' \in BOOLEAN, FlagInv', TriggerInv', NoTriggerIsLost'
      PROVE  CacheInv'
  <2>1. Moves(b, n)
    BY <1>0, <1>6, SetMoves, Zenon
  <2>2. ShapeInv'
    <3>1. Fits(b, n)'
      BY <1>0, <1>6, Zenon DEF Fits
    <3>2. asked' \in 0..wanted'
      BY <1>0, <1>6, Zenon
    <3> QED
      BY <1>0, <1>3, <1>6, <2>1, <3>1, <3>2, ShapeMoves, Zenon
  <2>3. LockInv'
    BY <1>0, <1>6, <2>1, LockMoves, Zenon
  <2>4. RefusedInv'
    BY <1>0, <1>3, <2>1, RefusedMoves, Zenon
  <2> QED
    BY <1>6, <2>2, <2>3, <2>4, Zenon DEF CacheInv
<1>7. CASE AskForWanted(b)
  <2>1. PICK n : n = [x EXCEPT !.pc = "enter", !.min = wanted]
    BY Zenon
  <2>2. task' = [task EXCEPT ![b] = n] /\ task[b].pc = "ask" /\ running' = running
    BY <1>2, <1>7, <2>1, Zenon DEF AskForWanted
  <2>3. /\ n \in TaskType /\ n.pc = "enter" /\ n.epoch = x.epoch /\ n.via = x.via /\ n.min = wanted
        /\ n.got = x.got
    BY <1>0, <1>3, <2>1, Zenon DEF TaskType
  <2>4. Fits(b, n)
    BY <1>0, <1>3, <2>3, Zenon DEF Fits
  <2>5. asked' = wanted /\ asked' \in 0..wanted
    BY <1>0, <1>3, <1>7 DEF AskForWanted
  <2>6. FlagInv'
    <3>1. Moves(b, n)
      BY <1>0, <2>2, <2>3, SetMoves, Zenon
    <3> QED
      BY <1>0, <2>2, <2>3, <3>1, FlagMoves, Zenon DEF Working
  <2>7. TriggerInv' /\ NoTriggerIsLost'
    BY <1>0, <2>5, Zenon DEF TriggerInv, NoTriggerIsLost
  <2> QED
    BY <1>0, <1>3, <1>6, <2>2, <2>3, <2>4, <2>5, <2>6, <2>7, Zenon
<1>8. ASSUME NEW pc \in {"off", "handle", "raced", "reclaim"}, Go(b, pc), asked' = asked,
             task[b].pc \in {"clear", "raced", "reclaim"}, running' \in BOOLEAN, 
             running' => (running \/ pc = "handle"),
             running => (running' \/ task[b].pc = "clear"),
             pc = "handle" => running' /\ ~running,
             task[b].pc = "clear" => pc = "raced" /\ ~running',
             pc = "off" => ~task[b].moved \/ (running /\ task[b].pc = "reclaim")
      PROVE  CacheInv'
  <2>1. PICK n : n = Kept(b, pc) /\ task' = [task EXCEPT ![b] = n]
    BY <1>8, Zenon DEF Go
  <2>2. /\ n \in TaskType /\ n.pc = pc /\ n.epoch \in {0, task[b].epoch} /\ n.min \in {0, task[b].min}
        /\ n.got = 0 /\ n.via \in {"min", task[b].via}
        /\ pc \in {"raced", "reclaim"} => n.moved = task[b].moved
    <3>1. pc \in Pcs /\ (pc \in {"raced", "reclaim"} => pc \in {"newest", "clear", "raced", "reclaim"})
      BY <1>0, <1>8, Zenon
    <3> QED
      BY <1>0, <1>1, <2>1, <3>1, KeptShape, ZenonT(30)
  <2>3. Fits(b, n)
    BY <1>0, <1>2, <1>3, <2>2, Zenon DEF Fits
  <2>4. task'[b] = n /\ \A t \in Tasks : t # b => task'[t] = task[t]
    BY <1>0, <2>1, Zenon DEF ShapeInv
  <2>5. FlagInv'
    <3>1. \A t \in Runners : t # b => (Working(t)' <=> Working(t))
      BY <2>4, TasksApart, Zenon DEF Working
    <3>2. Working(b)' <=> pc = "handle"
      BY <1>8, <2>2, <2>4, Zenon DEF Working
    <3>3. Working(b) <=> task[b].pc = "clear"
      BY <1>8, Zenon DEF Working
    <3> QED
      BY <1>0, <1>8, <3>1, <3>2, <3>3, Zenon DEF FlagInv
  <2>6. \A t \in Requests : task'[t] = task[t]
    BY <1>0, <2>4, TasksApart, Zenon
  <2>7. CASE asked = wanted \/ \E r \in Requests : task[r].pc = "bump"
    <3>1. TriggerInv' /\ NoTriggerIsLost'
      BY <1>0, <1>8, <2>6, <2>7, Zenon DEF TriggerInv, NoTriggerIsLost
    <3> QED
      BY <1>0, <1>3, <1>6, <1>8, <2>1, <2>2, <2>3, <2>5, <3>1, Zenon
  <2>8. CASE ~(asked = wanted \/ \E r \in Requests : task[r].pc = "bump")
    <3>1. \A t \in Runners : task[t].pc \in {"off", "handle", "ask"} \/ task[t].moved
      BY <1>0, <2>8, Zenon DEF TriggerInv
    <3>2. task[b].moved
      BY <1>8, <3>1, Zenon
    <3>3. TriggerInv'
      BY <1>8, <2>2, <2>4, <3>1, <3>2, TasksApart, Zenon DEF TriggerInv
    <3>4. NoTriggerIsLost'
      <4>1. CASE pc # "off"
        BY <2>2, <2>4, <4>1, Zenon DEF NoTriggerIsLost
      <4>2. CASE pc = "off"
        <5>1. PICK t \in Runners : Working(t)
          BY <1>0, <1>8, <3>2, <4>2, Zenon DEF FlagInv
        <5>2. t # b /\ task'[t].pc # "off"
          BY <1>8, <2>4, <4>2, <3>2, <5>1, TasksApart, Zenon DEF Working
        <5> QED
          BY <5>2, Zenon DEF NoTriggerIsLost
      <4> QED
        BY <4>1, <4>2, Zenon
    <3> QED
      BY <1>0, <1>3, <1>6, <1>8, <2>1, <2>2, <2>3, <2>5, <3>3, <3>4, Zenon
  <2> QED
    BY <2>7, <2>8, Zenon
<1>9. CASE ClearRunning(b)
  <2>1. /\ task[b].pc = "clear" /\ Go(b, "raced") /\ asked' = asked /\ ~running'
        /\ running' \in BOOLEAN
    BY <1>9, Zenon DEF ClearRunning
  <2> QED
    BY <1>8, <2>1, Zenon
<1>10. CASE RacedTrigger(b)
  <2>1. PICK pc \in {"reclaim", "off"} : pc = (IF task[b].moved THEN "reclaim" ELSE "off") /\ Go(b, pc)
    BY <1>10, Zenon DEF RacedTrigger
  <2>2. task[b].pc = "raced" /\ asked' = asked /\ running' = running
    BY <1>10, Zenon DEF RacedTrigger, atomics
  <2>3. pc = "off" => ~task[b].moved
    BY <2>1, Zenon
  <2>4. pc # "handle"
    BY <2>1, Zenon
  <2> QED
    BY <1>3, <1>8, <2>1, <2>2, <2>3, <2>4, Zenon
<1>11. CASE Reclaim(b)
  <2>1. PICK pc \in {"handle", "off"} : pc = (IF running THEN "off" ELSE "handle") /\ Go(b, pc)
    BY <1>11, Zenon DEF Reclaim
  <2>2. task[b].pc = "reclaim" /\ asked' = asked /\ running' = TRUE
    BY <1>11, Zenon DEF Reclaim
  <2>3. (pc = "off" <=> running) /\ (pc = "handle" <=> ~running)
    BY <2>1, Zenon
  <2> QED
    BY <1>8, <2>1, <2>2, <2>3, Zenon
<1> QED
  BY <1>4, <1>5, <1>7, <1>9, <1>10, <1>11, Zenon DEF RunnerStep

LEMMA StepPoller ==
    ASSUME CacheInv, PollEpoch \/ PollCompare
    PROVE  CacheInv'
<1>0. /\ Poller \in Tasks /\ Poller \notin Requests /\ Poller \notin Runners
      /\ ShapeInv /\ task[Poller] \in TaskType /\ Fits(Poller, task[Poller])
      /\ UNCHANGED <<ring, cached, lock, atomics>>
      /\ task[Poller].pc \in {"sleep", "polled"}
      /\ {"sleep", "polled", "enter"} \subseteq PollerPcs
  BY TasksApart, Zenon DEF CacheInv, ShapeInv, PollEpoch, PollCompare, PollerPcs, Refreshing
<1>1. /\ ring \in Nat /\ ring <= ring /\ 0 <= ring /\ 0 <= cached
      /\ task[Poller].epoch <= cached /\ task[Poller].min <= ring /\ task[Poller].got <= ring
  BY <1>0 DEF ShapeInv, Fits
<1>2. PICK x \in TaskType : x = task[Poller]
  BY <1>0, Zenon
<1>3. CASE PollEpoch
  <2>1. PICK n : n = [x EXCEPT !.pc = "polled", !.min = ring]
    BY Zenon
  <2>2. task' = [task EXCEPT ![Poller] = n]
    BY <1>2, <1>3, <2>1, Zenon DEF PollEpoch
  <2>3. n \in TaskType /\ n.pc = "polled" /\ n.epoch = x.epoch /\ n.min = ring /\ n.got = x.got
    BY <1>0, <1>1, <2>1, PcShape, Zenon DEF TaskType
  <2>4. Fits(Poller, n)
    BY <1>0, <1>1, <1>2, <2>3, Zenon DEF Fits
  <2> QED
    BY <1>0, <2>2, <2>3, <2>4, Aside, Zenon
<1>4. CASE PollCompare
  <2>1. PICK pc \in {"enter", "sleep"} : Go(Poller, pc)
    BY <1>4, Zenon DEF PollCompare
  <2>2. pc \in Pcs /\ pc \in PollerPcs
    BY <1>0, <2>1, PcShape, Zenon
  <2>3. PICK n : n = Kept(Poller, pc) /\ task' = [task EXCEPT ![Poller] = n]
    BY <2>1, Zenon DEF Go
  <2>4. /\ n \in TaskType /\ n.pc = pc /\ n.epoch \in {0, task[Poller].epoch}
        /\ n.min \in {0, task[Poller].min} /\ n.got = 0
    BY <1>0, <2>2, <2>3, KeptShape, Zenon
  <2>5. Fits(Poller, n)
    BY <1>0, <1>1, <2>2, <2>4, Zenon DEF Fits
  <2> QED
    BY <1>0, <2>1, <2>3, <2>4, <2>5, Aside, Zenon
<1> QED
  BY <1>3, <1>4, Zenon

LEMMA StepCommit ==
    ASSUME CacheInv, Commit
    PROVE  CacheInv'
<1>0. /\ ShapeInv /\ LockInv /\ RefusedInv /\ FlagInv /\ TriggerInv /\ NoTriggerIsLost
      /\ cached' = cached /\ lock' = lock /\ task' = task /\ running' = running
      /\ wanted' = wanted /\ asked' = asked
  BY Zenon DEF CacheInv, Commit, atomics
<1>1. ring' \in Nat /\ cached' \in 1..ring' /\ wanted' \in 0..ring' /\ asked' \in 0..wanted'
  BY <1>0 DEF Commit, ShapeInv
<1>2. ASSUME NEW t \in Tasks PROVE Fits(t, task[t])'
  <2>1. task[t].min \in Nat /\ task[t].got \in Nat /\ Fits(t, task[t])
    BY <1>0 DEF ShapeInv, TaskType
  <2>2. task'[t].min <= ring' /\ task'[t].got <= ring' /\ task'[t].epoch <= cached'
    BY <1>0, <2>1 DEF Fits, Commit, ShapeInv
  <2> QED
    BY <1>0, <2>1, <2>2, Zenon DEF Fits
<1>3. ShapeInv'
  BY <1>0, <1>1, <1>2, Zenon DEF ShapeInv
<1>4. LockInv'
  BY <1>0, Zenon DEF LockInv, HoldsLock, InLine
<1>5. RefusedInv'
  BY <1>0, Zenon DEF RefusedInv, Behind
<1>6. FlagInv' /\ TriggerInv' /\ NoTriggerIsLost'
  BY <1>0, Zenon DEF FlagInv, TriggerInv, NoTriggerIsLost, Working
<1> QED
  BY <1>3, <1>4, <1>5, <1>6, Zenon DEF CacheInv

LEMMA StepSame ==
    ASSUME CacheInv, UNCHANGED <<ring, cached, lock, atomics, task>>
    PROVE  CacheInv'
<1>0. /\ ring' = ring /\ cached' = cached /\ lock' = lock /\ task' = task /\ running' = running
      /\ wanted' = wanted /\ asked' = asked
  BY Zenon DEF atomics
<1>1. ShapeInv'
  BY <1>0, Zenon DEF CacheInv, ShapeInv, Fits
<1>2. LockInv'
  BY <1>0, ZenonT(30) DEF CacheInv, LockInv, HoldsLock, InLine
<1>3. RefusedInv'
  BY <1>0, Zenon DEF CacheInv, RefusedInv, Behind
<1>4. FlagInv' /\ TriggerInv' /\ NoTriggerIsLost'
  BY <1>0, Zenon DEF CacheInv, FlagInv, TriggerInv, NoTriggerIsLost, Working
<1> QED
  BY <1>1, <1>2, <1>3, <1>4, Zenon DEF CacheInv

LEMMA CacheInit == Init => CacheInv
<1> SUFFICES ASSUME Init PROVE CacheInv
  OBVIOUS
<1>1. \A p \in {"route", "off", "sleep"} : p \in Pcs /\ p \notin Refreshing
                                            /\ p \notin {"queued", "fetch", "got", "sent"}
  BY Zenon DEF Pcs, RequestPcs, RunnerPcs, PollerPcs, Refreshing
<1>2. /\ \A t \in Requests : task[t] = Task("route")
      /\ \A t \in Runners : task[t] = Task("off")
      /\ task[Poller] = Task("sleep")
  BY TasksApart, Zenon DEF Init
<1>3. /\ ring = 1 /\ cached = 1 /\ wanted = 0 /\ asked = 0 /\ running = FALSE /\ lock = <<>>
  BY Zenon DEF Init
<1>4. \A t \in Tasks : \E p \in {"route", "off", "sleep"} : task[t] = Task(p)
  BY <1>2, Zenon DEF Tasks
<1>5. \A t \in Tasks : /\ task[t] \in TaskType /\ task[t].epoch = 0 /\ task[t].min = 0 /\ task[t].got = 0
                       /\ task[t].pc \in {"route", "off", "sleep"}
                       /\ task[t].via = "min" /\ task[t].refused = 0
  <2> TAKE t \in Tasks
  <2>1. PICK p \in {"route", "off", "sleep"} : task[t] = Task(p)
    BY <1>4, Zenon
  <2>2. p \in Pcs
    BY <1>1, <2>1, Zenon
  <2> QED
    BY <2>1, <2>2, TaskShape, Zenon
<1>6. task \in [Tasks -> TaskType]
  BY <1>5, Zenon DEF Init
<1>7. /\ \A t \in Requests : task[t].pc = "route"
      /\ \A t \in Runners : task[t].pc = "off"
      /\ task[Poller].pc = "sleep"
  BY <1>1, <1>2, TaskShape, Zenon
<1>8. ShapeInv
  <2>1. \A t \in Tasks : task[t].epoch <= cached /\ task[t].min <= ring /\ task[t].got <= ring
    BY <1>3, <1>5
  <2>2. "route" \in RequestPcs /\ "off" \in RunnerPcs /\ "sleep" \in PollerPcs
    BY Zenon DEF RequestPcs, RunnerPcs, PollerPcs
  <2>3. \A t \in Tasks : Fits(t, task[t])
    BY <1>5, <1>7, <2>1, <2>2, Zenon DEF Fits
  <2>4. ring \in Nat /\ cached \in 1..ring /\ wanted \in 0..ring /\ asked \in 0..wanted /\ running \in BOOLEAN
    <3>1. running \in BOOLEAN
      BY <1>3, Zenon
    <3> QED
      BY <1>3, <3>1
  <2> QED
    BY <1>6, <2>3, <2>4, Zenon DEF ShapeInv
<1>9. LockInv
  BY <1>3, <1>5 DEF LockInv, InLine
<1>10. RefusedInv
  <2>0. \A t \in Requests : task[t].refused = 0
    BY <1>5, TasksApart, Zenon
  <2>1. 0 < cached
    BY <1>3
  <2>2. \A t \in Requests : task[t].refused < cached
    BY <2>0, <2>1, Zenon
  <2> QED
    BY <1>1, <1>7, <2>2, Zenon DEF RefusedInv, Behind
<1>11. FlagInv /\ TriggerInv /\ NoTriggerIsLost
  BY <1>3, <1>7, Zenon DEF FlagInv, TriggerInv, NoTriggerIsLost, Working
<1> QED
  BY <1>8, <1>9, <1>10, <1>11, Zenon DEF CacheInv

LEMMA CacheStep == CacheInv /\ [Next]_vars => CacheInv'
<1> SUFFICES ASSUME CacheInv, [Next]_vars PROVE CacheInv'
  OBVIOUS
<1>1. ASSUME NEW t \in Tasks, RefreshStep(t) \/ RefreshFails(t) PROVE CacheInv'
  BY <1>1, StepEnter, StepLocked, StepFetch, StepInstall, StepFails, Zenon DEF RefreshStep
<1>2. ASSUME NEW r \in Requests,
             \/ Route(r) \/ Answer(r) \/ Moved(r) \/ RetryCode(r) \/ LeaseExpired(r)
             \/ Unavailable(r) \/ RaiseWanted(r) \/ BumpTrigger(r) \/ Spawn(r)
      PROVE  CacheInv'
  BY <1>2, StepRequest, StepRaise, StepBump, StepSpawn, Zenon
<1>3. CASE PollFails
  BY <1>3, StepSame, Zenon DEF PollFails
<1>4. CASE UNCHANGED vars
  BY <1>4, StepSame, Zenon DEF vars, atomics
<1> QED
  BY <1>1, <1>2, <1>3, <1>4, StepRunner, StepPoller, StepCommit, Zenon DEF Next

LEMMA CacheInvariant == Spec => []CacheInv
BY CacheInit, CacheStep, PTL DEF Spec

(* A trigger is never lost between the flag, the counter and the epoch that
   trigger_background_refresh and run_background_refresh read and write one by one. *)
THEOREM TriggersAreKept == Spec => []NoTriggerIsLost
<1>1. CacheInv => NoTriggerIsLost
  BY Zenon DEF CacheInv
<1> QED
  BY CacheInvariant, <1>1, PTL

(* At most one task runs run_background_refresh's loop at a time. *)
THEOREM RefreshesAreSingle == Spec => []OneBackgroundRefresh
<1>1. CacheInv => OneBackgroundRefresh
  BY Zenon DEF CacheInv, ShapeInv, LockInv, FlagInv, Working, OneBackgroundRefresh, TypeOK
<1> QED
  BY CacheInvariant, <1>1, PTL

(* After Moved, handle_retryable never routes the operation by a topology that is as
   old as the one refused. *)
THEOREM RetriesMoveOn == Spec => []RetryUsesNewerTopology
<1>1. ASSUME CacheInv PROVE RetryUsesNewerTopology
  <2>1. ASSUME NEW r \in Requests, task[r].pc = "sent" PROVE task[r].epoch > task[r].refused
    <3>1. Behind(task[r]) /\ task[r] \in TaskType
      BY <1>1, TasksApart, Zenon DEF CacheInv, RefusedInv, ShapeInv
    <3>2. task[r].refused < task[r].epoch
      BY <2>1, <3>1, Zenon DEF Behind
    <3> QED
      BY <3>1, <3>2 DEF TaskType
  <2> QED
    BY <2>1, Zenon DEF RetryUsesNewerTopology
<1> QED
  BY CacheInvariant, <1>1, PTL
=============================================================================

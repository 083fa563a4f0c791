-------------------------- MODULE ReplicationProofs --------------------------
(***************************************************************************)
(* ReplicationInv is inductive for any followers, policies, keys,          *)
(* mutations, attempts and limits.                                         *)
(***************************************************************************)
EXTENDS Replication, TLAPS

(* A call belongs to a mutation, and a mutation to a key. *)
LEMMA CallOf ==
    /\ \A c \in Calls : c[1] \in Mutations
    /\ \A m \in Mutations : KeyOf[m] \in Keys
<1>1. ASSUME NEW c \in Calls PROVE c[1] \in Mutations
  <2>1. PICK m \in Mutations : c \in {m} \X (1..Attempts[m])
    BY DEF Calls
  <2> QED
    BY <2>1
<1> QED
  BY <1>1, ReplicationAssumption

(* A policy names followers. *)
LEMMA RequiredFollow == OwnerInv => required \subseteq Followers
BY ReplicationAssumption, Zenon DEF OwnerInv

-----------------------------------------------------------------------------
(* Each part of the invariant is about its own variables.                  *)

LEMMA OwnerSame ==
    ASSUME OwnerInv, UNCHANGED <<required, store, next, rver, log>>
    PROVE  OwnerInv'
<1>0. required' = required /\ store' = store /\ next' = next /\ rver' = rver /\ log' = log
  OBVIOUS
<1>1. /\ required' \in Policies /\ next' \in Nat /\ 1 <= next'
      /\ store' \in [Keys -> Nat] /\ \A k \in Keys : 1 <= store'[k] /\ store'[k] <= next'
      /\ rver' \in [Mutations -> Nat]
      /\ log' \in [Followers -> Seq(Entries)]
      /\ \A f \in Followers : Len(log'[f]) = next' - 1
  BY <1>0, Zenon DEF OwnerInv
<1>2. \A f \in Followers : \A i \in 1..(next' - 1) :
          log'[f][i].v = i + 1 /\ rver'[log'[f][i].m] = i + 1
  BY <1>0 DEF OwnerInv
<1>3. \A m \in Mutations :
          rver'[m] # 0 => /\ 2 <= rver'[m] /\ rver'[m] <= next'
                          /\ rver'[m] <= store'[KeyOf[m]]
                          /\ \A f \in Followers : log'[f][rver'[m] - 1].m = m
  BY <1>0, Zenon DEF OwnerInv
<1> QED
  BY <1>1, <1>2, <1>3, Zenon DEF OwnerInv

LEMMA StreamSame ==
    ASSUME StreamInv, UNCHANGED <<next, head, ack, failed, sent, wire, applied>>
    PROVE  StreamInv'
<1>0. /\ next' = next /\ head' = head /\ ack' = ack /\ failed' = failed /\ sent' = sent
      /\ wire' = wire /\ applied' = applied
  OBVIOUS
<1> QED
  BY <1>0, Zenon DEF StreamInv

LEMMA CopySame ==
    ASSUME CopyInv,
           UNCHANGED <<next, store, rver, repair, paused, frec, fdedup, admissions, applied>>
    PROVE  CopyInv'
<1>0. /\ next' = next /\ store' = store /\ rver' = rver /\ repair' = repair /\ paused' = paused
      /\ frec' = frec /\ fdedup' = fdedup /\ admissions' = admissions /\ applied' = applied
  OBVIOUS
<1> QED
  BY <1>0, Zenon DEF CopyInv, Complete

LEMMA AdmissionSame ==
    ASSUME AdmissionInv, UNCHANGED <<required, admissions, admitted, leased>>,
           faults' \in 0..MaxFaults
    PROVE  AdmissionInv'
<1>0. required' = required /\ admissions' = admissions /\ admitted' = admitted /\ leased' = leased
  OBVIOUS
<1> QED
  BY <1>0, Zenon DEF AdmissionInv

LEMMA CallSame ==
    ASSUME CallInv, UNCHANGED <<required, rver, need, call, succeeded, admissions, applied>>
    PROVE  CallInv'
<1>0. /\ required' = required /\ rver' = rver /\ need' = need /\ call' = call
      /\ succeeded' = succeeded /\ admissions' = admissions /\ applied' = applied
  OBVIOUS
<1> QED
  BY <1>0 DEF CallInv

LEMMA FollowerSame ==
    ASSUME FollowerInv, UNCHANGED <<next, fstate, ckpt, fps, lastOwner>>
    PROVE  FollowerInv'
<1>0. next' = next /\ fstate' = fstate /\ ckpt' = ckpt /\ fps' = fps /\ lastOwner' = lastOwner
  OBVIOUS
<1> QED
  BY <1>0, Zenon DEF FollowerInv

(* Faults are counted up to their bound. *)
LEMMA FaultsBounded ==
    ASSUME AdmissionInv, faults' = faults \/ (faults < MaxFaults /\ faults' = faults + 1)
    PROVE  faults' \in 0..MaxFaults
BY ReplicationAssumption DEF AdmissionInv

-----------------------------------------------------------------------------
(* The lease, the calls and the state of a follower. *)

LEMMA StepLease ==
    ASSUME ReplicationInv, (\E A \in SUBSET required : RenewLease(A)) \/ LoseLease
    PROVE  ReplicationInv'
<1>0. /\ UNCHANGED <<ownerData, streams, paused, clients, followers, repair, admissions>>
      /\ leased' \in BOOLEAN
      /\ faults' = faults \/ (faults < MaxFaults /\ faults' = faults + 1)
      /\ admitted' = admitted \/ admitted' \subseteq admissions \cap required
  BY Zenon DEF RenewLease, LoseLease
<1>1. /\ UNCHANGED <<required, store, next, rver, need, log>> /\ UNCHANGED <<head, failed, ack, sent, wire>>
      /\ UNCHANGED <<fstate, frec, fdedup, applied, ckpt, lastOwner, fps>>
      /\ UNCHANGED <<call, succeeded>> /\ UNCHANGED <<paused, repair, admissions>>
  BY <1>0, Zenon DEF ownerData, streams, followers, clients
<1>2. faults' \in 0..MaxFaults
  BY <1>0, FaultsBounded, Zenon DEF ReplicationInv
<1>3. AdmissionInv'
  BY <1>0, <1>1, <1>2, Zenon DEF ReplicationInv, AdmissionInv
<1> QED
  BY <1>1, <1>3, OwnerSame, StreamSame, CopySame, CallSame, FollowerSame DEF ReplicationInv

LEMMA StepCall ==
    ASSUME ReplicationInv, NEW c \in Calls, CheckReady(c) \/ ReceiptHit(c) \/ GiveUp(c)
    PROVE  ReplicationInv'
<1>0. /\ UNCHANGED <<ownerData, streams, lease, paused, succeeded, followers, repair, admissions, faults>>
      /\ \E s \in {"idle", "ready", "wait"} :
            call' = [call EXCEPT ![c] = s] /\ (s = "wait" => rver[c[1]] # 0)
  BY Zenon DEF CheckReady, ReceiptHit, GiveUp
<1>1. /\ UNCHANGED <<required, store, next, rver, need, log>> /\ UNCHANGED <<head, failed, ack, sent, wire>>
      /\ UNCHANGED <<fstate, frec, fdedup, applied, ckpt, lastOwner, fps>>
      /\ UNCHANGED <<admitted, leased>> /\ UNCHANGED <<paused, repair, admissions, faults, succeeded>>
  BY <1>0, Zenon DEF ownerData, streams, followers, lease
<1>2. faults' \in 0..MaxFaults
  BY <1>1, FaultsBounded, Zenon DEF ReplicationInv
<1>3. CallInv'
  <2>0. /\ required' = required /\ rver' = rver /\ need' = need /\ succeeded' = succeeded
        /\ admissions' = admissions /\ applied' = applied
    BY <1>1
  <2>1. PICK s \in {"idle", "ready", "wait"} :
            call' = [call EXCEPT ![c] = s] /\ (s = "wait" => rver[c[1]] # 0)
    BY <1>0, Zenon
  <2>2. call' \in [Calls -> {"idle", "ready", "wait"}]
        /\ \A d \in Calls : call'[d] = "wait" => rver[d[1]] # 0
    BY <2>1, Zenon DEF ReplicationInv, CallInv
  <2> QED
    BY <2>0, <2>2, Zenon DEF ReplicationInv, CallInv
<1> QED
  BY <1>1, <1>2, <1>3, OwnerSame, StreamSame, CopySame, AdmissionSame, FollowerSame DEF ReplicationInv

LEMMA StepState ==
    ASSUME ReplicationInv, NEW f \in Followers, Install(f) \/ Crash(f)
    PROVE  ReplicationInv'
<1>0. /\ UNCHANGED <<ownerData, streams, lease, paused, clients, frec, fdedup, applied,
                     ckpt, lastOwner, fps, repair, admissions, faults>>
      /\ \E s \in {"up", "dead"} : fstate' = [fstate EXCEPT ![f] = s]
  BY Zenon DEF Install, Crash
<1>1. /\ UNCHANGED <<required, store, next, rver, need, log>> /\ UNCHANGED <<head, failed, ack, sent, wire>>
      /\ UNCHANGED <<frec, fdedup, applied, ckpt, lastOwner, fps>> /\ UNCHANGED <<call, succeeded>>
      /\ UNCHANGED <<admitted, leased>> /\ UNCHANGED <<paused, repair, admissions, faults>>
  BY <1>0, Zenon DEF ownerData, streams, clients, lease
<1>2. faults' \in 0..MaxFaults
  BY <1>1, FaultsBounded, Zenon DEF ReplicationInv
<1>3. fstate' \in [Followers -> {"old", "up", "dead"}]
  BY <1>0, Zenon DEF ReplicationInv, FollowerInv
<1>4. FollowerInv'
  BY <1>1, <1>3, Zenon DEF ReplicationInv, FollowerInv
<1> QED
  BY <1>1, <1>2, <1>4, OwnerSame, StreamSame, CopySame, AdmissionSame, CallSame DEF ReplicationInv

-----------------------------------------------------------------------------
(* The worker of a stream.                                                 *)

(* An answer is a record with its tag and sequence. *)
LEMMA AnswerShape ==
    /\ \A t \in {"idle", "sent", "ok", "terminal"} : \A n \in Nat :
          LET a == [tag |-> t, seq |-> n] IN a \in Answers /\ a.tag = t /\ a.seq = n
    /\ \A a \in Answers : a.seq \in Nat
    /\ Idle \in Answers /\ Idle.tag # "ok" /\ Idle.tag # "terminal" /\ Idle.tag # "sent"
BY DEF Idle, Answers

(* What an update of a function leaves. *)
LEMMA SetOne ==
    ASSUME NEW S, NEW T, NEW g \in [S -> T], NEW x \in S, NEW v \in T
    PROVE  /\ [g EXCEPT ![x] = v] \in [S -> T] /\ [g EXCEPT ![x] = v][x] = v
           /\ \A y \in S : y # x => [g EXCEPT ![x] = v][y] = g[y]
BY Zenon

(* One stream moves, the others stay. *)
LEMMA StreamMoves ==
    ASSUME StreamInv, NEW f \in Followers, next' = next, failed' \subseteq Followers,
           head' \in [Followers -> Nat], ack' \in [Followers -> Nat], applied' \in [Followers -> Nat],
           sent' \in [Followers -> BOOLEAN],
           wire' \in [Followers -> Answers],
           \A g \in Followers : g # f =>
              /\ head'[g] = head[g] /\ ack'[g] = ack[g] /\ applied'[g] = applied[g]
              /\ sent'[g] = sent[g] /\ wire'[g] = wire[g],
           applied'[f] < next, ack'[f] <= applied'[f], head'[f] < next,
           sent'[f] => head'[f] + 1 < next, wire'[f] # Idle => sent'[f],
           wire'[f].tag = "ok" => wire'[f].seq <= applied'[f]
    PROVE  StreamInv'
<1>1. ASSUME NEW g \in Followers
      PROVE  /\ applied'[g] < next' /\ ack'[g] <= applied'[g] /\ head'[g] < next'
             /\ sent'[g] => head'[g] + 1 < next'
             /\ wire'[g] # Idle => sent'[g]
             /\ wire'[g].tag = "ok" => wire'[g].seq <= applied'[g]
  <2>1. CASE g = f
    BY <2>1, Zenon
  <2>2. CASE g # f
    <3>1. /\ head'[g] = head[g] /\ ack'[g] = ack[g] /\ applied'[g] = applied[g]
          /\ sent'[g] = sent[g] /\ wire'[g] = wire[g]
      BY <2>2, Zenon
    <3>2. /\ applied[g] < next /\ ack[g] <= applied[g] /\ head[g] < next
          /\ sent[g] => head[g] + 1 < next
          /\ wire[g] # Idle => sent[g]
          /\ wire[g].tag = "ok" => wire[g].seq <= applied[g]
      BY Zenon DEF StreamInv
    <3> QED
      BY <3>1, <3>2, Zenon
  <2> QED
    BY <2>1, <2>2, Zenon
<1> QED
  BY <1>1, Zenon DEF StreamInv

LEMMA StepWorker ==
    ASSUME ReplicationInv, NEW f \in Followers,
           Send(f) \/ Timeout(f) \/ Acknowledge(f) \/ EndStream(f)
    PROVE  ReplicationInv'
<1>0. /\ UNCHANGED <<ownerData, lease, paused, clients, followers, repair, admissions>>
      /\ faults' = faults \/ (faults < MaxFaults /\ faults' = faults + 1)
  BY Zenon DEF Send, Timeout, Acknowledge, EndStream
<1>1. /\ UNCHANGED <<required, store, next, rver, need, log>>
      /\ UNCHANGED <<fstate, frec, fdedup, applied, ckpt, lastOwner, fps>> /\ UNCHANGED <<call, succeeded>>
      /\ UNCHANGED <<admitted, leased>> /\ UNCHANGED <<paused, repair, admissions>>
  BY <1>0, Zenon DEF ownerData, followers, clients, lease
<1>2. faults' \in 0..MaxFaults
  BY <1>0, FaultsBounded, Zenon DEF ReplicationInv
<1>3. StreamInv /\ OwnerInv /\ next' = next /\ applied' = applied /\ Len(log[f]) = next - 1 /\ next \in Nat
  BY <1>1, Zenon DEF ReplicationInv, OwnerInv
<1>4. ASSUME Send(f) PROVE StreamInv'
  <2>1. /\ head' = head /\ ack' = ack /\ failed' = failed
        /\ sent' = [sent EXCEPT ![f] = TRUE] /\ head[f] < Len(log[f])
        /\ wire' = [wire EXCEPT ![f] = [tag |-> "sent", seq |-> 0]]
    BY <1>4, Zenon DEF Send
  <2>2. PICK a : a = [tag |-> "sent", seq |-> 0] /\ wire' = [wire EXCEPT ![f] = a]
    BY <2>1, Zenon
  <2>3. a \in Answers /\ a.tag = "sent"
    BY <2>2 DEF Answers
  <2>4. head[f] + 1 < next
    BY <1>3, <2>1 DEF StreamInv
  <2>5. sent' \in [Followers -> BOOLEAN] /\ sent'[f] /\ \A g \in Followers : g # f => sent'[g] = sent[g]
    BY <1>3, <2>1, Zenon DEF StreamInv
  <2>6. /\ wire' \in [Followers -> Answers]
        /\ wire'[f] = a /\ \A g \in Followers : g # f => wire'[g] = wire[g]
    BY <1>3, <2>2, <2>3, Zenon DEF StreamInv
  <2>7. /\ head'[f] < next /\ ack'[f] <= applied'[f] /\ applied'[f] < next
        /\ head' \in [Followers -> Nat] /\ ack' \in [Followers -> Nat] /\ applied' \in [Followers -> Nat]
        /\ failed' \subseteq Followers /\ "sent" # "ok"
    BY <1>3, <2>1, Zenon DEF StreamInv
  <2>8. \A g \in Followers : g # f =>
           /\ head'[g] = head[g] /\ ack'[g] = ack[g] /\ applied'[g] = applied[g]
           /\ sent'[g] = sent[g] /\ wire'[g] = wire[g]
    BY <1>3, <2>1, <2>5, <2>6, Zenon
  <2>9. (sent'[f] => head'[f] + 1 < next) /\ (wire'[f].tag = "ok" => wire'[f].seq <= applied'[f])
    BY <2>1, <2>3, <2>4, <2>6, <2>7, Zenon
  <2> QED
    BY <1>3, <2>5, <2>6, <2>7, <2>8, <2>9, StreamMoves, Zenon
<1>5. ASSUME Timeout(f) \/ EndStream(f) PROVE StreamInv'
  <2>1. /\ head' = head /\ ack' = ack /\ sent' = sent
        /\ failed' = failed \/ failed' = failed \cup {f}
        /\ wire' = [wire EXCEPT ![f] = Idle]
    BY <1>5, Zenon DEF Timeout, EndStream
  <2>2. /\ wire' \in [Followers -> Answers]
        /\ wire'[f] = Idle /\ \A g \in Followers : g # f => wire'[g] = wire[g]
    BY <1>3, <2>1, AnswerShape, SetOne DEF StreamInv
  <2>3. failed' \subseteq Followers
    BY <1>3, <2>1, Zenon DEF StreamInv
  <2>4. /\ head'[f] < next /\ ack'[f] <= applied'[f] /\ applied'[f] < next
        /\ head' \in [Followers -> Nat] /\ ack' \in [Followers -> Nat] /\ applied' \in [Followers -> Nat]
        /\ sent' \in [Followers -> BOOLEAN] /\ (sent'[f] => head'[f] + 1 < next) /\ "idle" # "ok"
    BY <1>3, <2>1, Zenon DEF StreamInv
  <2>5. \A g \in Followers : g # f =>
           /\ head'[g] = head[g] /\ ack'[g] = ack[g] /\ applied'[g] = applied[g]
           /\ sent'[g] = sent[g] /\ wire'[g] = wire[g]
    BY <1>3, <2>1, <2>2, Zenon
  <2>6. wire'[f].tag # "ok"
    BY <2>2, AnswerShape, Zenon
  <2> QED
    BY <1>3, <2>2, <2>3, <2>4, <2>5, <2>6, StreamMoves, Zenon
<1>6. ASSUME Acknowledge(f) PROVE StreamInv'
  <2>1. /\ wire[f].tag = "ok" /\ failed' = failed
        /\ ack' = [ack EXCEPT ![f] = IF wire[f].seq > @ THEN wire[f].seq ELSE @]
        /\ head' = [head EXCEPT ![f] = @ + 1]
        /\ sent' = [sent EXCEPT ![f] = FALSE] /\ wire' = [wire EXCEPT ![f] = Idle]
    BY <1>6, Zenon DEF Acknowledge
  <2>2. wire[f] # Idle /\ wire[f].seq \in Nat
    BY <1>3, <2>1 DEF StreamInv, Idle, Answers
  <2>3. sent[f] /\ head[f] + 1 < next /\ head[f] \in Nat /\ ack[f] \in Nat
        /\ wire[f].seq <= applied[f] /\ ack[f] <= applied[f]
    BY <1>3, <2>1, <2>2, Zenon DEF StreamInv
  <2>4. PICK n : n = IF wire[f].seq > ack[f] THEN wire[f].seq ELSE ack[f]
    BY Zenon
  <2>5. n \in Nat /\ n <= applied[f]
    BY <2>2, <2>3, <2>4
  <2>6. PICK h : h = head[f] + 1
    BY Zenon
  <2>7. h \in Nat /\ h < next
    BY <2>3, <2>6
  <2>8. /\ ack' \in [Followers -> Nat] /\ ack'[f] = n /\ \A g \in Followers : g # f => ack'[g] = ack[g]
    BY <1>3, <2>1, <2>4, <2>5, Zenon DEF StreamInv
  <2>9. /\ head' \in [Followers -> Nat] /\ head'[f] = h /\ \A g \in Followers : g # f => head'[g] = head[g]
    BY <1>3, <2>1, <2>6, <2>7, Zenon DEF StreamInv
  <2>10. /\ sent' \in [Followers -> BOOLEAN] /\ ~sent'[f] /\ \A g \in Followers : g # f => sent'[g] = sent[g]
    BY <1>3, <2>1, Zenon DEF StreamInv
  <2>11. /\ wire' \in [Followers -> Answers]
         /\ wire'[f] = Idle /\ \A g \in Followers : g # f => wire'[g] = wire[g]
    BY <1>3, <2>1, AnswerShape, SetOne DEF StreamInv
  <2>12. applied' \in [Followers -> Nat] /\ failed' \subseteq Followers /\ applied'[f] < next /\ "idle" # "ok"
    BY <1>3, <2>1, Zenon DEF StreamInv
  <2>13. \A g \in Followers : g # f =>
           /\ head'[g] = head[g] /\ ack'[g] = ack[g] /\ applied'[g] = applied[g]
           /\ sent'[g] = sent[g] /\ wire'[g] = wire[g]
    BY <1>3, <2>8, <2>9, <2>10, <2>11, Zenon
  <2>14. wire'[f].tag # "ok" /\ head'[f] < next /\ ack'[f] <= applied'[f]
    BY <1>3, <2>5, <2>7, <2>8, <2>9, <2>11, AnswerShape, Zenon
  <2> QED
    BY <1>3, <2>8, <2>9, <2>10, <2>11, <2>12, <2>13, <2>14, StreamMoves, Zenon
<1>7. StreamInv'
  BY <1>4, <1>5, <1>6, Zenon
<1> QED
  BY <1>1, <1>2, <1>7, OwnerSame, CopySame, AdmissionSame, CallSame, FollowerSame DEF ReplicationInv

(* Only receipts answer a call, so a success has its acknowledgements. *)
LEMMA StepAck ==
    ASSUME ReplicationInv, NEW c \in Calls, AckWrite(c)
    PROVE  ReplicationInv'
<1> DEFINE m == c[1]
<1>0. /\ m \in Mutations /\ call[c] = "wait" /\ rver[m] # 0 /\ rver[m] \in Nat
      /\ \A r \in need[m] : r[1] \in admitted /\ ack[r[1]] >= r[2]
      /\ succeeded' = succeeded \cup {m} /\ need' = [need EXCEPT ![m] = {}]
      /\ call' = [call EXCEPT ![c] = "idle"]
      /\ UNCHANGED <<required, store, next, rver, log, streams, lease, paused, followers,
                     repair, admissions, faults>>
  BY CallOf, Zenon DEF AckWrite, ReplicationInv, CallInv, OwnerInv
<1>1. /\ UNCHANGED <<required, store, next, rver, log>> /\ UNCHANGED <<head, failed, ack, sent, wire>>
      /\ UNCHANGED <<fstate, frec, fdedup, applied, ckpt, lastOwner, fps>>
      /\ UNCHANGED <<admitted, leased>> /\ UNCHANGED <<paused, repair, admissions, faults>>
  BY <1>0, Zenon DEF streams, followers, lease
<1>2. faults' \in 0..MaxFaults
  BY <1>1, FaultsBounded, Zenon DEF ReplicationInv
<1>3. \A f \in required : f \in admissions /\ rver[m] <= applied[f] + 1
  <2>1. CASE m \in succeeded
    BY <2>1, Zenon DEF ReplicationInv, CallInv
  <2>2. CASE m \notin succeeded
    <3> SUFFICES ASSUME NEW f \in required PROVE f \in admissions /\ rver[m] <= applied[f] + 1
      OBVIOUS
    <3>1. <<f, rver[m] - 1>> \in need[m]
      BY <1>0, <2>2 DEF ReplicationInv, CallInv
    <3>2. f \in admitted /\ ack[f] >= rver[m] - 1
      BY <1>0, <3>1
    <3>3. f \in admissions /\ f \in Followers /\ ack[f] <= applied[f] /\ ack[f] \in Nat /\ applied[f] \in Nat
      BY <3>2, RequiredFollow, Zenon DEF ReplicationInv, AdmissionInv, StreamInv
    <3> QED
      BY <1>0, <3>2, <3>3
  <2> QED
    BY <2>1, <2>2, Zenon
<1>4. CallInv'
  <2>1. need' \in [Mutations -> SUBSET (required \X Nat)]
        /\ need'[m] = {} /\ \A n \in Mutations : n # m => need'[n] = need[n]
    BY <1>0, Zenon DEF ReplicationInv, CallInv
  <2>2. call' \in [Calls -> {"idle", "ready", "wait"}] /\ \A d \in Calls : call'[d] = "wait" => rver[d[1]] # 0
    BY <1>0, Zenon DEF ReplicationInv, CallInv
  <2>3. succeeded' \subseteq Mutations /\ m \in succeeded'
        /\ \A n \in Mutations : n # m => (n \in succeeded' <=> n \in succeeded)
    BY <1>0, Zenon DEF ReplicationInv, CallInv
  <2>4. \A n \in Mutations : need'[n] # {} =>
           rver[n] # 0 /\ need'[n] = {<<f, rver[n] - 1>> : f \in required}
    BY <2>1, Zenon DEF ReplicationInv, CallInv
  <2>5. \A n \in Mutations : rver[n] # 0 /\ n \notin succeeded' =>
           need'[n] = {<<f, rver[n] - 1>> : f \in required}
    BY <2>1, <2>3, Zenon DEF ReplicationInv, CallInv
  <2>6. \A n \in succeeded' : rver[n] # 0 /\
           \A f \in required : f \in admissions /\ rver[n] <= applied[f] + 1
    BY <1>0, <1>3, <2>3, Zenon DEF ReplicationInv, CallInv
  <2>7. required' = required /\ rver' = rver /\ admissions' = admissions /\ applied' = applied
    BY <1>1, Zenon
  <2> QED
    BY <2>1, <2>2, <2>3, <2>4, <2>5, <2>6, <2>7 DEF CallInv
<1> QED
  BY <1>1, <1>2, <1>4, OwnerSame, StreamSame, CopySame, AdmissionSame, FollowerSame DEF ReplicationInv

-----------------------------------------------------------------------------
(* A write.                                                                *)

(* One more entry at the end of a stream. *)
LEMMA OneMore ==
    ASSUME NEW S, NEW s \in Seq(S), NEW e \in S
    PROVE  /\ Append(s, e) \in Seq(S) /\ Len(Append(s, e)) = Len(s) + 1
           /\ \A i \in 1..Len(s) : Append(s, e)[i] = s[i]
           /\ Append(s, e)[Len(s) + 1] = e
OBVIOUS

LEMMA WriteOwner ==
    ASSUME OwnerInv, NEW m \in Mutations, rver[m] = 0, required' = required, ApplyWrite(m)
    PROVE  /\ OwnerInv' /\ next' = next + 1 /\ rver'[m] = next + 1
           /\ \A n \in Mutations : n # m => rver'[n] = rver[n]
           /\ \A k \in Keys : store[k] <= store'[k]
<1>0. /\ next \in Nat /\ 1 <= next /\ next' = next + 1 /\ KeyOf[m] \in Keys
      /\ store' = [store EXCEPT ![KeyOf[m]] = next + 1]
      /\ rver' = [rver EXCEPT ![m] = next + 1] /\ next + 1 \in Nat
  BY CallOf DEF OwnerInv, ApplyWrite
<1>1. PICK e : e = [m |-> m, v |-> next + 1]
  BY Zenon
<1>2. e \in Entries /\ e.m = m /\ e.v = next + 1
  BY <1>0, <1>1 DEF Entries
<1>3. log' = [f \in Followers |-> Append(log[f], e)]
  BY <1>1, Zenon DEF ApplyWrite
<1>4. rver' \in [Mutations -> Nat] /\ rver'[m] = next + 1 /\ \A n \in Mutations : n # m => rver'[n] = rver[n]
  BY <1>0, SetOne, Zenon DEF OwnerInv
<1>5. store' \in [Keys -> Nat] /\ store'[KeyOf[m]] = next + 1 /\ \A k \in Keys : k # KeyOf[m] => store'[k] = store[k]
  BY <1>0, SetOne, Zenon DEF OwnerInv
<1>6. \A k \in Keys : 1 <= store'[k] /\ store'[k] <= next' /\ store[k] <= store'[k]
  <2> SUFFICES ASSUME NEW k \in Keys PROVE 1 <= store'[k] /\ store'[k] <= next' /\ store[k] <= store'[k]
    OBVIOUS
  <2>1. store[k] \in Nat /\ 1 <= store[k] /\ store[k] <= next /\ (store'[k] = store[k] \/ store'[k] = next + 1)
    BY <1>5, Zenon DEF OwnerInv
  <2> QED
    BY <1>0, <2>1
<1>7. ASSUME NEW f \in Followers
      PROVE  /\ log'[f] \in Seq(Entries) /\ Len(log'[f]) = next /\ log'[f][next] = e
             /\ \A i \in 1..(next - 1) : log'[f][i] = log[f][i]
  <2>1. log[f] \in Seq(Entries) /\ Len(log[f]) = next - 1 /\ log'[f] = Append(log[f], e)
    BY <1>3, Zenon DEF OwnerInv
  <2>2. (next - 1) + 1 = next
    BY <1>0
  <2>3. /\ Append(log[f], e) \in Seq(Entries) /\ Len(Append(log[f], e)) = Len(log[f]) + 1
        /\ \A i \in 1..Len(log[f]) : Append(log[f], e)[i] = log[f][i]
        /\ Append(log[f], e)[Len(log[f]) + 1] = e
    BY <1>2, <2>1, OneMore
  <2> QED
    BY <2>1, <2>2, <2>3, Zenon
<1>8. \A f \in Followers : \A i \in 1..(next - 1) :
          log[f][i] \in Entries /\ log[f][i].v = i + 1 /\ rver[log[f][i].m] = i + 1
  <2> SUFFICES ASSUME NEW f \in Followers, NEW i \in 1..(next - 1)
               PROVE  log[f][i] \in Entries /\ log[f][i].v = i + 1 /\ rver[log[f][i].m] = i + 1
    BY Zenon
  <2>1. log[f] \in Seq(Entries) /\ Len(log[f]) = next - 1
    BY Zenon DEF OwnerInv
  <2>2. i \in 1..Len(log[f])
    BY <2>1, Zenon
  <2>3. log[f][i] \in Entries
    BY <2>1, <2>2
  <2> QED
    BY <2>3 DEF OwnerInv
<1>9. ASSUME NEW f \in Followers, NEW i \in 1..(next' - 1)
      PROVE  log'[f][i].v = i + 1 /\ rver'[log'[f][i].m] = i + 1
  <2>1. CASE i = next
    BY <1>2, <1>4, <1>7, <2>1, Zenon
  <2>2. CASE i # next
    <3>1. i \in 1..(next - 1) /\ i + 1 # 0
      BY <1>0, <2>2
    <3>2. log'[f][i] = log[f][i] /\ log[f][i].v = i + 1 /\ rver[log[f][i].m] = i + 1 /\ log[f][i].m \in Mutations
      BY <1>7, <1>8, <3>1 DEF Entries
    <3>3. log[f][i].m # m
      BY <3>1, <3>2, Zenon
    <3> QED
      BY <1>4, <3>2, <3>3, Zenon
  <2> QED
    BY <2>1, <2>2, Zenon
<1>10. ASSUME NEW n \in Mutations, rver'[n] # 0
       PROVE  /\ 2 <= rver'[n] /\ rver'[n] <= next' /\ rver'[n] <= store'[KeyOf[n]]
              /\ \A f \in Followers : log'[f][rver'[n] - 1].m = n
  <2>1. CASE n = m
    <3>1. rver'[n] = next + 1 /\ (next + 1) - 1 = next /\ 2 <= next + 1 /\ next + 1 <= next'
          /\ next + 1 <= next + 1
      BY <1>0, <1>4, <2>1
    <3> QED
      BY <1>2, <1>5, <1>7, <2>1, <3>1, ZenonT(30)
  <2>2. CASE n # m
    <3>1. /\ rver'[n] = rver[n] /\ rver[n] \in Nat /\ 2 <= rver[n] /\ rver[n] <= next
          /\ rver[n] <= store[KeyOf[n]] /\ \A f \in Followers : log[f][rver[n] - 1].m = n
      BY <1>4, <1>10, <2>2, Zenon DEF OwnerInv
    <3>2. rver[n] - 1 \in 1..(next - 1) /\ rver[n] <= next'
      BY <1>0, <3>1
    <3>3. KeyOf[n] \in Keys /\ store[KeyOf[n]] \in Nat /\ store'[KeyOf[n]] \in Nat /\ store[KeyOf[n]] <= store'[KeyOf[n]]
      BY <1>5, <1>6, CallOf, Zenon DEF OwnerInv
    <3>4. rver[n] <= store'[KeyOf[n]]
      BY <3>1, <3>3
    <3>5. \A f \in Followers : log'[f][rver[n] - 1] = log[f][rver[n] - 1]
      BY <1>7, <3>2, Zenon
    <3>6. \A f \in Followers : log'[f][rver'[n] - 1].m = n
      BY <3>1, <3>5, ZenonT(30)
    <3> QED
      BY <3>1, <3>2, <3>4, <3>6, Zenon
  <2> QED
    BY <2>1, <2>2, Zenon
<1>11. /\ log' \in [Followers -> Seq(Entries)]
       /\ next' - 1 = next /\ next' \in Nat /\ 1 <= next'
  <2>1. log' \in [Followers -> Seq(Entries)]
    BY <1>3, <1>7, Zenon
  <2>2. next' - 1 = next /\ next' \in Nat /\ 1 <= next'
    BY <1>0
  <2> QED
    BY <2>1, <2>2, Zenon
<1>12. required' \in Policies /\ \A f \in Followers : Len(log'[f]) = next' - 1
  BY <1>7, <1>11, Zenon DEF OwnerInv
<1>13. OwnerInv'
  BY <1>4, <1>5, <1>6, <1>9, <1>10, <1>11, <1>12 DEF OwnerInv
<1> QED
  BY <1>0, <1>4, <1>6, <1>13, Zenon

LEMMA StepWrite ==
    ASSUME ReplicationInv, NEW c \in Calls, Write(c)
    PROVE  ReplicationInv'
<1>0. /\ c[1] \in Mutations /\ rver[c[1]] = 0 /\ \A f \in Followers : ~paused[f]
      /\ ApplyWrite(c[1]) /\ call' = [call EXCEPT ![c] = "wait"]
      /\ UNCHANGED <<required, streams, lease, paused, succeeded, followers, repair, admissions, faults>>
  BY CallOf, Zenon DEF Write
<1>1. /\ UNCHANGED <<head, failed, ack, sent, wire>> /\ UNCHANGED <<admitted, leased>>
      /\ UNCHANGED <<fstate, frec, fdedup, applied, ckpt, lastOwner, fps>>
      /\ UNCHANGED <<required, paused, repair, admissions, faults, succeeded>>
  BY <1>0, Zenon DEF streams, followers, lease
<1>2. faults' \in 0..MaxFaults
  BY <1>1, FaultsBounded, Zenon DEF ReplicationInv
<1>3. PICK m \in Mutations : m = c[1]
  BY <1>0, Zenon
<1>4. OwnerInv /\ OwnerInv'
  BY <1>0, <1>1, WriteOwner, Zenon DEF ReplicationInv
<1>5. /\ next' = next + 1 /\ rver'[m] = next + 1 /\ \A n \in Mutations : n # m => rver'[n] = rver[n]
      /\ \A k \in Keys : store[k] <= store'[k]
  BY <1>0, <1>1, <1>3, WriteOwner, Zenon DEF ReplicationInv
<1>6. next \in Nat /\ rver \in [Mutations -> Nat] /\ rver' \in [Mutations -> Nat] /\ rver[m] = 0 /\ next + 1 # 0
      /\ next < next + 1
  BY <1>0, <1>3, <1>4 DEF OwnerInv
<1>7. StreamInv'
  <2>0. /\ head' = head /\ ack' = ack /\ failed' = failed /\ sent' = sent /\ wire' = wire /\ applied' = applied
    BY <1>1, Zenon
  <2>1. ASSUME NEW f \in Followers
        PROVE  applied[f] < next' /\ head[f] < next' /\ (head[f] + 1 < next => head[f] + 1 < next')
    <3>1. applied[f] \in Nat /\ head[f] \in Nat /\ applied[f] < next /\ head[f] < next
      BY Zenon DEF ReplicationInv, StreamInv
    <3> QED
      BY <1>5, <1>6, <3>1
  <2> QED
    BY <2>0, <2>1, Zenon DEF ReplicationInv, StreamInv
<1>8. CopyInv'
  <2>0. /\ repair' = repair /\ paused' = paused /\ frec' = frec /\ fdedup' = fdedup
        /\ admissions' = admissions /\ applied' = applied
    BY <1>1, Zenon
  <2>1. ASSUME NEW f \in Followers, NEW k \in Keys PROVE frec[f][k] <= store'[k]
    <3>1. frec[f][k] \in Nat /\ store[k] \in Nat /\ store'[k] \in Nat /\ frec[f][k] <= store[k] /\ store[k] <= store'[k]
      BY <1>4, <1>5, ZenonT(30) DEF ReplicationInv, CopyInv, OwnerInv
    <3> QED
      BY <3>1
  <2>2. ASSUME NEW f \in Followers PROVE repair[f] # "committed"
    BY <1>0, Zenon DEF ReplicationInv, CopyInv
  <2>3. ASSUME NEW f \in Followers, Complete(f, applied[f]) PROVE Complete(f, applied[f])'
    <3>1. ~(rver'[m] <= applied[f] + 1)
      <4>1. applied[f] \in Nat /\ applied[f] < next
        BY Zenon DEF ReplicationInv, StreamInv
      <4> QED
        BY <1>5, <1>6, <4>1
    <3> QED
      BY <1>5, <2>0, <2>3, <3>1, Zenon DEF Complete
  <2> QED
    BY <2>0, <2>1, <2>2, <2>3, Zenon DEF ReplicationInv, CopyInv
<1>9. CallInv'
  <2>0. required' = required /\ succeeded' = succeeded /\ admissions' = admissions /\ applied' = applied
    BY <1>1, Zenon
  <2>1. call' \in [Calls -> {"idle", "ready", "wait"}] /\ \A d \in Calls : d # c => call'[d] = call[d]
    BY <1>0, Zenon DEF ReplicationInv, CallInv
  <2>2. \A d \in Calls : call'[d] = "wait" => rver'[d[1]] # 0
    <3> SUFFICES ASSUME NEW d \in Calls, call'[d] = "wait" PROVE rver'[d[1]] # 0
      BY Zenon
    <3>1. CASE d[1] = m
      BY <1>5, <1>6, <3>1, Zenon
    <3>2. CASE d[1] # m
      BY <1>3, <1>5, <2>1, <3>2, CallOf, Zenon DEF ReplicationInv, CallInv
    <3> QED
      BY <3>1, <3>2, Zenon
  <2>3. m \notin succeeded
    BY <1>6, Zenon DEF ReplicationInv, CallInv
  <2>4. PICK q : q = {<<f, rver'[m] - 1>> : f \in required}
    BY Zenon
  <2>5. q = {<<f, Len(log[f]) + 1>> : f \in required} /\ q \in SUBSET (required \X Nat)
    <3>1. \A f \in required : Len(log[f]) + 1 = rver'[m] - 1
      <4>1. \A f \in required : Len(log[f]) = next - 1
        BY <1>4, RequiredFollow, Zenon DEF OwnerInv
      <4> QED
        BY <1>5, <1>6, <4>1
    <3>2. rver'[m] - 1 \in Nat
      BY <1>5, <1>6
    <3> QED
      BY <2>4, <3>1, <3>2
  <2>6. need' = [need EXCEPT ![m] = q]
    BY <1>0, <1>3, <2>5, Zenon DEF ApplyWrite
  <2>7. need' \in [Mutations -> SUBSET (required \X Nat)] /\ need'[m] = q
        /\ \A n \in Mutations : n # m => need'[n] = need[n]
    BY <2>5, <2>6, SetOne, ZenonT(30) DEF ReplicationInv, CallInv
  <2>8. ASSUME NEW n \in Mutations, need'[n] # {}
        PROVE  rver'[n] # 0 /\ need'[n] = {<<f, rver'[n] - 1>> : f \in required}
    <3>1. CASE n = m
      BY <1>5, <1>6, <2>4, <2>7, <3>1, Zenon
    <3>2. CASE n # m
      <4>1. rver'[n] = rver[n] /\ need'[n] = need[n]
        BY <1>5, <2>7, <3>2, Zenon
      <4>2. rver[n] # 0 /\ need[n] = {<<f, rver[n] - 1>> : f \in required}
        BY <2>8, <4>1, Zenon DEF ReplicationInv, CallInv
      <4> QED
        BY <4>1, <4>2, Zenon
    <3> QED
      BY <3>1, <3>2, Zenon
  <2>9. ASSUME NEW n \in Mutations, rver'[n] # 0, n \notin succeeded
        PROVE  need'[n] = {<<f, rver'[n] - 1>> : f \in required}
    <3>1. CASE n = m
      BY <2>4, <2>7, <3>1, Zenon
    <3>2. CASE n # m
      <4>1. rver'[n] = rver[n] /\ need'[n] = need[n]
        BY <1>5, <2>7, <3>2, Zenon
      <4>2. need[n] = {<<f, rver[n] - 1>> : f \in required}
        BY <2>9, <4>1, Zenon DEF ReplicationInv, CallInv
      <4> QED
        BY <4>1, <4>2, Zenon
    <3> QED
      BY <3>1, <3>2, Zenon
  <2>10. \A n \in succeeded : rver'[n] # 0 /\
            \A f \in required : f \in admissions /\ rver'[n] <= applied[f] + 1
    BY <1>5, <2>3, Zenon DEF ReplicationInv, CallInv
  <2>11. succeeded \subseteq Mutations
    BY Zenon DEF ReplicationInv, CallInv
  <2> QED
    BY <2>0, <2>1, <2>2, <2>7, <2>8, <2>9, <2>10, <2>11 DEF CallInv
<1>10. FollowerInv'
  <2>1. \A f \in Followers : lastOwner[f] <= next'
    BY <1>5, <1>6 DEF ReplicationInv, FollowerInv
  <2> QED
    BY <1>1, <2>1, Zenon DEF ReplicationInv, FollowerInv
<1> QED
  BY <1>1, <1>2, <1>4, <1>7, <1>8, <1>9, <1>10, AdmissionSame DEF ReplicationInv

-----------------------------------------------------------------------------
(* A delivery.                                                             *)

(* The entry a follower applies is the next mutation of its stream. *)
LEMMA NextEntry ==
    ASSUME OwnerInv, NEW f \in Followers, NEW s \in Nat, 1 <= s, s < next
    PROVE  LET e == log[f][s] IN
           /\ e.m \in Mutations /\ e.v = s + 1 /\ rver[e.m] = s + 1 /\ e.v \in Nat
           /\ e.v <= store[KeyOf[e.m]] /\ e.v <= next
           /\ \A m \in Mutations : rver[m] = s + 1 => m = e.m
<1>0. s \in 1..(next - 1) /\ s + 1 \in Nat /\ s + 1 # 0 /\ (s + 1) - 1 = s /\ s + 1 <= next
  BY DEF OwnerInv
<1>1. log[f] \in Seq(Entries) /\ Len(log[f]) = next - 1
  BY Zenon DEF OwnerInv
<1>2. s \in 1..Len(log[f])
  BY <1>0, <1>1, Zenon
<1>3. log[f][s] \in Entries
  BY <1>1, <1>2
<1>4. PICK e \in Entries : e = log[f][s]
  BY <1>3, Zenon
<1>5. e.m \in Mutations /\ e.v = s + 1 /\ rver[e.m] = s + 1
  <2>1. e.m \in Mutations
    BY DEF Entries
  <2> QED
    BY <1>0, <1>4, <2>1 DEF OwnerInv
<1>6. \A m \in Mutations : rver[m] = s + 1 => m = e.m
  <2> SUFFICES ASSUME NEW m \in Mutations, rver[m] = s + 1 PROVE m = e.m
    BY Zenon
  <2>1. rver[m] # 0 /\ rver[m] - 1 = s
    BY <1>0, Zenon
  <2>2. log[f][rver[m] - 1].m = m
    BY <2>1, Zenon DEF OwnerInv
  <2> QED
    BY <1>4, <2>1, <2>2, Zenon
<1>7. e.v <= store[KeyOf[e.m]] /\ e.v <= next /\ e.v \in Nat
  BY <1>0, <1>5, Zenon DEF OwnerInv
<1> QED
  BY <1>4, <1>5, <1>6, <1>7, Zenon

(* A follower holds nothing the owner has not written. *)
LEMMA CopyBounds ==
    ASSUME OwnerInv, CopyInv
    PROVE  /\ frec \in [Followers -> [Keys -> Nat]] /\ fdedup \in [Followers -> SUBSET Mutations]
           /\ \A g \in Followers : \A k \in Keys :
                 frec[g][k] \in Nat /\ frec[g][k] <= store[k] /\ store[k] \in Nat
<1>1. store \in [Keys -> Nat]
  BY Zenon DEF OwnerInv
<1>2. frec \in [Followers -> [Keys -> Nat]] /\ fdedup \in [Followers -> SUBSET Mutations]
  BY Zenon DEF CopyInv
<1>3. \A g \in Followers : \A k \in Keys : frec[g][k] <= store[k]
  BY Zenon DEF CopyInv
<1> QED
  BY <1>1, <1>2, <1>3, Zenon

(* A copy that only grows stays complete. *)
LEMMA GrownCopy ==
    ASSUME OwnerInv, CopyInv, rver' = rver, NEW g \in Followers, NEW n \in Nat, Complete(g, n),
           frec' \in [Followers -> [Keys -> Nat]],
           \A k \in Keys : frec[g][k] <= frec'[g][k], fdedup[g] \subseteq fdedup'[g]
    PROVE  Complete(g, n)'
<1>1. \A k \in Keys : frec[g][k] \in Nat /\ frec'[g][k] \in Nat
  BY Zenon DEF CopyInv
<1>2. \A k \in Keys : 1 <= frec'[g][k]
  BY <1>1 DEF Complete
<1>3. ASSUME NEW m \in Mutations, rver[m] # 0, rver[m] <= n + 1
      PROVE  rver[m] <= frec'[g][KeyOf[m]] /\ m \in fdedup'[g]
  <2>1. rver[m] \in Nat /\ rver[m] <= frec[g][KeyOf[m]] /\ m \in fdedup[g] /\ KeyOf[m] \in Keys
    BY <1>3, CallOf, Zenon DEF Complete, OwnerInv
  <2>2. rver[m] <= frec'[g][KeyOf[m]]
    BY <1>1, <2>1
  <2> QED
    BY <2>1, <2>2, Zenon
<1> QED
  BY <1>2, <1>3, Zenon DEF Complete

LEMMA StepDeliver ==
    ASSUME ReplicationInv, NEW f \in Followers, Deliver(f)
    PROVE  ReplicationInv'
<1> DEFINE s == head[f] + 1
           Move == [wire EXCEPT ![f] =
                      IF @.tag # "sent" THEN @
                      ELSE IF (IF Verdict(f, s) = "apply" THEN "ok" ELSE Verdict(f, s)) = "retry" THEN Idle
                      ELSE [tag |-> IF Verdict(f, s) = "apply" THEN "ok" ELSE Verdict(f, s),
                            seq |-> IF Verdict(f, s) = "apply" THEN s ELSE applied[f]]]
<1>0. /\ sent[f] /\ wire' = Move
      /\ IF Verdict(f, s) = "apply" THEN ApplyEntry(f, s) ELSE UNCHANGED <<frec, fdedup, applied, lastOwner, fps>>
      /\ UNCHANGED <<ownerData, head, failed, ack, sent, lease, paused, clients,
                     fstate, ckpt, repair, admissions, faults>>
  BY Zenon DEF Deliver
<1>1. /\ UNCHANGED <<required, store, next, rver, need, log>> /\ UNCHANGED <<head, failed, ack, sent>>
      /\ UNCHANGED <<call, succeeded>> /\ UNCHANGED <<admitted, leased>>
      /\ UNCHANGED <<paused, fstate, ckpt, repair, admissions, faults>>
  BY <1>0, Zenon DEF ownerData, clients, lease
<1>2. faults' \in 0..MaxFaults
  BY <1>1, FaultsBounded, Zenon DEF ReplicationInv
<1>3. /\ OwnerInv /\ StreamInv /\ CopyInv /\ CallInv /\ FollowerInv
  BY Zenon DEF ReplicationInv
<1>4. /\ head[f] \in Nat /\ head[f] + 1 < next /\ applied[f] \in Nat /\ applied[f] < next /\ ack[f] <= applied[f]
      /\ ack[f] \in Nat /\ next \in Nat /\ head[f] < next
  BY <1>0, <1>3, Zenon DEF StreamInv, OwnerInv
<1>5. s \in Nat /\ 1 <= s /\ s < next
  BY <1>4
<1>6. Verdict(f, s) \in {"ok", "retry", "terminal", "apply"}
  BY Zenon DEF Verdict
<1>7. Verdict(f, s) = "apply" => s = applied[f] + 1
  BY <1>4, <1>5 DEF Verdict
<1> HIDE DEF s
<1>8. PICK p \in Nat : /\ p = IF Verdict(f, s) = "apply" THEN s ELSE applied[f]
                       /\ p < next /\ applied[f] <= p
  BY <1>4, <1>5, <1>7
<1>9. PICK t \in {"ok", "retry", "terminal"} : t = IF Verdict(f, s) = "apply" THEN "ok" ELSE Verdict(f, s)
  BY <1>6, Zenon
<1>10. PICK a \in Answers :
          /\ wire' = [wire EXCEPT ![f] = a] /\ (a.tag = "ok" => a.seq <= p)
  <2>1. wire[f] \in Answers /\ wire[f].seq \in Nat
    BY <1>3, AnswerShape, ZenonT(30) DEF StreamInv
  <2>2. CASE wire[f].tag # "sent"
    <3>1. wire' = [wire EXCEPT ![f] = wire[f]]
      BY <1>0, <2>2, Zenon
    <3>2. wire[f].tag = "ok" => wire[f].seq <= applied[f]
      BY <1>3, Zenon DEF StreamInv
    <3>3. wire[f].tag = "ok" => wire[f].seq <= p
      BY <1>4, <1>8, <2>1, <3>2
    <3> QED
      BY <2>1, <3>1, <3>3, Zenon
  <2>3. CASE wire[f].tag = "sent" /\ t = "retry"
    <3>1. wire' = [wire EXCEPT ![f] = Idle]
      BY <1>0, <1>9, <2>3, Zenon
    <3> QED
      BY <3>1, AnswerShape, Zenon
  <2>4. CASE wire[f].tag = "sent" /\ t # "retry"
    <3>1. PICK a : a = [tag |-> t, seq |-> p]
      BY Zenon
    <3>2. a \in Answers /\ a.seq = p
      BY <1>9, <2>4, <3>1 DEF Answers
    <3>3. wire' = [wire EXCEPT ![f] = a]
      BY <1>0, <1>8, <1>9, <2>4, <3>1, Zenon
    <3>4. a.seq <= p
      BY <3>2
    <3> QED
      BY <3>2, <3>3, <3>4, Zenon
  <2> QED
    BY <2>2, <2>3, <2>4, Zenon
<1>11. /\ wire' \in [Followers -> Answers] /\ wire'[f] = a /\ \A g \in Followers : g # f => wire'[g] = wire[g]
  BY <1>3, <1>10, SetOne, Zenon DEF StreamInv
<1>12. /\ applied' \in [Followers -> Nat] /\ applied'[f] = p
       /\ \A g \in Followers : g # f => applied'[g] = applied[g]
  <2>1. applied' = applied \/ applied' = [applied EXCEPT ![f] = s]
    BY <1>0, Zenon DEF ApplyEntry
  <2>2. Verdict(f, s) = "apply" => applied' = [applied EXCEPT ![f] = s]
    BY <1>0, Zenon DEF ApplyEntry
  <2>3. Verdict(f, s) # "apply" => applied' = applied
    BY <1>0, Zenon
  <2>4. applied \in [Followers -> Nat]
    BY <1>3, Zenon DEF StreamInv
  <2>5. CASE Verdict(f, s) = "apply"
    <3>1. p = s
      BY <1>8, <2>5, Zenon
    <3>2. applied' = [applied EXCEPT ![f] = p]
      BY <2>2, <2>5, <3>1, Zenon
    <3> QED
      BY <2>4, <3>2, SetOne, Zenon
  <2>6. CASE Verdict(f, s) # "apply"
    BY <1>8, <2>3, <2>4, <2>6, Zenon
  <2> QED
    BY <2>5, <2>6, Zenon
<1>13. StreamInv'
  <2>1. ack'[f] <= applied'[f] /\ applied'[f] < next
    BY <1>1, <1>4, <1>8, <1>12
  <2>2. /\ head'[f] < next /\ head' \in [Followers -> Nat] /\ ack' \in [Followers -> Nat]
        /\ failed' \subseteq Followers /\ sent' \in [Followers -> BOOLEAN]
        /\ sent' = sent /\ head' = head /\ head[f] + 1 < next /\ ack' = ack /\ next' = next
    BY <1>1, <1>3, <1>4, Zenon DEF StreamInv
  <2>3. \A g \in Followers : g # f =>
           /\ head'[g] = head[g] /\ ack'[g] = ack[g] /\ applied'[g] = applied[g]
           /\ sent'[g] = sent[g] /\ wire'[g] = wire[g]
    BY <1>11, <1>12, <2>2, Zenon
  <2>4. sent'[f] /\ head'[f] + 1 < next /\ (wire'[f].tag = "ok" => wire'[f].seq <= applied'[f])
    BY <1>0, <1>10, <1>11, <1>12, <2>2, Zenon
  <2> QED
    BY <1>3, <1>11, <1>12, <2>1, <2>2, <2>3, <2>4, StreamMoves, Zenon
<1>14. PICK e : e = log[f][s]
  BY Zenon
<1>15. /\ e.m \in Mutations /\ e.v = s + 1 /\ e.v \in Nat /\ e.v <= next
       /\ e.v <= store[KeyOf[e.m]] /\ KeyOf[e.m] \in Keys
       /\ \A m \in Mutations : rver[m] = s + 1 => m = e.m
  BY <1>3, <1>5, <1>14, NextEntry, CallOf, ZenonT(30)
<1>16. Verdict(f, s) = "apply" =>
          /\ frec' = [frec EXCEPT ![f][KeyOf[e.m]] = IF e.v > @ THEN e.v ELSE @]
          /\ fdedup' = [fdedup EXCEPT ![f] = @ \cup {e.m}]
          /\ lastOwner' = [lastOwner EXCEPT ![f] = e.v]
          /\ fps' = [fps EXCEPT ![f] = (@ \cup {s}) \ {s - FpWindow}]
  BY <1>0, <1>14, Zenon DEF ApplyEntry
<1>17. Verdict(f, s) # "apply" =>
          /\ frec' = frec /\ fdedup' = fdedup /\ lastOwner' = lastOwner /\ fps' = fps /\ p = applied[f]
  BY <1>0, <1>8, Zenon
<1>18. /\ frec \in [Followers -> [Keys -> Nat]] /\ fdedup \in [Followers -> SUBSET Mutations]
       /\ \A g \in Followers : \A k \in Keys : frec[g][k] \in Nat /\ frec[g][k] <= store[k] /\ store[k] \in Nat
  BY <1>3, CopyBounds, Zenon
<1>19. /\ frec' \in [Followers -> [Keys -> Nat]]
       /\ \A g \in Followers : \A k \in Keys : frec[g][k] <= frec'[g][k] /\ frec'[g][k] <= store[k]
       /\ Verdict(f, s) = "apply" => e.v <= frec'[f][KeyOf[e.m]]
  <2>1. CASE Verdict(f, s) # "apply"
    <3>1. \A g \in Followers : \A k \in Keys : frec[g][k] <= frec[g][k]
      BY <1>18
    <3> QED
      BY <1>17, <1>18, <2>1, <3>1, Zenon
  <2>2. CASE Verdict(f, s) = "apply"
    <3>1. PICK k0 \in Keys : k0 = KeyOf[e.m]
      BY <1>15, Zenon
    <3>2. PICK v : v = IF e.v > frec[f][k0] THEN e.v ELSE frec[f][k0]
      BY Zenon
    <3>3. v \in Nat /\ e.v <= v /\ frec[f][k0] <= v /\ v <= store[k0]
      BY <1>15, <1>18, <3>1, <3>2
    <3>4. PICK r : r = [frec[f] EXCEPT ![k0] = v]
      BY Zenon
    <3>5. frec[f] \in [Keys -> Nat]
      BY <1>18, Zenon
    <3>6. r \in [Keys -> Nat] /\ r[k0] = v /\ \A k \in Keys : k # k0 => r[k] = frec[f][k]
      BY <3>3, <3>4, <3>5, SetOne, Zenon
    <3>7. frec' = [frec EXCEPT ![f] = r]
      BY <1>16, <2>2, <3>1, <3>2, <3>4, Zenon
    <3>8. frec' \in [Followers -> [Keys -> Nat]] /\ frec'[f] = r /\ \A g \in Followers : g # f => frec'[g] = frec[g]
      BY <1>18, <3>6, <3>7, SetOne, Zenon
    <3>9. ASSUME NEW g \in Followers, NEW k \in Keys PROVE frec[g][k] <= frec'[g][k] /\ frec'[g][k] <= store[k]
      <4>1. CASE g = f /\ k = k0
        BY <3>3, <3>6, <3>8, <4>1, Zenon
      <4>2. CASE ~(g = f /\ k = k0)
        <5>1. frec'[g][k] = frec[g][k]
          BY <3>6, <3>8, <4>2, Zenon
        <5> QED
          BY <1>18, <5>1
      <4> QED
        BY <4>1, <4>2, Zenon
    <3> QED
      BY <3>1, <3>3, <3>6, <3>8, <3>9, Zenon
  <2> QED
    BY <2>1, <2>2, Zenon
<1>20. /\ fdedup' \in [Followers -> SUBSET Mutations] /\ \A g \in Followers : fdedup[g] \subseteq fdedup'[g]
       /\ Verdict(f, s) = "apply" => e.m \in fdedup'[f]
  <2>1. CASE Verdict(f, s) # "apply"
    BY <1>17, <1>18, <2>1, Zenon
  <2>2. CASE Verdict(f, s) = "apply"
    <3>1. PICK d : d = fdedup[f] \cup {e.m}
      BY Zenon
    <3>2. d \in SUBSET Mutations /\ fdedup[f] \subseteq d /\ e.m \in d
      BY <1>15, <1>18, <3>1, Zenon
    <3>3. fdedup' = [fdedup EXCEPT ![f] = d]
      BY <1>16, <2>2, <3>1, Zenon
    <3>4. fdedup' \in [Followers -> SUBSET Mutations] /\ fdedup'[f] = d
          /\ \A g \in Followers : g # f => fdedup'[g] = fdedup[g]
      BY <1>18, <3>2, <3>3, SetOne, ZenonT(30)
    <3> QED
      BY <3>2, <3>4, Zenon
  <2> QED
    BY <2>1, <2>2, Zenon
<1>21. ASSUME NEW g \in Followers, NEW n \in Nat, Complete(g, n) PROVE Complete(g, n)'
  <2>1. /\ frec' \in [Followers -> [Keys -> Nat]] /\ fdedup[g] \subseteq fdedup'[g]
        /\ \A k \in Keys : frec[g][k] <= frec'[g][k]
    BY <1>19, <1>20, Zenon
  <2> QED BY <1>1, <1>3, <1>21, <2>1, GrownCopy, ZenonT(30)
<1>22. ASSUME Complete(f, applied[f]) PROVE Complete(f, applied[f])'
  <2>1. PICK n \in Nat : n = applied[f]
    BY <1>4, Zenon
  <2>2. Complete(f, n)'
    BY <1>21, <1>22, <2>1, Zenon
  <2>3. CASE Verdict(f, s) # "apply"
    BY <1>12, <1>17, <2>1, <2>2, <2>3, Zenon
  <2>4. CASE Verdict(f, s) = "apply"
    <3>1. p = n + 1 /\ p = s /\ applied'[f] = p
      BY <1>7, <1>8, <1>12, <2>1, <2>4, Zenon
    <3>2. ASSUME NEW m \in Mutations, rver'[m] # 0, rver'[m] <= p + 1
          PROVE  rver'[m] <= frec'[f][KeyOf[m]] /\ m \in fdedup'[f]
      <4>0. rver' = rver /\ rver[m] \in Nat
        BY <1>1, <1>3, Zenon DEF OwnerInv
      <4>1. CASE rver[m] = s + 1
        BY <1>15, <1>19, <1>20, <2>4, <4>0, <4>1, Zenon
      <4>2. CASE rver[m] # s + 1
        <5>1. rver[m] <= n + 1
          BY <1>5, <3>1, <3>2, <4>0, <4>2
        <5> QED
          BY <2>2, <3>2, <4>0, <5>1, Zenon DEF Complete
      <4> QED
        BY <4>1, <4>2, Zenon
    <3>3. \A k \in Keys : 1 <= frec'[f][k]
      BY <2>2, Zenon DEF Complete
    <3> QED
      BY <3>1, <3>2, <3>3, Zenon DEF Complete
  <2> QED
    BY <2>3, <2>4, Zenon
<1>23. CopyInv'
  <2>0. repair' = repair /\ paused' = paused /\ admissions' = admissions /\ next' = next /\ store' = store
    BY <1>1, Zenon
  <2>1. ASSUME NEW g \in Followers, repair[g] = "committed" PROVE Complete(g, next - 1)'
    <3>1. PICK n \in Nat : n = next - 1
      BY <1>4
    <3>2. Complete(g, n)
      BY <1>3, <2>1, <3>1, Zenon DEF CopyInv
    <3>3. Complete(g, n)'
      BY <1>21, <3>2, Zenon
    <3> QED
      BY <2>0, <3>1, <3>3, Zenon
  <2>2. ASSUME NEW g \in Followers, Complete(g, applied[g]) PROVE Complete(g, applied[g])'
    <3>1. CASE g = f
      BY <1>22, <2>2, <3>1, Zenon
    <3>2. CASE g # f
      <4>1. PICK n \in Nat : n = applied[g]
        BY <1>3, Zenon DEF StreamInv
      <4>2. Complete(g, n)'
        BY <1>21, <2>2, <4>1, Zenon
      <4> QED
        BY <1>12, <3>2, <4>1, <4>2, Zenon
    <3> QED
      BY <3>1, <3>2, Zenon
  <2> QED
    BY <1>3, <1>19, <1>20, <2>0, <2>1, <2>2, Zenon DEF CopyInv
<1>24. CallInv'
  <2>1. ASSUME NEW m \in succeeded, NEW g \in required PROVE rver[m] <= applied'[g] + 1
    <3>1. rver[m] \in Nat /\ rver[m] <= applied[g] + 1 /\ applied[g] \in Nat /\ applied'[g] \in Nat
          /\ (applied'[g] = applied[g] \/ (applied'[g] = p /\ applied[g] <= p))
      BY <1>3, <1>8, <1>12, RequiredFollow, Zenon DEF CallInv, OwnerInv, StreamInv
    <3> QED
      BY <3>1
  <2>2. /\ required' = required /\ rver' = rver /\ need' = need /\ call' = call
        /\ succeeded' = succeeded /\ admissions' = admissions
    BY <1>1, Zenon
  <2> QED
    BY <1>3, <2>1, <2>2, ZenonT(30) DEF CallInv
<1>25. FollowerInv'
  <2>1. lastOwner' \in [Followers -> Nat] /\ \A g \in Followers : lastOwner'[g] <= next
    <3>1. lastOwner \in [Followers -> Nat] /\ \A g \in Followers : lastOwner[g] <= next
      BY <1>3, Zenon DEF FollowerInv
    <3>2. CASE Verdict(f, s) # "apply"
      BY <1>17, <3>1, <3>2, Zenon
    <3>3. CASE Verdict(f, s) = "apply"
      BY <1>15, <1>16, <3>1, <3>3, SetOne, Zenon
    <3> QED
      BY <3>2, <3>3, Zenon
  <2>2. fps' \in [Followers -> SUBSET Nat]
    <3>1. fps \in [Followers -> SUBSET Nat]
      BY <1>3, Zenon DEF FollowerInv
    <3>2. CASE Verdict(f, s) # "apply"
      BY <1>17, <3>1, <3>2, Zenon
    <3>3. CASE Verdict(f, s) = "apply"
      <4>1. PICK w : w = (fps[f] \cup {s}) \ {s - FpWindow}
        BY Zenon
      <4>2. w \in SUBSET Nat
        BY <1>5, <3>1, <4>1, Zenon
      <4>3. fps' = [fps EXCEPT ![f] = w]
        BY <1>16, <3>3, <4>1, Zenon
      <4> QED
        BY <3>1, <4>2, <4>3, SetOne, Zenon
    <3> QED
      BY <3>2, <3>3, Zenon
  <2> QED
    BY <1>1, <1>3, <2>1, <2>2, Zenon DEF FollowerInv
<1> QED
  BY <1>1, <1>2, <1>13, <1>23, <1>24, <1>25, OwnerSame, AdmissionSame DEF ReplicationInv

-----------------------------------------------------------------------------
(* The repair of a follower.                                               *)

(* A repair that has not committed, or only releases the source. *)
LEMMA RepairMoves ==
    ASSUME CopyInv, NEW f \in Followers, NEW r \in {"idle", "copy", "paused", "released"},
           repair' = [repair EXCEPT ![f] = r],
           paused' \in [Followers -> BOOLEAN],
           \A g \in Followers : g # f => paused'[g] = paused[g],
           r = "paused" => paused'[f],
           r = "released" => repair[f] = "checkpointed",
           UNCHANGED <<next, store, rver, frec, fdedup, admissions, applied>>
    PROVE  CopyInv'
<1>0. /\ next' = next /\ store' = store /\ rver' = rver /\ frec' = frec /\ fdedup' = fdedup
      /\ admissions' = admissions /\ applied' = applied
  BY Zenon
<1>1. r \in {"idle", "copy", "paused", "committed", "checkpointed", "released"}
      /\ r # "committed" /\ r # "checkpointed"
  OBVIOUS
<1>2. /\ repair' \in [Followers -> {"idle", "copy", "paused", "committed", "checkpointed", "released"}]
      /\ repair'[f] = r /\ \A g \in Followers : g # f => repair'[g] = repair[g]
  BY <1>1, SetOne, Zenon DEF CopyInv
<1>3. ASSUME NEW g \in Followers
      PROVE  /\ repair'[g] \in {"paused", "committed", "checkpointed"} => paused'[g]
             /\ repair'[g] = "committed" => Complete(g, next - 1)
             /\ repair'[g] \in {"checkpointed", "released"} \/ g \in admissions => Complete(g, applied[g])
  <2>1. CASE g = f
    BY <1>1, <1>2, <2>1, Zenon DEF CopyInv
  <2>2. CASE g # f
    <3>1. repair'[g] = repair[g] /\ paused'[g] = paused[g]
      BY <1>2, <2>2, Zenon
    <3>2. /\ repair[g] \in {"paused", "committed", "checkpointed"} => paused[g]
          /\ repair[g] = "committed" => Complete(g, next - 1)
          /\ repair[g] \in {"checkpointed", "released"} \/ g \in admissions => Complete(g, applied[g])
      BY Zenon DEF CopyInv
    <3> QED
      BY <3>1, <3>2, Zenon
  <2> QED
    BY <2>1, <2>2, Zenon
<1>4. ASSUME NEW g \in Followers
      PROVE  /\ repair'[g] = "committed" => Complete(g, next - 1)'
             /\ repair'[g] \in {"checkpointed", "released"} \/ g \in admissions => Complete(g, applied[g])'
  BY <1>0, <1>3, Zenon DEF Complete
<1>5. frec' \in [Followers -> [Keys -> Nat]] /\ fdedup' \in [Followers -> SUBSET Mutations]
      /\ \A g \in Followers : \A k \in Keys : frec'[g][k] <= store'[k]
  BY <1>0, Zenon DEF CopyInv
<1> QED
  BY <1>0, <1>2, <1>3, <1>4, <1>5, Zenon DEF CopyInv

LEMMA StepAttempt ==
    ASSUME ReplicationInv, NEW f \in Followers,
           \/ StartRepair(f) \/ PauseStream(f) \/ ReleaseStream(f) \/ AbortRepair(f) \/ InterruptRepair(f)
    PROVE  ReplicationInv'
<1>0. /\ UNCHANGED <<ownerData, streams, lease, clients, followers, admissions>>
      /\ faults' = faults \/ (faults < MaxFaults /\ faults' = faults + 1)
  BY Zenon DEF StartRepair, PauseStream, ReleaseStream, AbortRepair, InterruptRepair
<1>1. /\ UNCHANGED <<required, store, next, rver, need, log>> /\ UNCHANGED <<head, failed, ack, sent, wire>>
      /\ UNCHANGED <<fstate, frec, fdedup, applied, ckpt, lastOwner, fps>> /\ UNCHANGED <<call, succeeded>>
      /\ UNCHANGED <<admitted, leased>> /\ admissions' = admissions
  BY <1>0, Zenon DEF ownerData, streams, followers, clients, lease
<1>2. faults' \in 0..MaxFaults
  BY <1>0, FaultsBounded, Zenon DEF ReplicationInv
<1>3. PICK r \in {"idle", "copy", "paused", "released"} :
         /\ repair' = [repair EXCEPT ![f] = r]
         /\ r = "paused" => paused' = [paused EXCEPT ![f] = TRUE]
         /\ r = "released" => repair[f] = "checkpointed"
  BY Zenon DEF StartRepair, PauseStream, ReleaseStream, AbortRepair, InterruptRepair
<1>4. paused \in [Followers -> BOOLEAN]
  BY Zenon DEF ReplicationInv, CopyInv
<1>5. paused' = paused \/ \E b \in BOOLEAN : paused' = [paused EXCEPT ![f] = b]
  <2>1. CASE StartRepair(f)
    <3>1. PICK b : b = (paused[f] /\ fstate[f] = "dead")
      BY Zenon
    <3>2. b \in BOOLEAN /\ paused' = [paused EXCEPT ![f] = b]
      BY <2>1, <3>1, Zenon DEF StartRepair
    <3> QED
      BY <3>2, Zenon
  <2> QED
    BY <2>1, Zenon DEF PauseStream, ReleaseStream, AbortRepair, InterruptRepair
<1>6. paused' \in [Followers -> BOOLEAN] /\ \A g \in Followers : g # f => paused'[g] = paused[g]
  BY <1>4, <1>5, Zenon
<1>7. r = "paused" => paused'[f]
  BY <1>3, <1>4, Zenon
<1>8. CopyInv /\ UNCHANGED <<next, store, rver, frec, fdedup, admissions, applied>>
  BY <1>1 DEF ReplicationInv
<1>9. CopyInv'
  BY <1>3, <1>6, <1>7, <1>8, RepairMoves, Zenon
<1> QED
  BY <1>1, <1>2, <1>9, OwnerSame, StreamSame, AdmissionSame, CallSame, FollowerSame DEF ReplicationInv

LEMMA StepCommit ==
    ASSUME ReplicationInv, NEW f \in Followers, CommitCopy(f)
    PROVE  ReplicationInv'
<1>0. /\ repair[f] = "paused" /\ repair' = [repair EXCEPT ![f] = "committed"]
      /\ frec' = [frec EXCEPT ![f] = store]
      /\ fdedup' = [fdedup EXCEPT ![f] = @ \cup {m \in Mutations : rver[m] # 0}]
      /\ UNCHANGED <<ownerData, streams, lease, paused, clients, fstate, applied, ckpt,
                     lastOwner, fps, admissions, faults>>
  BY Zenon DEF CommitCopy
<1>1. /\ UNCHANGED <<required, store, next, rver, need, log>> /\ UNCHANGED <<head, failed, ack, sent, wire>>
      /\ UNCHANGED <<fstate, applied, ckpt, lastOwner, fps>> /\ UNCHANGED <<call, succeeded>>
      /\ UNCHANGED <<admitted, leased>> /\ UNCHANGED <<paused, admissions, faults>>
  BY <1>0, Zenon DEF ownerData, streams, clients, lease
<1>2. faults' \in 0..MaxFaults
  BY <1>1, FaultsBounded, Zenon DEF ReplicationInv
<1>3. OwnerInv /\ CopyInv
  BY Zenon DEF ReplicationInv
<1>4. /\ store \in [Keys -> Nat] /\ \A k \in Keys : 1 <= store[k] /\ store[k] <= store[k]
  BY <1>3 DEF OwnerInv
<1>5. /\ repair' \in [Followers -> {"idle", "copy", "paused", "committed", "checkpointed", "released"}]
      /\ repair'[f] = "committed" /\ \A g \in Followers : g # f => repair'[g] = repair[g]
  BY <1>0, <1>3, SetOne, Zenon DEF CopyInv
<1>6. /\ frec' \in [Followers -> [Keys -> Nat]] /\ frec'[f] = store
      /\ \A g \in Followers : g # f => frec'[g] = frec[g]
  BY <1>0, <1>3, <1>4, SetOne, ZenonT(30) DEF CopyInv
<1>7. /\ fdedup' \in [Followers -> SUBSET Mutations] /\ \A m \in Mutations : rver[m] # 0 => m \in fdedup'[f]
      /\ \A g \in Followers : g # f => fdedup'[g] = fdedup[g]
  <2>1. PICK d : d = fdedup[f] \cup {m \in Mutations : rver[m] # 0}
    BY Zenon
  <2>2. d \in SUBSET Mutations /\ \A m \in Mutations : rver[m] # 0 => m \in d
    BY <1>3, <2>1, Zenon DEF CopyInv
  <2>3. fdedup' = [fdedup EXCEPT ![f] = d]
    BY <1>0, <2>1, Zenon
  <2> QED
    BY <1>3, <2>2, <2>3, SetOne, ZenonT(30) DEF CopyInv
<1>8. /\ \A k \in Keys : 1 <= frec'[f][k]
      /\ \A m \in Mutations : rver'[m] # 0 => rver'[m] <= frec'[f][KeyOf[m]] /\ m \in fdedup'[f]
  BY <1>1, <1>3, <1>4, <1>6, <1>7, Zenon DEF OwnerInv
<1>9. Complete(f, next - 1)' /\ Complete(f, applied[f])'
  BY <1>8, Zenon DEF Complete
<1>10. ASSUME NEW g \in Followers
       PROVE  /\ \A k \in Keys : frec'[g][k] <= store'[k]
              /\ repair'[g] \in {"paused", "committed", "checkpointed"} => paused'[g]
              /\ repair'[g] = "committed" => Complete(g, next - 1)'
              /\ repair'[g] \in {"checkpointed", "released"} \/ g \in admissions' => Complete(g, applied[g])'
  <2>1. CASE g = f
    BY <1>0, <1>1, <1>3, <1>4, <1>6, <1>9, <2>1, Zenon DEF CopyInv
  <2>2. CASE g # f
    <3>1. /\ \A k \in Keys : frec[g][k] <= store[k]
          /\ repair[g] \in {"paused", "committed", "checkpointed"} => paused[g]
          /\ repair[g] = "committed" => Complete(g, next - 1)
          /\ repair[g] \in {"checkpointed", "released"} \/ g \in admissions => Complete(g, applied[g])
      BY <1>3, Zenon DEF CopyInv
    <3>2. /\ repair'[g] = repair[g] /\ frec'[g] = frec[g] /\ fdedup'[g] = fdedup[g] /\ store' = store
          /\ paused' = paused /\ next' = next /\ rver' = rver /\ applied' = applied /\ admissions' = admissions
      BY <1>1, <1>5, <1>6, <1>7, <2>2, Zenon
    <3>3. (Complete(g, next - 1) => Complete(g, next - 1)') /\ (Complete(g, applied[g]) => Complete(g, applied[g])')
      BY <3>2, Zenon DEF Complete
    <3> QED
      BY <3>1, <3>2, <3>3, Zenon
  <2> QED
    BY <2>1, <2>2, Zenon
<1>11. paused' \in [Followers -> BOOLEAN]
  BY <1>1, <1>3, Zenon DEF CopyInv
<1>12. CopyInv'
  BY <1>5, <1>6, <1>7, <1>10, <1>11, Zenon DEF CopyInv
<1> QED
  BY <1>1, <1>2, <1>12, OwnerSame, StreamSame, AdmissionSame, CallSame, FollowerSame DEF ReplicationInv

LEMMA StepCheckpoint ==
    ASSUME ReplicationInv, NEW f \in Followers, InstallCheckpoint(f)
    PROVE  ReplicationInv'
<1>0. /\ repair[f] = "committed" /\ repair' = [repair EXCEPT ![f] = "checkpointed"]
      /\ applied' = [applied EXCEPT ![f] = Len(log[f])] /\ ckpt' = [ckpt EXCEPT ![f] = Len(log[f])]
      /\ UNCHANGED <<ownerData, streams, lease, paused, clients, fstate, frec, fdedup,
                     lastOwner, fps, admissions, faults>>
  BY Zenon DEF InstallCheckpoint
<1>1. /\ UNCHANGED <<required, store, next, rver, need, log>> /\ UNCHANGED <<head, failed, ack, sent, wire>>
      /\ UNCHANGED <<fstate, frec, fdedup, lastOwner, fps>> /\ UNCHANGED <<call, succeeded>>
      /\ UNCHANGED <<admitted, leased>> /\ UNCHANGED <<paused, admissions, faults>>
  BY <1>0, Zenon DEF ownerData, streams, clients, lease
<1>2. faults' \in 0..MaxFaults
  BY <1>1, FaultsBounded, Zenon DEF ReplicationInv
<1>3. OwnerInv /\ StreamInv /\ CopyInv /\ CallInv /\ FollowerInv
  BY Zenon DEF ReplicationInv
<1>4. Len(log[f]) = next - 1 /\ next \in Nat /\ 1 <= next
  BY <1>3, Zenon DEF OwnerInv
<1>5. PICK n \in Nat : n = Len(log[f]) /\ n = next - 1 /\ n < next
  BY <1>4
<1>6. applied \in [Followers -> Nat] /\ applied[f] < next
  BY <1>3, Zenon DEF StreamInv
<1>7. applied[f] <= n
  BY <1>5, <1>6, <1>4
<1>8. applied' \in [Followers -> Nat] /\ applied'[f] = n /\ \A g \in Followers : g # f => applied'[g] = applied[g]
  BY <1>0, <1>5, <1>6, SetOne, ZenonT(30)
<1>9. StreamInv'
  <2>1. /\ head' = head /\ ack' = ack /\ failed' = failed /\ sent' = sent /\ wire' = wire /\ next' = next
    BY <1>1, Zenon
  <2>2. /\ ack[f] \in Nat /\ ack[f] <= applied[f] /\ wire[f] \in Answers
        /\ wire[f].tag = "ok" => wire[f].seq <= applied[f]
    BY <1>3, Zenon DEF StreamInv
  <2>3. wire[f].seq \in Nat
    BY <2>2, AnswerShape, Zenon
  <2>4. ack[f] <= n /\ (wire[f].tag = "ok" => wire[f].seq <= n)
    BY <1>6, <1>7, <2>2, <2>3
  <2>5. /\ failed' \subseteq Followers /\ head' \in [Followers -> Nat] /\ ack' \in [Followers -> Nat]
        /\ sent' \in [Followers -> BOOLEAN] /\ wire' \in [Followers -> Answers] /\ head[f] < next
        /\ (sent[f] => head[f] + 1 < next) /\ (wire[f] # Idle => sent[f])
    BY <1>3, <2>1, Zenon DEF StreamInv
  <2>6. \A g \in Followers : g # f =>
           /\ head'[g] = head[g] /\ ack'[g] = ack[g] /\ applied'[g] = applied[g]
           /\ sent'[g] = sent[g] /\ wire'[g] = wire[g]
    BY <1>8, <2>1, Zenon
  <2>7. /\ applied'[f] < next /\ ack'[f] <= applied'[f] /\ head'[f] < next
        /\ (sent'[f] => head'[f] + 1 < next) /\ (wire'[f] # Idle => sent'[f])
        /\ (wire'[f].tag = "ok" => wire'[f].seq <= applied'[f])
    BY <1>5, <1>8, <2>1, <2>4, <2>5, Zenon
  <2> QED
    BY <1>3, <1>8, <2>1, <2>5, <2>6, <2>7, StreamMoves, Zenon
<1>10. /\ repair' \in [Followers -> {"idle", "copy", "paused", "committed", "checkpointed", "released"}]
       /\ repair'[f] = "checkpointed" /\ \A g \in Followers : g # f => repair'[g] = repair[g]
  BY <1>0, <1>3, SetOne, ZenonT(30) DEF CopyInv
<1>11. CopyInv'
  <2>0. /\ store' = store /\ paused' = paused /\ next' = next /\ rver' = rver /\ frec' = frec
        /\ fdedup' = fdedup /\ admissions' = admissions
    BY <1>1, Zenon
  <2>1. ASSUME NEW g \in Followers
        PROVE  /\ repair'[g] \in {"paused", "committed", "checkpointed"} => paused[g]
               /\ repair'[g] = "committed" => Complete(g, next - 1)'
               /\ repair'[g] \in {"checkpointed", "released"} \/ g \in admissions => Complete(g, applied[g])'
    <3>1. CASE g = f
      <4>1. paused[f] /\ Complete(f, n)
        BY <1>0, <1>3, <1>5, Zenon DEF CopyInv
      <4>2. Complete(f, applied[f])'
        BY <1>8, <2>0, <4>1, Zenon DEF Complete
      <4> QED
        BY <1>10, <3>1, <4>1, <4>2, Zenon
    <3>2. CASE g # f
      <4>1. /\ repair[g] \in {"paused", "committed", "checkpointed"} => paused[g]
            /\ repair[g] = "committed" => Complete(g, next - 1)
            /\ repair[g] \in {"checkpointed", "released"} \/ g \in admissions => Complete(g, applied[g])
        BY <1>3, Zenon DEF CopyInv
      <4>2. repair'[g] = repair[g] /\ applied'[g] = applied[g]
        BY <1>8, <1>10, <3>2, Zenon
      <4>3. (Complete(g, next - 1) => Complete(g, next - 1)') /\ (Complete(g, applied[g]) => Complete(g, applied[g])')
        BY <2>0, <4>2, Zenon DEF Complete
      <4> QED
        BY <4>1, <4>2, <4>3, Zenon
    <3> QED
      BY <3>1, <3>2, Zenon
  <2>2. /\ paused \in [Followers -> BOOLEAN] /\ frec \in [Followers -> [Keys -> Nat]]
        /\ fdedup \in [Followers -> SUBSET Mutations]
        /\ \A g \in Followers : \A k \in Keys : frec[g][k] <= store[k]
    BY <1>3, Zenon DEF CopyInv
  <2> QED
    BY <1>10, <2>0, <2>1, <2>2, Zenon DEF CopyInv
<1>12. CallInv'
  <2>1. ASSUME NEW m \in succeeded, NEW g \in required PROVE rver[m] <= applied'[g] + 1
    <3>1. rver[m] \in Nat /\ rver[m] <= applied[g] + 1 /\ applied[g] \in Nat /\ applied'[g] \in Nat
          /\ (applied'[g] = applied[g] \/ (applied'[g] = n /\ applied[g] <= n))
      BY <1>3, <1>6, <1>7, <1>8, RequiredFollow, Zenon DEF CallInv, OwnerInv
    <3> QED
      BY <3>1
  <2>2. /\ required' = required /\ rver' = rver /\ need' = need /\ call' = call
        /\ succeeded' = succeeded /\ admissions' = admissions
    BY <1>1, Zenon
  <2> QED
    BY <1>3, <2>1, <2>2 DEF CallInv
<1>13. FollowerInv'
  <2>1. ckpt' \in [Followers -> Nat]
    <3>1. ckpt' = [ckpt EXCEPT ![f] = n] /\ ckpt \in [Followers -> Nat]
      BY <1>0, <1>3, <1>5, Zenon DEF FollowerInv
    <3> QED
      BY <3>1, SetOne, Zenon
  <2> QED
    BY <1>1, <1>3, <2>1, Zenon DEF FollowerInv
<1> QED
  BY <1>1, <1>2, <1>9, <1>11, <1>12, <1>13, OwnerSame, AdmissionSame DEF ReplicationInv

LEMMA StepAdmit ==
    ASSUME ReplicationInv, NEW f \in Followers, StoreAdmission(f)
    PROVE  ReplicationInv'
<1>0. /\ repair[f] = "released" /\ repair' = [repair EXCEPT ![f] = "idle"]
      /\ admissions' = admissions \cup {f}
      /\ UNCHANGED <<ownerData, streams, lease, paused, clients, followers, faults>>
  BY Zenon DEF StoreAdmission
<1>1. /\ UNCHANGED <<required, store, next, rver, need, log>> /\ UNCHANGED <<head, failed, ack, sent, wire>>
      /\ UNCHANGED <<fstate, frec, fdedup, applied, ckpt, lastOwner, fps>> /\ UNCHANGED <<call, succeeded>>
      /\ UNCHANGED <<admitted, leased>> /\ UNCHANGED <<paused, faults>>
  BY <1>0, Zenon DEF ownerData, streams, clients, followers, lease
<1>2. CopyInv /\ CallInv /\ AdmissionInv /\ FollowerInv
  BY Zenon DEF ReplicationInv
<1>3. AdmissionInv'
  BY <1>0, <1>1, <1>2, Zenon DEF AdmissionInv
<1>4. CallInv'
  <2>1. /\ required' = required /\ rver' = rver /\ need' = need /\ call' = call
        /\ succeeded' = succeeded /\ applied' = applied
    BY <1>1, Zenon
  <2>2. \A m \in succeeded : rver[m] # 0 /\
           \A g \in required : g \in admissions' /\ rver[m] <= applied[g] + 1
    BY <1>0, <1>2, Zenon DEF CallInv
  <2> QED
    BY <1>2, <2>1, <2>2 DEF CallInv
<1>5. CopyInv'
  <2>0. /\ store' = store /\ paused' = paused /\ next' = next /\ rver' = rver /\ frec' = frec
        /\ fdedup' = fdedup /\ applied' = applied
    BY <1>1, Zenon
  <2>1. /\ repair' \in [Followers -> {"idle", "copy", "paused", "committed", "checkpointed", "released"}]
        /\ repair'[f] = "idle" /\ \A g \in Followers : g # f => repair'[g] = repair[g]
    BY <1>0, <1>2, SetOne, Zenon DEF CopyInv
  <2>2. ASSUME NEW g \in Followers
        PROVE  /\ repair'[g] \in {"paused", "committed", "checkpointed"} => paused[g]
               /\ repair'[g] = "committed" => Complete(g, next - 1)
               /\ repair'[g] \in {"checkpointed", "released"} \/ g \in admissions' => Complete(g, applied[g])
    BY <1>0, <1>2, <2>1, Zenon DEF CopyInv
  <2>3. ASSUME NEW g \in Followers
        PROVE  (Complete(g, next - 1) => Complete(g, next - 1)') /\ (Complete(g, applied[g]) => Complete(g, applied[g])')
    BY <2>0, Zenon DEF Complete
  <2>4. /\ paused \in [Followers -> BOOLEAN] /\ frec \in [Followers -> [Keys -> Nat]]
        /\ fdedup \in [Followers -> SUBSET Mutations]
        /\ \A g \in Followers : \A k \in Keys : frec[g][k] <= store[k]
    BY <1>2, Zenon DEF CopyInv
  <2> QED
    BY <2>0, <2>1, <2>2, <2>3, <2>4, Zenon DEF CopyInv
<1> QED
  BY <1>1, <1>3, <1>4, <1>5, OwnerSame, StreamSame, FollowerSame DEF ReplicationInv

-----------------------------------------------------------------------------
LEMMA ReplicationInit == Init => ReplicationInv
<1> SUFFICES ASSUME Init PROVE ReplicationInv
  OBVIOUS
<1>1. /\ required \in Policies /\ next = 1 /\ rver = [m \in Mutations |-> 0] /\ store = [k \in Keys |-> 1]
      /\ log = [f \in Followers |-> <<>>]
  BY Zenon DEF Init
<1>2. OwnerInv
  <2>1. \A f \in Followers : log[f] = <<>> /\ Len(log[f]) = 0
    BY <1>1
  <2>2. log \in [Followers -> Seq(Entries)]
    BY <1>1
  <2>3. /\ store \in [Keys -> Nat] /\ rver \in [Mutations -> Nat] /\ next \in Nat /\ 1 <= next /\ next - 1 = 0
        /\ \A k \in Keys : 1 <= store[k] /\ store[k] <= next
    BY <1>1
  <2>4. \A m \in Mutations : rver[m] = 0
    BY <1>1, Zenon
  <2>5. \A f \in Followers : \A i \in 1..(next - 1) : log[f][i].v = i + 1 /\ rver[log[f][i].m] = i + 1
    BY <2>3
  <2> QED
    BY <1>1, <2>1, <2>2, <2>3, <2>4, <2>5, Zenon DEF OwnerInv
<1>3. StreamInv
  <2>1. /\ \A f \in Followers : head[f] = 0 /\ ack[f] = 0 /\ applied[f] = 0 /\ wire[f] = Idle /\ ~sent[f]
        /\ failed = {}
    BY Zenon DEF Init
  <2>2. /\ head \in [Followers -> Nat] /\ ack \in [Followers -> Nat] /\ applied \in [Followers -> Nat]
    BY DEF Init
  <2>3. sent \in [Followers -> BOOLEAN] /\ wire \in [Followers -> Answers]
    BY AnswerShape, Zenon DEF Init
  <2>4. 0 < next /\ 0 <= 0
    BY <1>1
  <2>5. failed \subseteq Followers
    BY <2>1, Zenon
  <2>6. ASSUME NEW f \in Followers
        PROVE  /\ applied[f] < next /\ ack[f] <= applied[f] /\ head[f] < next
               /\ sent[f] => head[f] + 1 < next
               /\ wire[f] # Idle => sent[f]
               /\ wire[f].tag = "ok" => wire[f].seq <= applied[f]
    BY <2>1, <2>4, AnswerShape, ZenonT(30)
  <2> QED
    BY <2>2, <2>3, <2>5, <2>6, Zenon DEF StreamInv
<1>4. CopyInv
  <2>1. /\ \A f \in Followers : repair[f] = "idle" /\ \A k \in Keys : frec[f][k] = 0
        /\ admissions = {}
    BY Zenon DEF Init
  <2>2. frec \in [Followers -> [Keys -> Nat]]
    BY DEF Init
  <2>3. /\ paused \in [Followers -> BOOLEAN] /\ fdedup \in [Followers -> SUBSET Mutations]
        /\ repair \in [Followers -> {"idle", "copy", "paused", "committed", "checkpointed", "released"}]
    BY Zenon DEF Init
  <2>4. \A k \in Keys : 0 <= store[k]
    BY <1>1
  <2> QED
    BY <2>1, <2>2, <2>3, <2>4, Zenon DEF CopyInv
<1>5. AdmissionInv
  <2>1. 0 \in 0..MaxFaults
    BY ReplicationAssumption
  <2> QED
    BY <2>1, Zenon DEF Init, AdmissionInv
<1>6. CallInv
  <2>1. need \in [Mutations -> SUBSET (required \X Nat)] /\ \A m \in Mutations : need[m] = {} /\ rver[m] = 0
    BY <1>1, Zenon DEF Init
  <2>2. /\ call \in [Calls -> {"idle", "ready", "wait"}] /\ \A c \in Calls : call[c] # "wait"
        /\ succeeded = {}
    BY Zenon DEF Init
  <2> QED
    BY <2>1, <2>2, Zenon DEF CallInv
<1>7. FollowerInv
  <2>1. /\ ckpt \in [Followers -> Nat] /\ lastOwner \in [Followers -> Nat]
        /\ \A f \in Followers : lastOwner[f] <= next
    BY <1>1 DEF Init
  <2>2. fps \in [Followers -> SUBSET Nat]
    BY Zenon DEF Init
  <2>3. fstate \in [Followers -> {"old", "up", "dead"}]
    BY Zenon DEF Init
  <2> QED
    BY <2>1, <2>2, <2>3, Zenon DEF FollowerInv
<1> QED
  BY <1>2, <1>3, <1>4, <1>5, <1>6, <1>7, Zenon DEF ReplicationInv

LEMMA ReplicationStep == ReplicationInv /\ [Next]_vars => ReplicationInv'
<1> SUFFICES ASSUME ReplicationInv, [Next]_vars PROVE ReplicationInv'
  OBVIOUS
<1>1. ASSUME NEW c \in Calls, ClientStep(c) PROVE ReplicationInv'
  BY <1>1, StepCall, StepWrite, StepAck, Zenon DEF ClientStep
<1>2. ASSUME NEW f \in Followers,
             StreamStep(f) \/ RepairStep(f) \/ Timeout(f) \/ InterruptRepair(f) \/ Install(f) \/ Crash(f)
      PROVE  ReplicationInv'
  BY <1>2, StepWorker, StepDeliver, StepAttempt, StepCommit, StepCheckpoint, StepAdmit, StepState, Zenon
     DEF StreamStep, RepairStep
<1>3. CASE UNCHANGED vars
  <2>1. /\ UNCHANGED <<required, store, next, rver, need, log>> /\ UNCHANGED <<head, failed, ack, sent, wire>>
        /\ UNCHANGED <<fstate, frec, fdedup, applied, ckpt, lastOwner, fps>> /\ UNCHANGED <<call, succeeded>>
        /\ UNCHANGED <<admitted, leased>> /\ UNCHANGED <<paused, repair, admissions, faults>>
    BY <1>3, Zenon DEF vars
  <2>2. faults' \in 0..MaxFaults
    BY <2>1, FaultsBounded, Zenon DEF ReplicationInv
  <2> QED
    BY <2>1, <2>2, OwnerSame, StreamSame, CopySame, AdmissionSame, CallSame, FollowerSame DEF ReplicationInv
<1> QED
  BY <1>1, <1>2, <1>3, StepLease, Zenon DEF Next

LEMMA ReplicationInvariant == Spec => []ReplicationInv
BY ReplicationInit, ReplicationStep, PTL DEF Spec

(* A write that put or delete reported as successful is on every follower the policy
   names that still lives, with its receipt, whatever wait_required_acks raced with:
   answers lost and repeated, repairs that replace the copy, leases renewed late. *)
THEOREM AcknowledgedWritesSurvive == Spec => []AckedWritesSurvive
<1>1. ASSUME ReplicationInv PROVE AckedWritesSurvive
  <2> SUFFICES ASSUME NEW m \in succeeded, NEW f \in required
               PROVE  frec[f][KeyOf[m]] >= rver[m] /\ m \in fdedup[f]
    BY Zenon DEF AckedWritesSurvive
  <2>0. OwnerInv /\ CopyInv /\ CallInv
    BY <1>1, Zenon DEF ReplicationInv
  <2>1. m \in Mutations /\ rver[m] # 0 /\ f \in admissions /\ rver[m] <= applied[f] + 1 /\ f \in Followers
        /\ KeyOf[m] \in Keys
    BY <2>0, RequiredFollow, CallOf, Zenon DEF CallInv
  <2>2. rver[m] <= frec[f][KeyOf[m]] /\ m \in fdedup[f]
    BY <2>0, <2>1, Zenon DEF CopyInv, Complete
  <2>3. rver[m] \in Nat /\ frec[f][KeyOf[m]] \in Nat
    BY <2>0, <2>1, CopyBounds, Zenon DEF OwnerInv
  <2> QED
    BY <2>2, <2>3
<1> QED
  BY ReplicationInvariant, <1>1, PTL

(* A sequence is one over any set that holds its elements. *)
LEMMA InSeq ==
    ASSUME NEW S, NEW T, NEW s \in Seq(S), \A i \in 1..Len(s) : s[i] \in T
    PROVE  s \in Seq(T)
<1>1. s \in [1..Len(s) -> T] /\ Len(s) \in Nat
  OBVIOUS
<1> QED
  BY <1>1

(* The types of all variables follow. *)
LEMMA Typed == ReplicationInv => TypeOK
<1> SUFFICES ASSUME ReplicationInv PROVE TypeOK
  OBVIOUS
<1>0. OwnerInv /\ StreamInv /\ CopyInv /\ AdmissionInv /\ CallInv /\ FollowerInv
  BY Zenon DEF ReplicationInv
<1>1. store \in [Keys -> 1..next]
  <2>1. \A k \in Keys : store[k] \in 1..next
    BY <1>0 DEF OwnerInv
  <2> QED
    BY <1>0, <2>1, Zenon DEF OwnerInv
<1>2. rver \in [Mutations -> 0..next]
  <2>1. ASSUME NEW m \in Mutations PROVE rver[m] \in 0..next
    <3>1. rver[m] \in Nat /\ next \in Nat /\ (rver[m] = 0 \/ rver[m] <= next)
      BY <1>0, Zenon DEF OwnerInv
    <3> QED
      BY <3>1
  <2> QED
    BY <1>0, <2>1, Zenon DEF OwnerInv
<1>3. need \in [Mutations -> SUBSET (required \X (1..next))]
  <2>1. ASSUME NEW m \in Mutations PROVE need[m] \in SUBSET (required \X (1..next))
    <3>1. CASE need[m] = {}
      BY <3>1, Zenon
    <3>2. CASE need[m] # {}
      <4>1. rver[m] # 0 /\ need[m] = {<<f, rver[m] - 1>> : f \in required}
        BY <1>0, <3>2, Zenon DEF CallInv
      <4>2. rver[m] \in Nat /\ 2 <= rver[m] /\ rver[m] <= next /\ next \in Nat
        BY <1>0, <4>1, Zenon DEF OwnerInv
      <4>3. rver[m] - 1 \in 1..next
        BY <4>2
      <4> QED
        BY <4>1, <4>3
    <3> QED
      BY <3>1, <3>2, Zenon
  <2> QED
    BY <1>0, <2>1, Zenon DEF CallInv
<1>4. log \in [Followers -> Seq([m : Mutations, v : 2..next])]
  <2>1. ASSUME NEW f \in Followers PROVE log[f] \in Seq([m : Mutations, v : 2..next])
    <3>1. log[f] \in Seq(Entries) /\ Len(log[f]) = next - 1 /\ next \in Nat /\ 1 <= next
      BY <1>0, Zenon DEF OwnerInv
    <3>2. ASSUME NEW i \in 1..Len(log[f]) PROVE log[f][i] \in [m : Mutations, v : 2..next]
      <4>1. i \in Nat /\ 1 <= i /\ i < next
        BY <3>1
      <4>2. log[f][i].v = i + 1 /\ i + 1 \in 2..next
        BY <1>0, <3>1, <4>1 DEF OwnerInv
      <4>3. log[f][i] \in Entries
        BY <3>1
      <4> QED
        BY <4>2, <4>3 DEF Entries
    <3> QED
      BY <3>1, <3>2, InSeq
  <2> QED
    BY <1>0, <2>1, Zenon DEF OwnerInv
<1>5. frec \in [Followers -> [Keys -> 0..next]]
  <2>1. ASSUME NEW f \in Followers, NEW k \in Keys PROVE frec[f][k] \in 0..next
    <3>1. frec[f][k] \in Nat /\ store[k] \in Nat /\ frec[f][k] <= store[k]
      BY <1>0, CopyBounds, Zenon
    <3>2. store[k] <= next /\ next \in Nat
      BY <1>0, Zenon DEF OwnerInv
    <3> QED
      BY <3>1, <3>2
  <2>2. frec \in [Followers -> [Keys -> Nat]]
    BY <1>0, Zenon DEF CopyInv
  <2> QED
    BY <2>1, <2>2, Zenon
<1>6. lastOwner \in [Followers -> 0..next]
  <2>1. ASSUME NEW f \in Followers PROVE lastOwner[f] \in 0..next
    <3>1. lastOwner[f] \in Nat /\ lastOwner[f] <= next /\ next \in Nat
      BY <1>0, Zenon DEF FollowerInv, OwnerInv
    <3> QED
      BY <3>1
  <2> QED
    BY <1>0, <2>1, Zenon DEF FollowerInv
<1>7. /\ required \in Policies /\ next \in Nat
      /\ head \in [Followers -> Nat] /\ ack \in [Followers -> Nat]
      /\ failed \subseteq Followers /\ admitted \subseteq required
      /\ leased \in BOOLEAN /\ paused \in [Followers -> BOOLEAN]
      /\ call \in [Calls -> {"idle", "ready", "wait"}]
      /\ succeeded \subseteq Mutations
      /\ sent \in [Followers -> BOOLEAN]
      /\ wire \in [Followers -> Answers]
  BY <1>0, Zenon DEF OwnerInv, StreamInv, CopyInv, AdmissionInv, CallInv
<1>8. /\ fstate \in [Followers -> {"old", "up", "dead"}]
      /\ fdedup \in [Followers -> SUBSET Mutations]
      /\ applied \in [Followers -> Nat] /\ ckpt \in [Followers -> Nat]
      /\ fps \in [Followers -> SUBSET Nat]
      /\ repair \in [Followers -> {"idle", "copy", "paused", "committed", "checkpointed", "released"}]
      /\ admissions \subseteq Followers /\ faults \in 0..MaxFaults
  BY <1>0, Zenon DEF StreamInv, CopyInv, AdmissionInv, FollowerInv
<1> QED
  BY <1>1, <1>2, <1>3, <1>4, <1>5, <1>6, <1>7, <1>8, Zenon DEF TypeOK

(* A follower that seed_replica_group admitted holds what the owner had when the epoch
   began and every entry of its stream up to its applied sequence. *)
THEOREM AdmittedFollowersComplete == Spec => []AdmittedIsComplete
<1>1. ASSUME ReplicationInv PROVE AdmittedIsComplete
  <2>0. OwnerInv /\ StreamInv /\ CopyInv /\ AdmissionInv
    BY <1>1, Zenon DEF ReplicationInv
  <2>1. ASSUME NEW f \in admissions, NEW k \in Keys, NEW v \in Shipped(f, applied[f], k)
        PROVE  v <= frec[f][k]
    <3>0. f \in Followers /\ Complete(f, applied[f]) /\ applied[f] \in Nat /\ applied[f] < next /\ next \in Nat
      BY <2>0, Zenon DEF AdmissionInv, CopyInv, StreamInv, OwnerInv
    <3>1. CASE v = 1
      BY <3>0, <3>1, Zenon DEF Complete
    <3>2. CASE v # 1
      <4>1. PICK i \in 1..applied[f] : v = log[f][i].v /\ KeyOf[log[f][i].m] = k
        BY <2>1, <3>2, Zenon DEF Shipped
      <4>2. i \in Nat /\ 1 <= i /\ i < next /\ i + 1 # 0 /\ i + 1 <= applied[f] + 1
        BY <3>0, <4>1
      <4>3. PICK e : e = log[f][i]
        BY Zenon
      <4>4. e.m \in Mutations /\ e.v = i + 1 /\ rver[e.m] = i + 1
        BY <2>0, <3>0, <4>2, <4>3, NextEntry, Zenon
      <4>5. rver[e.m] <= frec[f][KeyOf[e.m]]
        BY <3>0, <4>2, <4>4, Zenon DEF Complete
      <4> QED
        BY <4>1, <4>3, <4>4, <4>5, Zenon
    <3> QED
      BY <3>1, <3>2, Zenon
  <2>2. \A f \in admissions : \A k \in Keys : frec[f][k] <= store[k]
    BY <2>0, Zenon DEF AdmissionInv, CopyInv
  <2> QED
    BY <1>1, <2>1, <2>2, Typed, Zenon DEF AdmittedIsComplete
<1> QED
  BY ReplicationInvariant, <1>1, PTL
=============================================================================

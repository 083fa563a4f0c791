---------------------------- MODULE ClientProofs ----------------------------
(***************************************************************************)
(* DefiniteMeansNotApplied and AppliedAtMostOnce of Client for any number  *)
(* of operations, attempts, topologies, keys and ticks.                    *)
(***************************************************************************)
EXTENDS Client, TLAPS, FiniteSetTheorems

(* A call is an attempt of an operation. *)
LEMMA CallShape ==
    /\ \A c \in Calls : /\ c[1] \in Ops /\ c[2] \in Nat \ {0}
                        /\ c[2] <= MaxAttempts[c[1]] /\ c = <<c[1], c[2]>>
    /\ \A o \in Ops : \A i \in 1..MaxAttempts[o] : <<o, i>> \in Calls
BY ClientAssumption DEF Calls

(* What actions do: a call is answered or bound; an operation goes on. *)
CallSet(c, a) == call' = [call EXCEPT ![c] = a]
OpSet(o, r) == op' = [op EXCEPT ![o] = r]
OpRecord == [pc : {"idle", "loop", "sent", "done"}, attempt : Nat, unknown : BOOLEAN,
             deadline : Nat, epoch : Nat, outcome : Outcomes]

LEMMA ShapeInit == Init => ShapeInv
<1> SUFFICES ASSUME Init PROVE ShapeInv
  BY Zenon
<1>1. op \in [Ops -> OpRecord]
  BY Zenon DEF Init, Outcomes, OpRecord
<1>2. \A c \in Calls : call[c] = Owner!Idle
  BY Zenon DEF Init
<1> QED
  BY <1>1, <1>2, CallShape, Zenon
     DEF Init, ShapeInv, OpRecord, Owner!Idle, Owner!Answer, Owner!Open

(* An answer is never a call that is still open. *)
LEMMA AnswerShape ==
    ASSUME ShapeInv, NEW c \in Calls, Owner!Reply(c)
    PROVE  \E a : /\ CallSet(c, a)
                  /\ \/ call[c].tag = "bound" /\ a.tag \in {"applied", "unknown"}
                     \/ call[c].tag # "bound" /\ a.tag \in Harmless
<1>1. PICK a \in Owner!Truthful(c) : call' = [call EXCEPT ![c] = a]
  BY Zenon DEF Owner!Reply
<1>2. CASE call[c].tag = "bound"
  <2>1. a.tag \in {"applied", "unknown"}
    BY <1>1, <1>2 DEF Owner!Truthful, Owner!Answer
  <2> QED BY <1>1, <1>2, <2>1, Zenon DEF CallSet
<1>3. CASE call[c].tag # "bound"
  <2>1. PICK t \in Harmless : a = Owner!Answer(t, Owner!NoVersion)
    BY <1>1, <1>3, Zenon DEF Owner!Truthful, Harmless
  <2>2. a.tag \in Harmless
    BY <2>1, Zenon DEF Owner!Answer
  <2> QED BY <1>1, <1>3, <2>2, Zenon DEF CallSet
<1> QED
  BY <1>2, <1>3, Zenon

(* A call that is under way belongs to an attempt that was made. *)
LEMMA CallUnderWay ==
    ASSUME ShapeInv, NEW c \in Calls, call[c] # Owner!Idle
    PROVE  c[2] <= op[c[1]].attempt /\ op[c[1]].pc # "idle"
BY CallShape DEF ShapeInv

LEMMA CallStep ==
    ASSUME ShapeInv, NEW c \in Calls, NEW a, CallSet(c, a), call[c] # Owner!Idle,
           a.tag \in Effective \cup Harmless,
           UNCHANGED <<req, now, ring, op>>, ever' \in {ever, ever \cup {c[1]}}
    PROVE  ShapeInv'
<1>1. \A d \in Calls : call'[d] = IF d = c THEN a ELSE call[d]
  BY Zenon DEF CallSet, ShapeInv
<1>2. DOMAIN call' = Calls
  BY Zenon DEF CallSet, ShapeInv
<1>3. a.tag \notin {"idle", "open"}
  BY Zenon DEF Effective, Harmless
<1>4. \A o \in Ops : op[o].pc = "idle" => o \notin ever'
  BY CallUnderWay DEF ShapeInv
<1>5. \A d \in Calls : d[2] > op[d[1]].attempt => call'[d] = Owner!Idle
  <2> SUFFICES ASSUME NEW d \in Calls, d[2] > op[d[1]].attempt
               PROVE  call'[d] = Owner!Idle
    BY Zenon
  <2>1. d # c
    BY CallUnderWay, CallShape, Zenon DEF ShapeInv
  <2> QED BY <1>1, <2>1, Zenon DEF ShapeInv
<1> QED
  BY <1>1, <1>2, <1>3, <1>4, <1>5, Zenon DEF ShapeInv, Current

LEMMA OpStep ==
    ASSUME ShapeInv, NEW o \in Ops, NEW r \in OpRecord, OpSet(o, r),
           r.pc # "idle", r.attempt = op[o].attempt, r.pc # "sent",
           r.pc # "done" => r.outcome = "none",
           UNCHANGED <<req, now, ring, ever, call>>
    PROVE  ShapeInv'
<1>1. op' \in [Ops -> OpRecord]
  BY Zenon DEF OpSet, ShapeInv, OpRecord
<1>2. \A p \in Ops : op'[p] = IF p = o THEN r ELSE op[p]
  BY Zenon DEF OpSet, ShapeInv
<1>3. \A c \in Calls : op'[c[1]].attempt = op[c[1]].attempt
  BY <1>2, CallShape, Zenon
<1>4. \A p \in Ops : /\ op'[p].pc = "idle" => op'[p].attempt = 0 /\ ~ op'[p].unknown /\ p \notin ever'
                     /\ op'[p].pc # "done" => op'[p].outcome = "none"
  BY <1>2, ZenonT(30) DEF ShapeInv
<1>5. \A p \in Ops : op'[p].pc = "sent" => Current(p)' \in Calls
  <2>1. ASSUME NEW p \in Ops, op'[p].pc = "sent" PROVE op'[p] = op[p]
    BY <1>2, <2>1, Zenon
  <2> QED BY <2>1, ZenonT(30) DEF ShapeInv, Current
<1>6. \A c \in Calls : c[2] > op'[c[1]].attempt => call'[c] = Owner!Idle
  BY <1>3, Zenon DEF ShapeInv
<1>7. /\ req' = [c \in Calls |-> OpRequest[c[1]]]
      /\ ring' \in Nat /\ now' \in Nat /\ DOMAIN call' = Calls
      /\ \A c \in Calls : call'[c] = Owner!Open \/ call'[c].tag # "open"
      /\ \A c \in Calls : call'[c] = Owner!Idle \/ call'[c].tag # "idle"
      /\ \A c \in Calls : call'[c].tag \in {"idle", "open"} \cup Effective \cup Harmless
  BY Zenon DEF ShapeInv
<1> QED
  BY <1>1, <1>4, <1>5, <1>6, <1>7, Zenon DEF ShapeInv, OpRecord

-----------------------------------------------------------------------------
(* Effects: what a call that goes on, or an operation that goes on, leaves true *)

LEMMA EffectOfCall ==
    ASSUME ShapeInv, EffectInv, NEW c \in Calls, NEW a, CallSet(c, a),
           call[c].tag \in {"open", "bound"}, a.tag \in Effective \cup Harmless,
           a.tag \in Harmless => call[c].tag = "open" /\ ever' = ever,
           UNCHANGED op, ever' \in {ever, ever \cup {c[1]}}
    PROVE  EffectInv'
<1>1. \A d \in Calls : call'[d] = IF d = c THEN a ELSE call[d]
  BY Zenon DEF CallSet, ShapeInv
<1>2. call[c] # Owner!Idle /\ call[c].tag \notin Harmless
  BY DEF Owner!Idle, Owner!Answer, Harmless
<1>3. c[1] \in Ops /\ c[2] <= op[c[1]].attempt /\ c[2] \in Nat /\ c = <<c[1], c[2]>>
  BY <1>2, CallUnderWay, CallShape, Zenon
<1>4. ~ Certain(c[1])
  BY <1>2, <1>3, Zenon DEF EffectInv
<1> SUFFICES ASSUME NEW o \in Ops
             PROVE  /\ Certain(o) =>
                          /\ o \notin ever'
                          /\ \A d \in Calls : d[1] = o /\ d[2] <= op[o].attempt
                                                => call'[d].tag \in Harmless
                    /\ op[o].pc = "sent" /\ ~ op[o].unknown =>
                          /\ o \in ever' => call'[Current(o)].tag \in Effective
                          /\ \A d \in Calls : d[1] = o /\ d[2] < op[o].attempt
                                                => call'[d].tag \in Harmless
  BY Zenon DEF EffectInv, Certain, Current
<1>5. CASE o # c[1]
  <2>1. \A d \in Calls : d[1] = o => call'[d] = call[d]
    BY <1>1, <1>5, Zenon
  <2>2. op[o].pc = "sent" => Current(o) \in Calls /\ Current(o)[1] = o
    BY Zenon DEF ShapeInv, Current
  <2>3. o \in ever' => o \in ever
    BY <1>5
  <2> QED BY <2>1, <2>2, <2>3, Zenon DEF EffectInv
<1>6. CASE o = c[1]
  <2> SUFFICES ASSUME op[o].pc = "sent", ~ op[o].unknown
               PROVE  /\ o \in ever' => call'[Current(o)].tag \in Effective
                      /\ \A d \in Calls : d[1] = o /\ d[2] < op[o].attempt
                                            => call'[d].tag \in Harmless
    BY <1>4, <1>6, Zenon
  <2>1. op[o].attempt \in Nat
    BY Zenon DEF ShapeInv
  <2>2. c = Current(o)
    <3>1. ~ (c[2] < op[o].attempt)
      BY <1>2, <1>6, Zenon DEF EffectInv
    <3>2. c[2] = op[o].attempt
      BY <1>3, <1>6, <2>1, <3>1
    <3> QED BY <1>3, <1>6, <3>2, Zenon DEF Current
  <2>3. \A d \in Calls : d[1] = o /\ d[2] < op[o].attempt => d # c
    BY <2>1, <2>2 DEF Current
  <2>4. a.tag \in Harmless => o \notin ever'
    BY <2>2, Zenon DEF EffectInv, Effective
  <2> QED BY <1>1, <2>2, <2>3, <2>4, Zenon DEF EffectInv
<1> QED BY <1>5, <1>6, Zenon

(* An operation may go on as certain if it was, or if its only doubtful attempt is
   answered without effect. *)
LEMMA EffectOfOp ==
    ASSUME ShapeInv, EffectInv, NEW o \in Ops, NEW r \in OpRecord, OpSet(o, r),
           r.pc \in {"loop", "done"}, r.attempt = op[o].attempt, UNCHANGED <<call, ever>>,
           (r.pc = "loop" /\ ~ r.unknown) \/ r.outcome \in {"rejected", "notApplied"}
              => \/ Certain(o)
                 \/ /\ op[o].pc = "sent" /\ ~ op[o].unknown
                    /\ call[Current(o)].tag \in Harmless
    PROVE  EffectInv'
<1>1. \A p \in Ops : op'[p] = IF p = o THEN r ELSE op[p]
  BY Zenon DEF OpSet, ShapeInv
<1>2. ASSUME NEW p \in Ops, p # o
      PROVE  (Certain(p)' <=> Certain(p)) /\ Current(p)' = Current(p) /\ op'[p] = op[p]
  BY <1>1, <1>2, Zenon DEF Certain, Current
<1>3. ASSUME Certain(o)'
      PROVE  /\ o \notin ever
             /\ \A c \in Calls : c[1] = o /\ c[2] <= op[o].attempt => call[c].tag \in Harmless
  <2>1. \/ Certain(o)
        \/ op[o].pc = "sent" /\ ~ op[o].unknown /\ call[Current(o)].tag \in Harmless
    BY <1>1, <1>3, Zenon DEF Certain
  <2>2. CASE Certain(o)
    BY <2>2, Zenon DEF EffectInv
  <2>3. CASE op[o].pc = "sent" /\ ~ op[o].unknown /\ call[Current(o)].tag \in Harmless
    <3>1. o \notin ever
      BY <2>3, Zenon DEF EffectInv, Effective, Harmless
    <3>2. \A c \in Calls : c[1] = o /\ c[2] <= op[o].attempt
                           => c = Current(o) \/ c[2] < op[o].attempt
      <4> SUFFICES ASSUME NEW c \in Calls, c[1] = o, c[2] <= op[o].attempt,
                          ~ (c[2] < op[o].attempt)
                   PROVE  c = Current(o)
        BY Zenon
      <4>1. op[o].attempt \in Nat /\ c[2] \in Nat /\ c = <<c[1], c[2]>>
        BY CallShape, Zenon DEF ShapeInv
      <4>2. c[2] = op[o].attempt
        BY <4>1
      <4> QED BY <4>1, <4>2, Zenon DEF Current
    <3> QED BY <2>3, <3>1, <3>2, Zenon DEF EffectInv
  <2> QED BY <2>1, <2>2, <2>3, Zenon
<1> QED
  BY <1>1, <1>2, <1>3, Zenon DEF EffectInv

LEMMA FinishShape ==
    ASSUME ShapeInv, NEW o \in Ops, NEW x \in Outcomes, Finish(o, x)
    PROVE  \E r \in OpRecord :
              /\ OpSet(o, r) /\ r.pc = "done" /\ r.attempt = op[o].attempt
              /\ r.unknown = op[o].unknown /\ r.outcome = x
              /\ r.deadline = op[o].deadline /\ r.epoch = op[o].epoch
<1> DEFINE r == [op[o] EXCEPT !.pc = "done", !.outcome = x]
<1>1. op[o] \in OpRecord
  BY Zenon DEF ShapeInv, OpRecord
<1>2. r \in OpRecord /\ r.pc = "done" /\ r.attempt = op[o].attempt
      /\ r.unknown = op[o].unknown /\ r.outcome = x
      /\ r.deadline = op[o].deadline /\ r.epoch = op[o].epoch
  BY <1>1, Zenon DEF OpRecord
<1>3. OpSet(o, r)
  BY Zenon DEF Finish, OpSet, ShapeInv
<1> QED BY <1>2, <1>3, Zenon

LEMMA AgainShape ==
    ASSUME ShapeInv, NEW o \in Ops, NEW u \in BOOLEAN, NEW e \in Refreshed(o),
           Again(o, u, e)
    PROVE  \E r \in OpRecord :
              /\ OpSet(o, r) /\ r.pc = "loop" /\ r.attempt = op[o].attempt
              /\ r.unknown = u /\ r.outcome = op[o].outcome
              /\ r.deadline = op[o].deadline /\ r.epoch = e
<1> DEFINE r == [op[o] EXCEPT !.pc = "loop", !.unknown = u, !.epoch = e]
<1>1. op[o] \in OpRecord /\ e \in Nat
  BY DEF ShapeInv, OpRecord, Refreshed
<1>2. r \in OpRecord /\ r.pc = "loop" /\ r.attempt = op[o].attempt
      /\ r.unknown = u /\ r.outcome = op[o].outcome
      /\ r.deadline = op[o].deadline /\ r.epoch = e
  BY <1>1, Zenon DEF OpRecord
<1>3. OpSet(o, r)
  BY Zenon DEF Again, OpSet, ShapeInv
<1> QED BY <1>2, <1>3, Zenon

LEMMA InvokeShape ==
    ASSUME ShapeInv, NEW o \in Ops, Invoke(o)
    PROVE  \E r \in OpRecord :
              /\ OpSet(o, r) /\ r.pc = "loop" /\ r.attempt = op[o].attempt
              /\ r.unknown = op[o].unknown /\ r.outcome = op[o].outcome
              /\ r.deadline = MutationDeadline /\ r.epoch = op[o].epoch
<1> DEFINE r == [op[o] EXCEPT !.pc = "loop", !.deadline = MutationDeadline]
<1>1. op[o] \in OpRecord /\ MutationDeadline \in Nat
  BY ClientAssumption DEF ShapeInv, OpRecord, MutationDeadline
<1>2. r \in OpRecord /\ r.pc = "loop" /\ r.attempt = op[o].attempt
      /\ r.unknown = op[o].unknown /\ r.outcome = op[o].outcome
      /\ r.deadline = MutationDeadline /\ r.epoch = op[o].epoch
  BY <1>1, Zenon DEF OpRecord
<1>3. OpSet(o, r)
  BY Zenon DEF Invoke, OpSet, ShapeInv
<1> QED BY <1>2, <1>3, Zenon

(* The next attempt opens a call of its own. *)
LEMMA AttemptShape ==
    ASSUME ShapeInv, NEW o \in Ops, Attempt(o)
    PROVE  \E r \in OpRecord :
              /\ OpSet(o, r) /\ r.pc = "sent" /\ r.attempt = op[o].attempt + 1
              /\ r.unknown = op[o].unknown /\ r.outcome = op[o].outcome
              /\ r.deadline = op[o].deadline /\ r.epoch = op[o].epoch
              /\ <<o, r.attempt>> \in Calls
              /\ CallSet(<<o, r.attempt>>, Owner!Open)
<1>1. op[o] \in OpRecord /\ op[o].attempt \in Nat /\ MaxAttempts[o] \in Nat
  BY ClientAssumption, Zenon DEF ShapeInv, OpRecord
<1> DEFINE i == op[o].attempt + 1
<1> DEFINE r == [op[o] EXCEPT !.pc = "sent", !.attempt = i]
<1>2. r \in OpRecord /\ r.pc = "sent" /\ r.attempt = i
      /\ r.unknown = op[o].unknown /\ r.outcome = op[o].outcome
      /\ r.deadline = op[o].deadline /\ r.epoch = op[o].epoch
  <2>1. i \in Nat
    BY <1>1
  <2> HIDE DEF i
  <2> QED BY <1>1, <2>1, Zenon DEF OpRecord
<1>3. OpSet(o, r)
  BY Zenon DEF Attempt, OpSet, ShapeInv
<1>4. op[o].attempt + 1 \in 1..MaxAttempts[o]
  BY <1>1 DEF Attempt
<1>5. <<o, r.attempt>> \in Calls
  BY <1>2, <1>4, CallShape, Zenon
<1>6. CallSet(<<o, r.attempt>>, Owner!Open)
  BY <1>2, Zenon DEF Attempt, Owner!Start, CallSet
<1> QED BY <1>2, <1>3, <1>5, <1>6, Zenon

LEMMA AttemptStep ==
    ASSUME ShapeInv, EffectInv, NEW o \in Ops, Attempt(o)
    PROVE  ShapeInv' /\ EffectInv'
<1>1. PICK r \in OpRecord :
              /\ OpSet(o, r) /\ r.pc = "sent" /\ r.attempt = op[o].attempt + 1
              /\ r.unknown = op[o].unknown /\ r.outcome = op[o].outcome
              /\ <<o, r.attempt>> \in Calls
              /\ CallSet(<<o, r.attempt>>, Owner!Open)
  BY AttemptShape, Zenon
<1> DEFINE n == <<o, r.attempt>>
<1>2. op[o].pc = "loop" /\ UNCHANGED <<req, now, ring, ever>>
  BY Zenon DEF Attempt, Owner!Start
<1>3. op[o].attempt \in Nat /\ op[o].outcome = "none"
  BY <1>2, Zenon DEF ShapeInv
<1>4. \A p \in Ops : op'[p] = IF p = o THEN r ELSE op[p]
  BY <1>1, Zenon DEF OpSet, ShapeInv
<1>5. op' \in [Ops -> OpRecord]
  BY <1>1, Zenon DEF OpSet, ShapeInv, OpRecord
<1>6. /\ DOMAIN call' = Calls
      /\ \A c \in Calls : call'[c] = IF c = n THEN Owner!Open ELSE call[c]
  BY <1>1, Zenon DEF CallSet, ShapeInv
<1>7. ShapeInv'
  <2>1. \A c \in Calls : c[2] > op'[c[1]].attempt => call'[c] = Owner!Idle
    <3> SUFFICES ASSUME NEW c \in Calls, c[2] > op'[c[1]].attempt
                 PROVE  call'[c] = Owner!Idle
      BY Zenon
    <3>1. c[1] \in Ops /\ c[2] \in Nat
      BY CallShape, Zenon
    <3>2. c # n
      BY <1>1, <1>3, <1>4
    <3>3. c[2] > op[c[1]].attempt
      BY <1>1, <1>3, <1>4, <3>1
    <3> QED BY <1>6, <3>2, <3>3, Zenon DEF ShapeInv
  <2>2. \A c \in Calls :
           /\ call'[c] = Owner!Open \/ call'[c].tag # "open"
           /\ call'[c] = Owner!Idle \/ call'[c].tag # "idle"
           /\ call'[c].tag \in {"idle", "open"} \cup Effective \cup Harmless
    BY <1>6 DEF ShapeInv, Owner!Open, Owner!Answer
  <2>3. \A p \in Ops : op'[p].pc = "sent" => <<p, op'[p].attempt>> \in Calls
    BY <1>1, <1>4, Zenon DEF ShapeInv, Current
  <2>4. \A p \in Ops : op'[p].pc = "idle" =>
           op'[p].attempt = 0 /\ ~ op'[p].unknown /\ p \notin ever'
    BY <1>1, <1>2, <1>4 DEF ShapeInv
  <2>5. \A p \in Ops : op'[p].pc # "done" => op'[p].outcome = "none"
    BY <1>1, <1>3, <1>4, ZenonT(30) DEF ShapeInv
  <2> QED
    BY <1>2, <1>5, <1>6, <2>1, <2>2, <2>3, <2>4, <2>5 DEF ShapeInv, OpRecord, Current
<1>8. EffectInv'
  <2>1. ASSUME NEW p \in Ops, p # o
        PROVE  /\ (Certain(p)' <=> Certain(p)) /\ op'[p] = op[p]
               /\ \A c \in Calls : c[1] = p => call'[c] = call[c]
               /\ op[p].pc = "sent" => call'[Current(p)'] = call[Current(p)]
    <3>1. op'[p] = op[p] /\ Current(p)' = Current(p)
      BY <1>4, <2>1, Zenon DEF Current
    <3>2. \A c \in Calls : c[1] = p => call'[c] = call[c]
      BY <1>6, <2>1
    <3>3. op[p].pc = "sent" => Current(p) \in Calls /\ Current(p)[1] = p
      BY Zenon DEF ShapeInv, Current
    <3> QED BY <3>1, <3>2, <3>3, Zenon DEF Certain
  <2>2. ~ Certain(o)'
    BY <1>1, <1>3, <1>4, Zenon DEF Certain
  <2>3. ASSUME ~ op[o].unknown
        PROVE  /\ o \notin ever
               /\ \A c \in Calls : c[1] = o /\ c[2] < r.attempt => call'[c].tag \in Harmless
    <3>1. Certain(o)
      BY <1>2, <2>3, Zenon DEF Certain
    <3>2. \A c \in Calls : c[1] = o /\ c[2] < r.attempt => c # n /\ c[2] <= op[o].attempt
      BY <1>1, <1>3, CallShape
    <3> QED BY <1>6, <3>1, <3>2, Zenon DEF EffectInv
  <2> QED
    BY <1>1, <1>2, <1>4, <2>1, <2>2, <2>3 DEF EffectInv
<1> QED BY <1>7, <1>8, Zenon

(* What the client makes of an answer, an error or a passed deadline *)
LEMMA ClientStep ==
    ASSUME ShapeInv, EffectInv, NEW o \in Ops,
           Invoke(o) \/ ConnectFails(o) \/ Receive(o) \/ RpcFails(o) \/ DeadlineExceeded(o)
    PROVE  ShapeInv' /\ EffectInv'
<1> DEFINE Sound(r) ==
      (r.pc = "loop" /\ ~ r.unknown) \/ r.outcome \in {"rejected", "notApplied"}
         => \/ Certain(o)
            \/ op[o].pc = "sent" /\ ~ op[o].unknown /\ call[Current(o)].tag \in Harmless
<1>1. UNCHANGED <<req, now, ring, ever, call>>
  BY Zenon DEF Invoke, ConnectFails, Receive, RpcFails, DeadlineExceeded, owner
<1>2. op[o].unknown \in BOOLEAN /\ (op[o].pc # "done" => op[o].outcome = "none")
  BY Zenon DEF ShapeInv
<1>3. ASSUME NEW x \in Outcomes, Finish(o, x), op[o].pc \in {"loop", "sent"},
             x \in {"rejected", "notApplied"}
                => \/ op[o].pc = "loop" /\ ~ op[o].unknown
                   \/ op[o].pc = "sent" /\ ~ op[o].unknown /\ call[Current(o)].tag \in Harmless
      PROVE  ShapeInv' /\ EffectInv'
  <2>1. PICK r \in OpRecord : /\ OpSet(o, r) /\ r.pc = "done" /\ r.attempt = op[o].attempt
                              /\ r.outcome = x
    BY <1>3, FinishShape, Zenon
  <2>2. Sound(r)
    BY <1>3, <2>1, Zenon DEF Certain
  <2>3. ShapeInv'
    BY <1>1, <2>1, OpStep, Zenon
  <2>4. EffectInv'
    BY <1>1, <2>1, <2>2, EffectOfOp, Zenon
  <2> QED BY <2>3, <2>4, Zenon
<1>4. ASSUME NEW u \in BOOLEAN, NEW e \in Refreshed(o), Again(o, u, e),
             op[o].pc \in {"loop", "sent"},
             ~ u => \/ op[o].pc = "loop" /\ ~ op[o].unknown
                    \/ op[o].pc = "sent" /\ ~ op[o].unknown /\ call[Current(o)].tag \in Harmless
      PROVE  ShapeInv' /\ EffectInv'
  <2>1. PICK r \in OpRecord : /\ OpSet(o, r) /\ r.pc = "loop" /\ r.attempt = op[o].attempt
                              /\ r.unknown = u /\ r.outcome = op[o].outcome
    BY <1>4, AgainShape
  <2>2. r.outcome = "none"
    BY <1>2, <1>4, <2>1, Zenon
  <2>3. Sound(r)
    BY <1>4, <2>1, <2>2, Zenon DEF Certain
  <2>4. ShapeInv'
    BY <1>1, <2>1, <2>2, OpStep, Zenon
  <2>5. EffectInv'
    BY <1>1, <2>1, <2>3, EffectOfOp, Zenon
  <2> QED BY <2>4, <2>5, Zenon
<1>4a. ASSUME NEW u \in BOOLEAN, NEW E \in SUBSET Refreshed(o), Retry(o, u, E),
             op[o].pc \in {"loop", "sent"},
             ~ u => \/ op[o].pc = "loop" /\ ~ op[o].unknown
                    \/ op[o].pc = "sent" /\ ~ op[o].unknown /\ call[Current(o)].tag \in Harmless
      PROVE  ShapeInv' /\ EffectInv'
  <2>1. CASE \E e \in E : Again(o, u, e)
    BY <1>4, <1>4a, <2>1, Zenon
  <2>2. CASE Finish(o, Failure(u))
    <3>1. /\ Failure(u) \in Outcomes /\ Failure(u) # "rejected"
          /\ Failure(u) = "notApplied" => ~ u
      BY Zenon DEF Failure, Outcomes
    <3> QED BY <1>3, <1>4a, <2>2, <3>1, Zenon
  <2> QED BY <1>4a, <2>1, <2>2, Zenon DEF Retry
<1>5. CASE Invoke(o)
  <2>1. PICK r \in OpRecord : /\ OpSet(o, r) /\ r.pc = "loop" /\ r.attempt = op[o].attempt
                              /\ r.unknown = op[o].unknown /\ r.outcome = op[o].outcome
    BY <1>5, InvokeShape, Zenon
  <2>2. op[o].pc = "idle" /\ ~ op[o].unknown /\ r.outcome = "none"
    BY <1>2, <1>5, <2>1, Zenon DEF Invoke, ShapeInv
  <2>3. Sound(r)
    BY <2>2, Zenon DEF Certain
  <2>4. ShapeInv'
    BY <1>1, <2>1, <2>2, OpStep, Zenon
  <2>5. EffectInv'
    BY <1>1, <2>1, <2>3, EffectOfOp, Zenon
  <2> QED BY <2>4, <2>5, Zenon
<1>6. CASE ConnectFails(o)
  BY <1>2, <1>4a, <1>6, Zenon DEF ConnectFails
<1>7. CASE Receive(o)
  <2> DEFINE t == call[Current(o)].tag
  <2>1. op[o].pc = "sent"
    BY <1>7, Zenon DEF Receive
  <2>2. CASE t = "applied" /\ Finish(o, "applied")
    BY <1>3, <2>1, <2>2, Zenon DEF Outcomes
  <2>3. CASE t \in {"condition", "missing"} /\ Finish(o, Rejected(o))
    <3>1. t \in Harmless
      BY <2>3, Zenon DEF Harmless
    <3>2. Rejected(o) \in Outcomes /\ (Rejected(o) = "rejected" => ~ op[o].unknown)
          /\ Rejected(o) # "notApplied"
      BY <1>2, Zenon DEF Rejected, Outcomes
    <3> QED BY <1>3, <2>1, <2>3, <3>1, <3>2, Zenon
  <2>4. CASE t = "conflict" /\ Finish(o, Failure(op[o].unknown))
    <3>1. t \in Harmless
      BY <2>4, Zenon DEF Harmless
    <3>2. /\ Failure(op[o].unknown) \in Outcomes /\ Failure(op[o].unknown) # "rejected"
          /\ Failure(op[o].unknown) = "notApplied" => ~ op[o].unknown
      BY <1>2, Zenon DEF Failure, Outcomes
    <3> QED BY <1>3, <2>1, <2>4, <3>1, <3>2, Zenon
  <2>5. CASE t = "unknown" /\ Retry(o, TRUE, Refreshed(o))
    BY <1>4a, <2>1, <2>5, Zenon
  <2>6. ASSUME NEW E \in SUBSET Refreshed(o), t = "refused", Retry(o, op[o].unknown, E)
        PROVE  ShapeInv' /\ EffectInv'
    <3>1. t \in Harmless
      BY <2>6, Zenon DEF Harmless
    <3> QED BY <1>2, <1>4a, <2>1, <2>6, <3>1, Zenon
  <2>7. {ring} \subseteq Refreshed(o)
    BY Zenon DEF Refreshed
  <2>8. CASE t = "refused" /\ Retry(o, op[o].unknown, IF ~ AtOwner(Current(o)) THEN {ring}
                                                     ELSE Refreshed(o))
    BY <2>6, <2>7, <2>8, Zenon
  <2> QED BY <1>7, <2>2, <2>3, <2>4, <2>5, <2>8, ZenonT(30) DEF Receive
<1>8. CASE RpcFails(o)
  <2>1. op[o].pc = "sent"
    BY <1>8, Zenon DEF RpcFails
  <2>2. PICK code \in StatusCodes :
           /\ code \in StatusMayHaveApplied \/ call[Current(o)].tag = "refused"
           /\ \/ Retry(o, AccumulatedWriteAmbiguity(op[o].unknown, code), Refreshed(o))
              \/ Finish(o, Failure(AccumulatedWriteAmbiguity(op[o].unknown, code)))
    BY <1>8, Zenon DEF RpcFails
  <2> DEFINE u == AccumulatedWriteAmbiguity(op[o].unknown, code)
  <2>3. u \in BOOLEAN /\ (~ u => ~ op[o].unknown /\ call[Current(o)].tag \in Harmless)
    BY <1>2, <2>2, Zenon DEF AccumulatedWriteAmbiguity, Harmless
  <2>4. Retry(o, u, Refreshed(o))
    BY <2>2, Zenon DEF Retry
  <2> HIDE DEF u
  <2> QED BY <1>4a, <2>1, <2>3, <2>4, Zenon
<1>9. CASE DeadlineExceeded(o)
  <2>1. CASE op[o].pc = "sent"
    BY <1>3, <1>9, <2>1, Zenon DEF DeadlineExceeded, Outcomes
  <2>2. CASE op[o].pc = "loop"
    <3>1. /\ Failure(op[o].unknown) \in Outcomes /\ Failure(op[o].unknown) # "rejected"
          /\ Failure(op[o].unknown) = "notApplied" => ~ op[o].unknown
      BY <1>2, Zenon DEF Failure, Outcomes
    <3> QED BY <1>3, <1>9, <2>2, <3>1, Zenon DEF DeadlineExceeded
  <2> QED BY <1>9, <2>1, <2>2, Zenon DEF DeadlineExceeded
<1> QED BY <1>5, <1>6, <1>7, <1>8, <1>9, Zenon

(* What the owner does with a call *)
LEMMA OwnerStep ==
    ASSUME ShapeInv, EffectInv, NEW c \in Calls, Handle(c) \/ Recall(c) \/ Reply(c)
    PROVE  ShapeInv' /\ EffectInv'
<1>1. UNCHANGED <<req, now, ring, op>>
  BY Zenon DEF Handle, Recall, Reply, Owner!TakeEffect, Owner!Recall, Owner!Reply
<1>2. CASE Handle(c) \/ Recall(c)
  <2>1. PICK v : CallSet(c, Owner!Bound(v))
    BY <1>2, ZenonT(30) DEF Handle, Recall, Owner!TakeEffect, Owner!Recall, CallSet
  <2>2. /\ call[c] = Owner!Open /\ ever' \in {ever, ever \cup {c[1]}}
    BY <1>2, Zenon DEF Handle, Recall, Owner!TakeEffect
  <2>3. /\ call[c] # Owner!Idle /\ call[c].tag = "open"
        /\ Owner!Bound(v).tag = "bound"
    BY <2>2 DEF Owner!Open, Owner!Idle, Owner!Bound, Owner!Answer
  <2>4. Owner!Bound(v).tag \in Effective /\ Owner!Bound(v).tag \notin Harmless
    BY <2>3, Zenon DEF Effective, Harmless
  <2>5. ShapeInv'
    BY <1>1, <2>1, <2>2, <2>3, <2>4, CallStep, Zenon
  <2>6. EffectInv'
    BY <1>1, <2>1, <2>2, <2>3, <2>4, EffectOfCall, Zenon
  <2> QED BY <2>5, <2>6, Zenon
<1>3. CASE Reply(c)
  <2>1. PICK a : /\ CallSet(c, a)
                 /\ \/ call[c].tag = "bound" /\ a.tag \in {"applied", "unknown"}
                    \/ call[c].tag # "bound" /\ a.tag \in Harmless
    BY <1>3, AnswerShape, Zenon DEF Reply
  <2>2. call[c] # Owner!Idle /\ call[c].tag \in {"open", "bound"} /\ ever' = ever
    BY <1>3, Zenon DEF Reply, Owner!Reply, ShapeInv
  <2>3. /\ a.tag \in Effective \cup Harmless
        /\ a.tag \in Harmless => call[c].tag = "open"
    BY <2>1, <2>2, Zenon DEF Effective, Harmless
  <2>4. ShapeInv'
    BY <1>1, <2>1, <2>2, <2>3, CallStep, Zenon
  <2>5. EffectInv'
    BY <1>1, <2>1, <2>2, <2>3, EffectOfCall, Zenon
  <2> QED BY <2>4, <2>5, Zenon
<1> QED BY <1>2, <1>3, Zenon

(* Topologies and time change no call and no operation. *)
LEMMA EnvironmentStep ==
    ASSUME ShapeInv, EffectInv, MoveRange \/ FailOver \/ Tick \/ UNCHANGED vars
    PROVE  ShapeInv' /\ EffectInv'
<1>1. UNCHANGED <<req, call, ever, op>>
  BY Zenon DEF MoveRange, FailOver, Tick, Owner!Pass, vars, owner
<1>2. ring' \in Nat /\ now' \in Nat
  BY DEF ShapeInv, MoveRange, FailOver, Tick, Owner!Pass, vars, owner
<1>3. ShapeInv'
  BY <1>1, <1>2, Zenon DEF ShapeInv, Current
<1>4. EffectInv'
  BY <1>1, Zenon DEF EffectInv, Certain, Current
<1> QED BY <1>3, <1>4, Zenon

LEMMA EffectInit == Init => EffectInv
<1> SUFFICES ASSUME Init, NEW o \in Ops
             PROVE  /\ op[o].pc # "sent" /\ o \notin ever
                    /\ \A c \in Calls : ~ (c[1] = o /\ c[2] <= op[o].attempt)
  BY Zenon DEF EffectInv
<1>1. op[o].pc = "idle" /\ op[o].attempt = 0 /\ ever = {}
  BY Zenon DEF Init
<1> QED BY <1>1, CallShape

LEMMA SafeStep == ShapeInv /\ EffectInv /\ [Next]_vars => ShapeInv' /\ EffectInv'
BY OwnerStep, ClientStep, AttemptStep, EnvironmentStep, Zenon DEF Next

(* What the client reports as rejected or as not applied took no effect and takes none
   later, for any number of operations, attempts, topologies and ticks, and although
   attempts are overtaken and ownership moves or fails over. *)
THEOREM DefiniteReports == Spec => []DefiniteMeansNotApplied
<1>1. Init => ShapeInv /\ EffectInv
  BY ShapeInit, EffectInit, Zenon
<1>2. ShapeInv /\ EffectInv => DefiniteMeansNotApplied
  BY Zenon DEF EffectInv, Certain, DefiniteMeansNotApplied
<1> QED BY <1>1, <1>2, SafeStep, PTL DEF Spec

-----------------------------------------------------------------------------
(* Receipts *)

(* Operations step by step: what happens to the loop of any operation. *)
LEMMA LoopStep ==
    ASSUME TypeOK, ShapeInv, NEW o \in Ops, NEW p \in Ops,
           Invoke(o) \/ Attempt(o) \/ ConnectFails(o) \/ Receive(o) \/ RpcFails(o)
              \/ DeadlineExceeded(o)
    PROVE  /\ op'[p].pc = "idle" => op[p].pc = "idle"
           /\ \/ op'[p].deadline = op[p].deadline
              \/ op[p].pc = "idle" /\ op'[p].deadline = MutationDeadline
           /\ op'[p].outcome \in Outcomes /\ op'[p].epoch \in 1..ring
           /\ op'[p].attempt \in 0..MaxAttempts[p]
<1> DEFINE Goal == /\ op'[p].pc = "idle" => op[p].pc = "idle"
                   /\ \/ op'[p].deadline = op[p].deadline
                      \/ op[p].pc = "idle" /\ op'[p].deadline = MutationDeadline
                   /\ op'[p].outcome \in Outcomes /\ op'[p].epoch \in 1..ring
                   /\ op'[p].attempt \in 0..MaxAttempts[p]
<1>1. ASSUME NEW r \in OpRecord, OpSet(o, r), r.pc # "idle", r.epoch \in {op[o].epoch, ring},
             \/ r.deadline = op[o].deadline
             \/ op[o].pc = "idle" /\ r.deadline = MutationDeadline,
             r.attempt \in 0..MaxAttempts[o]
      PROVE  Goal
  <2>1. op'[p] = IF p = o THEN r ELSE op[p]
    BY <1>1, Zenon DEF OpSet, ShapeInv
  <2>2. r.outcome \in Outcomes /\ r.epoch \in 1..ring
    BY <1>1 DEF OpRecord, TypeOK
  <2> QED BY <1>1, <2>1, <2>2, Zenon DEF TypeOK
<1>2. op[o].attempt \in 0..MaxAttempts[o]
  BY Zenon DEF TypeOK
<1>3. ASSUME NEW x \in Outcomes, Finish(o, x) PROVE Goal
  BY <1>1, <1>2, <1>3, FinishShape, Zenon
<1>4. ASSUME NEW u \in BOOLEAN, NEW e \in Refreshed(o), Again(o, u, e) PROVE Goal
  <2>1. e \in {op[o].epoch, ring}
    BY Zenon DEF Refreshed
  <2> QED BY <1>1, <1>2, <1>4, <2>1, AgainShape
<1>4a. ASSUME NEW u \in BOOLEAN, NEW E \in SUBSET Refreshed(o), Retry(o, u, E) PROVE Goal
  <2>1. Failure(u) \in Outcomes
    BY Zenon DEF Failure, Outcomes
  <2> QED BY <1>3, <1>4, <1>4a, <2>1, Zenon DEF Retry
<1>5. CASE Invoke(o)
  <2>1. op[o].pc = "idle"
    BY <1>5, Zenon DEF Invoke
  <2> QED BY <1>1, <1>2, <1>5, <2>1, InvokeShape, Zenon
<1>6. CASE Attempt(o)
  <2>1. op[o].attempt + 1 \in 0..MaxAttempts[o]
    BY <1>2, <1>6, ClientAssumption DEF Attempt
  <2> QED BY <1>1, <1>6, <2>1, AttemptShape, ZenonT(30)
<1>7. op[o].unknown \in BOOLEAN /\ {ring} \subseteq Refreshed(o)
  BY Zenon DEF ShapeInv, Refreshed
<1>8. CASE ConnectFails(o)
  BY <1>4a, <1>7, <1>8, Zenon DEF ConnectFails
<1>9. CASE Receive(o)
  <2>1. Rejected(o) \in Outcomes /\ Failure(op[o].unknown) \in Outcomes
    BY Zenon DEF Rejected, Failure, Outcomes
  <2>2. (IF ~ AtOwner(Current(o)) THEN {ring} ELSE Refreshed(o)) \in SUBSET Refreshed(o)
    BY <1>7, Zenon
  <2> QED BY <1>3, <1>4a, <1>7, <1>9, <2>1, <2>2, Zenon DEF Receive, Outcomes
<1>10. CASE RpcFails(o)
  <2>1. PICK code \in StatusCodes :
           \/ Retry(o, AccumulatedWriteAmbiguity(op[o].unknown, code), Refreshed(o))
           \/ Finish(o, Failure(AccumulatedWriteAmbiguity(op[o].unknown, code)))
    BY <1>10, Zenon DEF RpcFails
  <2>2. AccumulatedWriteAmbiguity(op[o].unknown, code) \in BOOLEAN
    BY <1>7, Zenon DEF AccumulatedWriteAmbiguity
  <2> QED BY <1>4a, <2>1, <2>2, Zenon DEF Retry
<1>11. CASE DeadlineExceeded(o)
  BY <1>3, <1>11, Zenon DEF DeadlineExceeded, Failure, Outcomes
<1> QED BY <1>5, <1>6, <1>8, <1>9, <1>10, <1>11, Zenon

(* A client's own steps leave receipts and versions alone. *)
LEMMA ReceiptOfClient ==
    ASSUME TypeOK, ShapeInv, ReceiptInv, NEW o \in Ops,
           Invoke(o) \/ Attempt(o) \/ ConnectFails(o) \/ Receive(o) \/ RpcFails(o)
              \/ DeadlineExceeded(o)
    PROVE  TypeOK' /\ ReceiptInv'
<1>1. UNCHANGED <<now, seq, receipt, vers, ring, ever>>
  BY ZenonT(30) DEF Invoke, Attempt, ConnectFails, Receive, RpcFails, DeadlineExceeded, owner, Owner!Start
<1>2. \A p \in Ops :
           /\ op'[p].pc = "idle" => op[p].pc = "idle"
           /\ \/ op'[p].deadline = op[p].deadline
              \/ op[p].pc = "idle" /\ op'[p].deadline = MutationDeadline
           /\ op'[p].outcome \in Outcomes /\ op'[p].epoch \in 1..ring
           /\ op'[p].attempt \in 0..MaxAttempts[p]
  BY LoopStep, Zenon
<1>3. MutationDeadline <= now + Retention
  BY ClientAssumption DEF MutationDeadline, ShapeInv
<1>4. TypeOK'
  BY <1>1, <1>2, Zenon DEF TypeOK
<1>5. ReceiptInv'
  BY <1>1, <1>2, <1>3, Zenon DEF ReceiptInv
<1> QED BY <1>4, <1>5, Zenon

Receipts == [req : Requests \cup {Owner!NoReceipt.req}, ver : Nat, until : Nat]

LEMMA IdShape == \A o \in Ops : IdOf(o) \in Owner!Ids
BY Zenon DEF IdOf, Owner!Ids, Requests

(* An attempt that takes effect before the deadline is the first to, and its receipt
   lasts to the deadline. *)
LEMMA ReceiptOfHandle ==
    ASSUME TypeOK, ShapeInv, ReceiptInv, NEW c \in Calls, Handle(c)
    PROVE  TypeOK' /\ ReceiptInv'
<1> DEFINE o == c[1]
<1> DEFINE new == [req |-> OpRequest[o], ver |-> seq + 1, until |-> now + Retention]
<1>1. o \in Ops /\ req[c] = OpRequest[o] /\ req[c].id = IdOf(o)
  BY CallShape, Zenon DEF ShapeInv, IdOf
<1>2. UNCHANGED <<now, ring, op>> /\ ever' = ever \cup {o} /\ seq' = seq + 1
  BY Zenon DEF Handle, Owner!TakeEffect
<1>3. /\ receipt[IdOf(o)] = Owner!NoReceipt
      /\ receipt' = [receipt EXCEPT ![IdOf(o)] = new]
      /\ vers' = [vers EXCEPT ![IdOf(o)] = @ \cup {seq + 1}]
  BY <1>1, <1>2, Zenon DEF Handle, Owner!TakeEffect
<1>4. op[o].pc # "idle"
  <2>1. call[c] # Owner!Idle
    BY DEF Handle, Owner!TakeEffect, Owner!Open, Owner!Idle, Owner!Answer
  <2> QED BY <2>1, CallUnderWay, ZenonT(30)
<1>5. now \in Nat /\ op[o].deadline \in Nat /\ seq \in Nat /\ Retention \in Nat
  BY <1>1, ClientAssumption, ZenonT(30) DEF ShapeInv, ReceiptInv
<1>6. now >= op[o].deadline \/ vers[IdOf(o)] = {}
  BY <1>1, <1>3, Zenon DEF ReceiptInv
<1>7. new \in Receipts /\ new # Owner!NoReceipt /\ new.until >= op[o].deadline
  <2>1. new.until >= op[o].deadline
    BY <1>1, <1>5, Zenon DEF ReceiptInv
  <2>2. new.ver # Owner!NoReceipt.ver
    BY <1>5 DEF Owner!NoReceipt, Owner!NoVersion
  <2>3. new \in Receipts
    BY <1>1, <1>5 DEF Receipts, Requests
  <2> QED BY <2>1, <2>2, <2>3, Zenon
<1>8. TypeOK'
  BY <1>1, <1>2, Zenon DEF TypeOK
<1>9. ReceiptInv'
  <2> HIDE DEF new
  <2>1. receipt \in [Owner!Ids -> Receipts] /\ DOMAIN vers = Owner!Ids
    BY Zenon DEF ReceiptInv, Receipts
  <2>2. receipt' \in [Owner!Ids -> Receipts] /\ DOMAIN vers' = Owner!Ids
    BY <1>3, <1>7, <2>1, Zenon
  <2>3. /\ receipt'[IdOf(o)] = new
        /\ vers[IdOf(o)] = {} => vers'[IdOf(o)] = {seq + 1}
    BY <1>1, <1>3, <2>1, IdShape, Zenon
  <2>4. \A p \in Ops : p # o =>
           receipt'[IdOf(p)] = receipt[IdOf(p)] /\ vers'[IdOf(p)] = vers[IdOf(p)]
    <3> SUFFICES ASSUME NEW p \in Ops, p # o
                 PROVE  receipt'[IdOf(p)] = receipt[IdOf(p)] /\ vers'[IdOf(p)] = vers[IdOf(p)]
      BY Zenon
    <3>1. IdOf(p) # IdOf(o)
      BY <1>1, ClientAssumption, Zenon DEF IdOf
    <3> QED BY <1>3, <2>1, <3>1, IdShape, Zenon
  <2>5. ASSUME NEW p \in Ops
        PROVE  /\ op[p].pc = "idle" => vers'[IdOf(p)] = {}
               /\ op[p].deadline <= now + Retention
               /\ \/ now >= op[p].deadline
                  \/ vers'[IdOf(p)] = {}
                  \/ /\ \E v \in 1..seq + 1 : vers'[IdOf(p)] = {v}
                     /\ receipt'[IdOf(p)] # Owner!NoReceipt
                     /\ receipt'[IdOf(p)].until >= op[p].deadline
    <3>1. CASE p = o
      <4>1. seq + 1 \in 1..seq + 1
        BY <1>5
      <4> QED BY <1>4, <1>6, <1>7, <2>3, <3>1, <4>1, Zenon DEF ReceiptInv
    <3>2. CASE p # o
      <4>1. \A v \in 1..seq : v \in 1..seq + 1
        BY <1>5
      <4> QED BY <2>4, <3>2, <4>1, Zenon DEF ReceiptInv
    <3> QED BY <3>1, <3>2, Zenon
  <2> QED BY <1>2, <1>5, <2>2, <2>5 DEF ReceiptInv, Receipts
<1> QED BY <1>8, <1>9, Zenon

(* A receipt lapses only when the deadline of its operation has passed. *)
LEMMA ReceiptOfTick ==
    ASSUME TypeOK, ShapeInv, ReceiptInv, Tick
    PROVE  TypeOK' /\ ReceiptInv'
<1>1. UNCHANGED <<ring, ever, op, seq, vers>> /\ now' = now + 1 /\ now < MaxNow
  BY Zenon DEF Tick, Owner!Pass
<1>2. receipt' = [i \in Owner!Ids |-> IF receipt[i].until <= now' THEN Owner!NoReceipt
                                      ELSE receipt[i]]
  BY Zenon DEF Tick, Owner!Pass
<1>3. Owner!NoReceipt \in Receipts
  BY Zenon DEF Receipts, Owner!NoReceipt, Owner!NoVersion
<1>4. receipt \in [Owner!Ids -> Receipts]
  BY Zenon DEF ReceiptInv, Receipts
<1>5. receipt' \in [Owner!Ids -> Receipts]
  BY <1>2, <1>3, <1>4, Zenon
<1>6. now \in Nat /\ Retention \in Nat
  BY ClientAssumption, Zenon DEF ShapeInv
<1>7. ASSUME NEW o \in Ops
      PROVE  /\ op[o].deadline <= now' + Retention
             /\ now >= op[o].deadline => now' >= op[o].deadline
             /\ receipt[IdOf(o)] # Owner!NoReceipt /\ receipt[IdOf(o)].until >= op[o].deadline
                   => \/ now' >= op[o].deadline
                      \/ /\ receipt'[IdOf(o)] # Owner!NoReceipt
                         /\ receipt'[IdOf(o)].until >= op[o].deadline
  <2>1. op[o].deadline \in Nat /\ receipt[IdOf(o)].until \in Nat
    BY <1>4, IdShape, Zenon DEF ShapeInv, Receipts
  <2>2. receipt'[IdOf(o)] = IF receipt[IdOf(o)].until <= now' THEN Owner!NoReceipt
                            ELSE receipt[IdOf(o)]
    BY <1>2, IdShape, Zenon
  <2>3. op[o].deadline <= now + Retention
    BY Zenon DEF ReceiptInv
  <2> QED BY <1>1, <1>6, <2>1, <2>2, <2>3
<1>8. TypeOK'
  BY <1>1, ClientAssumption DEF TypeOK
<1>9. ReceiptInv'
  BY <1>1, <1>5, <1>7, Zenon DEF ReceiptInv, Receipts
<1> QED BY <1>8, <1>9, Zenon

LEMMA ReceiptOfOther ==
    ASSUME TypeOK, ShapeInv, ReceiptInv,
           \/ \E c \in Calls : Recall(c) \/ Reply(c)
           \/ MoveRange \/ FailOver \/ UNCHANGED vars
    PROVE  TypeOK' /\ ReceiptInv'
<1>1. UNCHANGED <<now, ever, op, seq>>
  BY Zenon DEF Recall, Reply, Owner!Recall, Owner!Reply, MoveRange, FailOver, vars, owner
<1>2. ring' = ring \/ (ring < MaxEpoch /\ ring' = ring + 1)
  BY Zenon DEF Recall, Reply, MoveRange, FailOver, vars
<1>3. TypeOK'
  <2>1. ring' \in 1..MaxEpoch /\ \A e \in 1..ring : e \in 1..ring'
    BY <1>2, ClientAssumption DEF TypeOK
  <2> QED BY <1>1, <2>1, Zenon DEF TypeOK
<1>4. CASE UNCHANGED <<receipt, vers>>
  <2>1. ReceiptInv'
    BY <1>1, <1>4, Zenon DEF ReceiptInv
  <2> QED BY <1>3, <2>1, Zenon
<1>5. CASE FailOver
  <2>1. Owner!NoReceipt \in Receipts
    BY Zenon DEF Receipts, Owner!NoReceipt, Owner!NoVersion
  <2>2. receipt' \in [Owner!Ids -> Receipts] /\ DOMAIN vers' = Owner!Ids
    BY <1>5, <2>1, Zenon DEF FailOver
  <2>3. \A o \in Ops : vers'[IdOf(o)] = {}
    BY <1>5, IdShape, Zenon DEF FailOver
  <2>4. ReceiptInv'
    BY <1>1, <2>2, <2>3, Zenon DEF ReceiptInv, Receipts
  <2> QED BY <1>3, <2>4, Zenon
<1>6. FailOver \/ UNCHANGED <<receipt, vers>>
  BY Zenon DEF Recall, Reply, Owner!Recall, Owner!Reply, MoveRange, vars, owner
<1> QED BY <1>4, <1>5, <1>6, Zenon

LEMMA ReceiptInit == Init => TypeOK /\ ReceiptInv
<1> SUFFICES ASSUME Init PROVE TypeOK /\ ReceiptInv
  BY Zenon
<1>1. \A o \in Ops : /\ op[o].outcome = "none" /\ op[o].epoch = 1
                     /\ op[o].attempt = 0 /\ op[o].deadline = 0
  BY Zenon DEF Init
<1>2. TypeOK
  BY <1>1, ClientAssumption DEF Init, TypeOK, Outcomes
<1>3. Owner!NoReceipt \in Receipts
  BY Zenon DEF Receipts, Owner!NoReceipt, Owner!NoVersion
<1>4. receipt \in [Owner!Ids -> Receipts] /\ DOMAIN vers = Owner!Ids
  BY <1>3, Zenon DEF Init
<1>5. \A o \in Ops : vers[IdOf(o)] = {}
  BY IdShape, Zenon DEF Init
<1>6. now = 1 /\ seq = 0
  BY Zenon DEF Init
<1>7. ReceiptInv
  BY <1>1, <1>4, <1>5, <1>6, ClientAssumption DEF ReceiptInv, Receipts
<1> QED BY <1>2, <1>7, Zenon

LEMMA ClientInvStep == ClientInv /\ [Next]_vars => ClientInv'
<1> SUFFICES ASSUME ClientInv, [Next]_vars PROVE ClientInv'
  BY Zenon
<1>1. TypeOK /\ ShapeInv /\ EffectInv /\ ReceiptInv
  BY Zenon DEF ClientInv
<1>2. ShapeInv' /\ EffectInv'
  BY <1>1, SafeStep, Zenon
<1>3. TypeOK' /\ ReceiptInv'
  BY <1>1, ReceiptOfHandle, ReceiptOfClient, ReceiptOfTick, ReceiptOfOther, Zenon DEF Next
<1> QED BY <1>2, <1>3, Zenon DEF ClientInv

(* Until the deadline of an operation the surviving copy takes it at most once, for any
   number of operations, attempts, topologies and ticks and any timeout and retention:
   mutation_deadline ends with the life of the earliest receipt the operation can have. *)
THEOREM AtMostOnce == Spec => []AppliedAtMostOnce
<1>1. Init => ClientInv
  BY ShapeInit, EffectInit, ReceiptInit, Zenon DEF ClientInv
<1>2. ClientInv => AppliedAtMostOnce
  <2> SUFFICES ASSUME ClientInv, NEW o \in Ops, now < op[o].deadline
               PROVE  Cardinality(vers[IdOf(o)]) <= 1
    BY Zenon DEF ClientInv, AppliedAtMostOnce
  <2>1. ~ (now >= op[o].deadline)
    <3>1. now \in Nat /\ op[o].deadline \in Nat
      BY Zenon DEF ClientInv, ShapeInv
    <3> QED BY <3>1
  <2>2. vers[IdOf(o)] = {} \/ \E v : vers[IdOf(o)] = {v}
    BY <2>1, Zenon DEF ClientInv, ReceiptInv
  <2>3. CASE vers[IdOf(o)] = {}
    <3>1. Cardinality({}) = 0
      BY FS_EmptySet, Zenon
    <3> QED BY <2>3, <3>1
  <2>4. ASSUME NEW v, vers[IdOf(o)] = {v} PROVE Cardinality(vers[IdOf(o)]) <= 1
    <3>1. Cardinality({v}) = 1
      BY FS_Singleton, Zenon
    <3> QED BY <2>4, <3>1
  <2> QED BY <2>2, <2>3, <2>4, Zenon
<1> QED BY <1>1, <1>2, ClientInvStep, PTL DEF Spec
=============================================================================

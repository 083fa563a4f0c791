------------------------------- MODULE Client -------------------------------
(***************************************************************************)
(* The client's put, set_expiry and delete: the attempts of one operation  *)
(* under one mutation id, what it concludes from answers, errors and       *)
(* silence, and where it sends the next attempt.  The owner it talks to is *)
(* AtomicStore, which Store implements; calls may be lost, answered late,  *)
(* or overtaken by a later attempt.  Ownership moves with its receipts     *)
(* (RangeMigration), or fails over to a copy that lacks recent writes.     *)
(***************************************************************************)
EXTENDS Integers, FiniteSets

CONSTANTS
    Ops,               \* operations, each by a client of its own
    OpRequest,         \* [Ops -> request]; the id is the operation's own
    MaxAttempts,       \* [Ops -> Nat]: bound on the attempts of an operation
    OperationTimeout,  \* operation_timeout
    Retention,         \* receipt_retention
    Keys,
    MaxEpoch,          \* bound on topologies
    MaxNow             \* bound on the clock

ASSUME ClientAssumption ==
    /\ OperationTimeout \in Nat \ {0} /\ Retention \in Nat \ {0}
    /\ MaxAttempts \in [Ops -> Nat]
    /\ MaxEpoch \in Nat \ {0} /\ MaxNow \in Nat \ {0}
    /\ \A o, p \in Ops : OpRequest[o].id = OpRequest[p].id => o = p

Calls == UNION {{o} \X (1..MaxAttempts[o]) : o \in Ops}
Requests == {OpRequest[o] : o \in Ops}

VARIABLES
    \* the owner, as AtomicStore has it
    req, now, view, seq, receipt, vers, call,
    \* ownership
    ring,    \* committed epoch; the owner of the keys alternates
    ever,    \* operations that took effect, at an owner that is perhaps gone
    \* clients
    op,      \* the operation's loop
    sentTo   \* the epoch an attempt was routed by

owner == <<req, now, view, seq, receipt, vers, call>>
vars == <<owner, ring, ever, op, sentTo>>

Owner == INSTANCE AtomicStore

Unsent == 0

Init ==
    /\ req = [c \in Calls |-> OpRequest[c[1]]]
    /\ now = 1 /\ seq = 0
    /\ view = [k \in Keys |-> Owner!Missing]
    /\ receipt = [i \in Owner!Ids |-> Owner!NoReceipt]
    /\ vers = [i \in Owner!Ids |-> {}]
    /\ call = [c \in Calls |-> Owner!Idle]
    /\ ring = 1 /\ ever = {}
    /\ op = [o \in Ops |-> [pc |-> "idle", attempt |-> 0, unknown |-> FALSE,
                            deadline |-> 0, epoch |-> 1, outcome |-> "none"]]
    /\ sentTo = [c \in Calls |-> Unsent]

-----------------------------------------------------------------------------
(* The owner. *)

IdOf(o) == OpRequest[o].id
NodeAt(epoch) == epoch % 2
AtOwner(c) == NodeAt(sentTo[c]) = NodeAt(ring)

(* Only the current owner passes owner_error.  A request carries no deadline, and giving
   a call up need not reach the owner: an attempt may be handled at any later time. *)
Handle(c) ==
    /\ AtOwner(c)
    /\ Owner!TakeEffect(c)
    /\ ever' = ever \cup {c[1]}
    /\ UNCHANGED <<ring, op, sentTo>>

(* The receipt of an attempt that came before *)
Recall(c) ==
    /\ call[c] = Owner!Open /\ AtOwner(c)
    /\ Owner!Recall(c)
    /\ UNCHANGED <<ring, ever, op, sentTo>>

Reply(c) ==
    /\ call[c] # Owner!Idle
    /\ Owner!Reply(c)
    /\ AtOwner(c) \/ call'[c].tag \in {"refused", "unknown"}
    /\ UNCHANGED <<ring, ever, op, sentTo>>

(* A completed range migration: the records and receipts go with the range. *)
MoveRange ==
    /\ ring < MaxEpoch /\ ring' = ring + 1
    /\ UNCHANGED <<owner, ever, op, sentTo>>

(* A failed owner's range goes to a copy that had none of its recent writes, which
   OwnerOnly acknowledgement allows. *)
FailOver ==
    /\ ring < MaxEpoch /\ ring' = ring + 1
    /\ view' = [k \in Keys |-> Owner!Missing]
    /\ receipt' = [i \in Owner!Ids |-> Owner!NoReceipt]
    /\ vers' = [i \in Owner!Ids |-> {}]
    /\ UNCHANGED <<req, now, seq, call, ever, op, sentTo>>

Tick ==
    /\ now < MaxNow /\ Owner!Pass
    /\ UNCHANGED <<ring, ever, op, sentTo>>

-----------------------------------------------------------------------------
(* The client. *)

(* Mistake: retries go on for the whole operation timeout. *)
MutationDeadline_TimeoutOnly == now + OperationTimeout

(* mutation_deadline *)
MutationDeadline ==
    now + (IF OperationTimeout < Retention THEN OperationTimeout ELSE Retention)

Invoke(o) ==
    /\ op[o].pc = "idle" /\ MutationDeadline <= MaxNow
    /\ op' = [op EXCEPT ![o].pc = "loop", ![o].deadline = MutationDeadline]
    /\ UNCHANGED <<owner, ring, ever, sentTo>>

Current(o) == <<o, op[o].attempt>>

(* route by the cached topology, connect, and send *)
Attempt(o) ==
    LET c == <<o, op[o].attempt + 1>>
    IN  /\ op[o].pc = "loop" /\ now < op[o].deadline
        /\ op[o].attempt < MaxAttempts[o]
        /\ Owner!Start(c)
        /\ op' = [op EXCEPT ![o].pc = "sent", ![o].attempt = @ + 1]
        /\ sentTo' = [sentTo EXCEPT ![c] = op[o].epoch]
        /\ UNCHANGED <<ring, ever>>

Finish(o, outcome) ==
    op' = [op EXCEPT ![o].pc = "done", ![o].outcome = outcome]

(* A failure is reported with what is known about all of the attempts. *)
Failure(unknown) == IF unknown THEN "mayHaveApplied" ELSE "notApplied"

(* The next attempt, after a refresh that found epoch e. *)
Again(o, unknown, e) ==
    op' = [op EXCEPT ![o].pc = "loop", ![o].unknown = unknown, ![o].epoch = e]

(* refresh_after_unavailable and retry_code may leave the cache as it is. *)
Refreshed(o) == {op[o].epoch, ring}

(* A retry refreshes first, to one of the given epochs; a refresh that fails for good
   (TopologyRefresh) ends the operation. *)
Retry(o, unknown, epochs) ==
    \/ \E e \in epochs : Again(o, unknown, e)
    \/ Finish(o, Failure(unknown))

(* data_node_client fails: nothing was sent. *)
ConnectFails(o) ==
    /\ op[o].pc = "loop" /\ now < op[o].deadline
    /\ Retry(o, op[o].unknown, Refreshed(o))
    /\ UNCHANGED <<owner, ring, ever, sentTo>>

(* Mistake: only this answer counts when the owner rejects. *)
Rejected_ThisAnswerOnly(o) == "rejected"

(* condition_failed or key_missing: a rejection answers for its own attempt, and an
   earlier one may still be on its way. *)
Rejected(o) == IF op[o].unknown THEN "mayHaveApplied" ELSE "rejected"

(* A response.  handle_retryable refreshes to a newer epoch after Moved, and tries
   again after every retryable code; a refusal that is not retryable ends it. *)
Receive(o) ==
    LET a == call[Current(o)]
        moved == ~ AtOwner(Current(o))
    IN  /\ op[o].pc = "sent" /\ a.tag \notin {"open", "bound"}
        /\ \/ a.tag = "applied" /\ Finish(o, "applied")
           \/ a.tag \in {"condition", "missing"} /\ Finish(o, Rejected(o))
           \/ a.tag = "conflict" /\ Finish(o, Failure(op[o].unknown))
           \/ a.tag = "unknown" /\ Retry(o, TRUE, Refreshed(o))
           \/ a.tag = "refused" /\ Retry(o, op[o].unknown,
                                         IF moved THEN {ring} ELSE Refreshed(o))
        /\ UNCHANGED <<owner, ring, ever, sentTo>>

(* One status for each way a client treats them: retryable_status holds for Unavailable,
   status_may_have_applied for the first two. *)
StatusCodes == {"Unavailable", "Internal", "InvalidArgument"}
StatusMayHaveApplied == {"Unavailable", "Internal"}

(* accumulated_write_ambiguity *)
AccumulatedWriteAmbiguity(unknown, code) == unknown \/ code \in StatusMayHaveApplied

(* A status instead of a response.  The transport makes up the first two, wherever the
   attempt is by then; the others only a node that refused it sends. *)
RpcFails(o) ==
    /\ op[o].pc = "sent"
    /\ \E code \in StatusCodes :
          LET unknown == AccumulatedWriteAmbiguity(op[o].unknown, code)
          IN  /\ code \in StatusMayHaveApplied \/ call[Current(o)].tag = "refused"
              /\ IF code = "Unavailable" THEN Retry(o, unknown, Refreshed(o))
                 ELSE Finish(o, Failure(unknown))
    /\ UNCHANGED <<owner, ring, ever, sentTo>>

(* Mistake: the deadline is looked at only while a response is awaited. *)
DeadlineExceeded_WhileSent(o) ==
    /\ op[o].pc = "sent" /\ now >= op[o].deadline
    /\ Finish(o, "mayHaveApplied")
    /\ UNCHANGED <<owner, ring, ever, sentTo>>

(* remaining and the timeouts: an attempt that was sent may have applied. *)
DeadlineExceeded(o) ==
    /\ op[o].pc \in {"loop", "sent"} /\ now >= op[o].deadline
    /\ Finish(o, IF op[o].pc = "sent" THEN "mayHaveApplied" ELSE Failure(op[o].unknown))
    /\ UNCHANGED <<owner, ring, ever, sentTo>>

Next ==
    \/ \E c \in Calls : Handle(c) \/ Recall(c) \/ Reply(c)
    \/ \E o \in Ops :
          \/ Invoke(o) \/ Attempt(o) \/ ConnectFails(o) \/ Receive(o) \/ RpcFails(o)
          \/ DeadlineExceeded(o)
    \/ MoveRange \/ FailOver \/ Tick

Spec == Init /\ [][Next]_vars

(* Time passes, and the timers of a client fire. *)
FairSpec == Spec /\ WF_vars(Tick) /\ \A o \in Ops : WF_vars(DeadlineExceeded(o))

-----------------------------------------------------------------------------
(* Properties. *)

Outcomes == {"none", "applied", "rejected", "notApplied", "mayHaveApplied"}

TypeOK ==
    /\ ring \in 1..MaxEpoch /\ now \in 1..MaxNow /\ ever \subseteq Ops
    /\ \A o \in Ops : op[o].outcome \in Outcomes /\ op[o].epoch \in 1..ring
                      /\ op[o].attempt \in 0..MaxAttempts[o]

(* An operation that is reported as rejected or as not applied never takes effect:
   neither before the report nor after it, by an attempt that was overtaken, whether
   or not ownership moved or failed over in between. *)
DefiniteMeansNotApplied ==
    \A o \in Ops : op[o].outcome \in {"rejected", "notApplied"} => o \notin ever

(* Until its deadline, the surviving copy of the key takes an operation at most once,
   however often it is sent and wherever the range goes: the receipt of its effect
   lasts to the deadline, which is counted from before the first attempt.
   All variables keep their types. *)
AppliedAtMostOnce ==
    TypeOK /\ \A o \in Ops : now < op[o].deadline => Cardinality(vers[IdOf(o)]) <= 1

(* What docs/configuration.md promises of the receipt retention: "Clients stop retrying a
   mutation within it, so a retry cannot apply twice."  A retry that is handled after
   the deadline, when the receipt has lapsed, can. *)
RetryCannotApplyTwice == \A o \in Ops : Cardinality(vers[IdOf(o)]) <= 1

(* Every operation returns, whatever the network and the owner do: from some time on,
   each is done or will never begin. *)
OperationsReturn == <>[](\A o \in Ops : op[o].pc \in {"idle", "done"})

-----------------------------------------------------------------------------
(* The inductive invariant of ClientProofs. *)

Effective == {"bound", "applied", "unknown"}
Harmless == {"refused", "condition", "missing", "conflict"}

(* The shape of the state, and that of an operation before it begins *)
ShapeInv ==
    /\ req = [c \in Calls |-> OpRequest[c[1]]]
    /\ ring \in Nat /\ now \in Nat /\ DOMAIN call = Calls
    /\ \A c \in Calls : call[c] = Owner!Open \/ call[c].tag # "open"
    /\ \A c \in Calls : call[c] = Owner!Idle \/ call[c].tag # "idle"
    /\ \A c \in Calls : call[c].tag \in {"idle", "open"} \cup Effective \cup Harmless
    /\ op \in [Ops -> [pc : {"idle", "loop", "sent", "done"}, attempt : Nat,
                       unknown : BOOLEAN, deadline : Nat, epoch : Nat, outcome : Outcomes]]
    /\ \A o \in Ops : op[o].pc = "idle" =>
          op[o].attempt = 0 /\ ~ op[o].unknown /\ o \notin ever
    /\ \A o \in Ops : op[o].pc # "done" => op[o].outcome = "none"
    /\ \A o \in Ops : op[o].pc = "sent" => Current(o) \in Calls
    /\ \A c \in Calls : c[2] > op[c[1]].attempt => call[c] = Owner!Idle

(* Operations that know of no attempt with an open end *)
Certain(o) ==
    \/ op[o].pc \in {"idle", "loop"} /\ ~ op[o].unknown
    \/ op[o].outcome \in {"rejected", "notApplied"}

(* No attempt of such an operation had or will have an effect; while one is awaited,
   it is the only one that may. *)
EffectInv ==
    \A o \in Ops :
        /\ Certain(o) =>
              /\ o \notin ever
              /\ \A c \in Calls : c[1] = o /\ c[2] <= op[o].attempt => call[c].tag \in Harmless
        /\ op[o].pc = "sent" /\ ~ op[o].unknown =>
              /\ o \in ever => call[Current(o)].tag \in Effective
              /\ \A c \in Calls : c[1] = o /\ c[2] < op[o].attempt => call[c].tag \in Harmless

(* The receipt of an operation that took effect lasts to its deadline. *)
ReceiptInv ==
    /\ seq \in Nat /\ DOMAIN vers = Owner!Ids
    /\ receipt \in [Owner!Ids -> [req : Requests \cup {Owner!NoReceipt.req}, ver : Nat, until : Nat]]
    /\ \A o \in Ops :
          /\ op[o].pc = "idle" => vers[IdOf(o)] = {}
          /\ op[o].deadline <= now + Retention
          /\ \/ now >= op[o].deadline
             \/ vers[IdOf(o)] = {}
             \/ /\ \E v \in 1..seq : vers[IdOf(o)] = {v}
                /\ receipt[IdOf(o)] # Owner!NoReceipt
                /\ receipt[IdOf(o)].until >= op[o].deadline

ClientInv == TypeOK /\ ShapeInv /\ EffectInv /\ ReceiptInv
=============================================================================

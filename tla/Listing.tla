------------------------------- MODULE Listing -------------------------------
(***************************************************************************)
(* Listing keys while ownership moves and keys come and go: the page a     *)
(* node serves of the tokens it owns, the whole walk behind KEYS and       *)
(* DBSIZE, the search behind RANDOMKEY, and the token cursor of SCAN,      *)
(* which may be carried from one client to another.                        *)
(*                                                                         *)
(* A range moves as RangeMigration and Authority have it: the destination  *)
(* holds the range when the topology is published, nobody writes to it     *)
(* until every node has the topology, and only then does the source drop   *)
(* it.                                                                     *)
(***************************************************************************)
EXTENDS Integers, Sequences, FiniteSets

CONSTANTS
    Nodes,
    MaxToken,     \* u64::MAX
    Keys,
    TokenOf,      \* [Keys -> 0..MaxToken]
    Assignments,  \* a sequence: the {<<token, node>>} of each epoch
    Starts,       \* the tokens a search may start at
    Initially,    \* sets of keys the cluster may start with
    KeysPerPage,  \* max_keys of a page
    MaxExamined,  \* MAX_EXAMINED_PER_PAGE
    MaxWrites,    \* bound on writes while keys are listed
    MaxFailures   \* bound on failed calls and changes of client

ASSUME ListingAssumption ==
    /\ MaxToken \in Nat /\ TokenOf \in [Keys -> 0..MaxToken]
    /\ 0 \in Starts /\ Starts \subseteq 0..MaxToken
    /\ KeysPerPage \in Nat \ {0} /\ MaxExamined \in Nat \ {0, 1}
    /\ Assignments \in Seq(SUBSET ((0..MaxToken) \X Nodes)) /\ Assignments # <<>>
    /\ \A e \in DOMAIN Assignments : Assignments[e] # {}
          /\ \A a, b \in Assignments[e] : a[1] = b[1] => a = b

VARIABLES
    ring,      \* committed epoch
    active,    \* has every node installed it?
    inst,      \* [Nodes -> installed epoch]
    leased,    \* nodes with a lease for the epoch they have installed
    holds,     \* [Nodes -> [Keys -> "none", "live" or "dead"]]
    cached,    \* epoch of the client's topology
    op,        \* the listing
    stable,    \* history: keys live ever since the listing began
    ever,      \* history: keys live at some time since
    writes, failures

cluster == <<ring, active, inst, leased, holds>>
history == <<stable, ever>>
vars == <<ring, active, inst, leased, holds, cached, op, stable, ever, writes, failures>>

End == MaxToken + 1     \* next is None
Tokens(e) == {a[1] : a \in Assignments[e]}
At(e, t) == CHOOSE a \in Assignments[e] : a[1] = t
Least(S) == CHOOSE t \in S : \A u \in S : t <= u

(* owner_for_token: the first assignment at or after it, or the first of all *)
OwnerForToken(e, t) ==
    LET after == {u \in Tokens(e) : u >= t}
    IN  At(e, Least(IF after = {} THEN Tokens(e) ELSE after))[2]
OwnerTable ==
    [e \in DOMAIN Assignments |-> [t \in 0..MaxToken |-> OwnerForToken(e, t)]]
OwnerAt(e, t) == OwnerTable[e][t]
Owners(e) == {a[2] : a \in Assignments[e]}
Owner(e, k) == OwnerAt(e, TokenOf[k])

(* pos: where the next page of each owner starts; a search asks node, once more from
   the beginning if again, and then the owners in left *)
Idle == [pc |-> "idle", kind |-> "none", epoch |-> 0, pos |-> [n \in Nodes |-> 0],
         node |-> 0, again |-> FALSE, left |-> {}, seen |-> [k \in Keys |-> 0]]

Init ==
    /\ ring = 1 /\ active = TRUE /\ cached = 1
    /\ inst = [n \in Nodes |-> 1] /\ leased = Nodes
    /\ \E live \in Initially :
          holds = [n \in Nodes |-> [k \in Keys |->
                     IF n = Owner(1, k) /\ k \in live THEN "live" ELSE "none"]]
    /\ op = Idle /\ stable = {} /\ ever = {}
    /\ writes = 0 /\ failures = 0

LiveKeys == {k \in Keys : holds[Owner(ring, k)][k] = "live"}

-----------------------------------------------------------------------------
(* The cluster. *)

(* commit_destination_range: what n holds of k once it has taken its ranges over *)
HandedOver(n, k) ==
    IF n = Owner(ring + 1, k) THEN holds[Owner(ring, k)][k] ELSE holds[n][k]

(* The ranges that move are verified and committed, and the target is published. *)
Publish ==
    /\ active /\ ring < Len(Assignments)
    /\ ring' = ring + 1 /\ active' = FALSE
    /\ holds' = [n \in Nodes |-> [k \in Keys |-> HandedOver(n, k)]]
    /\ UNCHANGED <<inst, leased, cached, op, history, writes, failures>>

(* install_topology, or refresh_topology on behalf of a caller with a newer one *)
Install(n) ==
    /\ inst[n] < ring
    /\ inst' = [inst EXCEPT ![n] = ring] /\ leased' = leased \ {n}
    /\ UNCHANGED <<ring, active, holds, cached, op, history, writes, failures>>

Activate ==
    /\ ~ active /\ \A n \in Nodes : inst[n] = ring
    /\ active' = TRUE
    /\ UNCHANGED <<ring, inst, leased, holds, cached, op, history, writes, failures>>

RenewLease(n) ==
    /\ active /\ n \notin leased
    /\ leased' = leased \cup {n}
    /\ UNCHANGED <<ring, active, inst, holds, cached, op, history, writes, failures>>

CleanupWhen == active

(* cleanup_source_range *)
Cleanup(n) ==
    LET moved == {k \in Keys : Owner(ring, k) # n}
    IN  /\ CleanupWhen /\ \E k \in moved : holds[n][k] # "none"
        /\ holds' = [holds EXCEPT ![n] = [k \in Keys |-> IF k \in moved THEN "none" ELSE @[k]]]
        /\ UNCHANGED <<ring, active, inst, leased, cached, op, history, writes, failures>>

(* put and delete at the owner; a range that moved waits for the activation *)
Write(k, to) ==
    LET n == Owner(ring, k)
    IN  /\ writes < MaxWrites /\ n \in leased /\ holds[n][k] # to
        /\ ~ active => n = Owner(ring - 1, k)
        /\ holds' = [holds EXCEPT ![n][k] = to]
        /\ writes' = writes + 1
        /\ stable' = stable \ {k}
        /\ ever' = IF to = "live" THEN ever \cup {k} ELSE ever
        /\ UNCHANGED <<ring, active, inst, leased, cached, op, failures>>

-----------------------------------------------------------------------------
(* list_keys *)

(* What a page of node n's tokens from start on has examined before it comes to t *)
Begins(e, start, t) == t = start \/ t - 1 \in Tokens(e)
Segments(e, start, t) == {u \in start..t : Begins(e, start, u)}
Held(n, from, to) ==
    {k \in Keys : TokenOf[k] \in from..to /\ holds[n][k] # "none" /\ Owner(inst[n], k) = n}
LiveOf(n, K) == {k \in K : holds[n][k] = "live"}

(* Mistake: the token is charged before it is checked, the first one too. *)
Full_Charged(n, start, t, segments) ==
    Cardinality(segments) + Cardinality(Held(n, start, t)) >= MaxExamined

(* Checked before a token, never inside one *)
Full(n, start, t, segments) ==
    Cardinality(segments) + Cardinality(Held(n, start, t - 1)) >= MaxExamined
        \/ Cardinality(LiveOf(n, Held(n, start, t - 1))) >= KeysPerPage

(* Where owned_keys_page ends a page: between two segments or before a token that has
   records of its own when it is full, and, if it serves one stretch, where another
   node's segment begins *)
EndsAt(n, start, stretch, t) ==
    LET e == inst[n]
        segments == Segments(e, start, t)
        mine == OwnerAt(e, t) = n
    IN  \/ stretch /\ ~ mine /\ Begins(e, start, t)
        \/ Begins(e, start, t) /\ t # start
              /\ Cardinality(segments) - 1 + Cardinality(Held(n, start, t - 1)) >= MaxExamined
        \/ mine /\ Held(n, t, t) # {} /\ Full(n, start, t, segments)

(* The token the next page starts at *)
NextToken(n, start, stretch) ==
    Least({t \in start..MaxToken : EndsAt(n, start, stretch, t)} \cup {End})

Page(n, start, stretch) ==
    LET next == NextToken(n, start, stretch)
    IN  [keys |-> LiveOf(n, Held(n, start, next - 1)), next |-> next]

(* Mistake: a page of a walk is served whatever epoch the walk is at. *)
ServesWalk_AnyEpoch(n, epoch) == n \in leased

(* The checks of list_keys on a page of a walk at an epoch *)
ServesWalk(n, epoch) == inst[n] = epoch /\ n \in leased

(* Mistake: a node answers for a token it no longer owns. *)
ServesStretch_Unowned(n, token) == inst[n] >= cached /\ n \in leased

(* ... and on a stretch that starts at a token, after refresh_if_newer *)
ServesStretch(n, token) ==
    inst[n] >= cached /\ OwnerAt(inst[n], token) = n /\ n \in leased

-----------------------------------------------------------------------------
(* The client. *)

Refresh ==
    /\ cached # ring /\ cached' = ring
    /\ UNCHANGED <<cluster, op, history, writes, failures>>

(* walk, scan, or random_key from a random token, with the topology of an epoch; a
   search asks the owner of the token first, and the others in no particular order *)
Fresh(kind, start, epoch) ==
    LET first == OwnerAt(epoch, start)
        run == [Idle EXCEPT !.pc = "run", !.kind = kind, !.epoch = epoch]
    IN  IF kind # "random" THEN run
        ELSE [run EXCEPT !.pos = [n \in Nodes |-> start], !.node = first,
                         !.again = TRUE, !.left = Owners(epoch) \ {first}]

Begin(kind, start) ==
    /\ op.pc = "idle"
    /\ kind = "random" \/ start = 0
    /\ op' = Fresh(kind, start, cached)
    /\ stable' = LiveKeys /\ ever' = LiveKeys
    /\ UNCHANGED <<cluster, cached, writes, failures>>

(* The owners a walk or a search is waiting for *)
Asked ==
    CASE op.kind = "walk" -> {n \in Owners(op.epoch) : op.pos[n] # End}
      [] op.kind = "random" -> {op.node}
      [] OTHER -> {}

(* A node refuses a page: recover asks for a newer topology if the node has one, and
   the walk or search starts over. *)
StartOver(start) ==
    /\ op.pc = "run"
    /\ op.kind = "random" \/ start = 0
    /\ \E n \in Asked :
          /\ ~ ServesWalk(n, op.epoch)
          /\ cached' = IF inst[n] > cached THEN ring ELSE cached
    /\ op' = Fresh(op.kind, start, cached')
    /\ UNCHANGED <<cluster, history, writes, failures>>

(* A call that fails: a walk or a search starts over, a scan asks again, perhaps
   through a client with an older topology. *)
CallFails(start) ==
    /\ op.pc = "run" /\ failures < MaxFailures
    /\ failures' = failures + 1
    /\ \/ op.kind = "scan" /\ start = 0 /\ cached' \in 1..ring /\ op' = op
       \/ op.kind = "walk" /\ start = 0 /\ op' = Fresh("walk", 0, cached) /\ cached' = cached
       \/ op.kind = "random" /\ op' = Fresh("random", start, cached) /\ cached' = cached
    /\ UNCHANGED <<cluster, history, writes>>

WithKeys(page) == [k \in Keys |-> IF k \in page.keys THEN op.seen[k] + 1 ELSE op.seen[k]]

(* walk_owner: the owners are walked concurrently, each page by page. *)
WalkPage(n) ==
    /\ op.pc = "run" /\ op.kind = "walk"
    /\ n \in Owners(op.epoch) /\ op.pos[n] # End /\ ServesWalk(n, op.epoch)
    /\ UNCHANGED <<cluster, cached, history, writes, failures>>
    /\ \E page \in {Page(n, op.pos[n], FALSE)} :
          LET pos == [op.pos EXCEPT ![n] = page.next]
          IN  op' = [op EXCEPT
                !.pos = pos, !.seen = WithKeys(page),
                !.pc = IF \A m \in Owners(op.epoch) : pos[m] = End THEN "done" ELSE "run"]

(* A cursor of zero tells the caller that the scan is over. *)
Cursor(next) == IF next = End THEN 0 ELSE next

(* One page of scan, asked of the node the client takes for the owner of the cursor;
   the cursor is kept in pos of every node alike. *)
ScanPage(n) ==
    /\ op.pc = "run" /\ op.kind = "scan"
    /\ n = OwnerAt(cached, op.pos[n]) /\ ServesStretch(n, op.pos[n])
    /\ UNCHANGED <<cluster, cached, history, writes, failures>>
    /\ \E page \in {Page(n, op.pos[n], TRUE)} :
          LET cursor == Cursor(page.next)
          IN  op' = [op EXCEPT
                !.pos = [m \in Nodes |-> cursor], !.seen = WithKeys(page),
                !.pc = IF cursor = 0 THEN "done" ELSE "run"]

(* The search goes on to an owner it has not asked, from the random token on. *)
NextOwner ==
    IF op.left = {} THEN {[op EXCEPT !.pc = "done"]}
    ELSE {[op EXCEPT !.node = n, !.again = TRUE, !.left = @ \ {n}] : n \in op.left}

(* Mistake: an owner is asked from the random token on, and not from the beginning. *)
Searched_Onwards == NextOwner

(* After the last page of an owner's part, without a key: from the beginning, and then
   the next owner *)
Searched ==
    IF op.again THEN {[op EXCEPT !.again = FALSE, !.pos[op.node] = 0]} ELSE NextOwner

(* first_key: the first key found ends the search. *)
SearchPage ==
    /\ op.pc = "run" /\ op.kind = "random" /\ ServesWalk(op.node, op.epoch)
    /\ UNCHANGED <<cluster, cached, history, writes, failures>>
    /\ \E page \in {Page(op.node, op.pos[op.node], FALSE)} :
          op' \in IF page.keys # {}
                 THEN {[op EXCEPT !.pc = "done", !.seen[k] = 1] : k \in page.keys}
                 ELSE IF page.next = End THEN Searched
                 ELSE {[op EXCEPT !.pos[op.node] = page.next]}

Kinds == {"walk", "scan", "random"}

ClusterStep == Activate \/ \E n \in Nodes : Install(n) \/ RenewLease(n)
ClientStep ==
    Refresh \/ StartOver(0) \/ SearchPage \/ \E n \in Nodes : WalkPage(n) \/ ScanPage(n)

Next ==
    \/ Publish \/ ClusterStep \/ ClientStep
    \/ \E n \in Nodes : Cleanup(n)
    \/ \E k \in Keys, to \in {"live", "dead"} : Write(k, to)
    \/ \E t \in Starts :
          StartOver(t) \/ CallFails(t) \/ \E kind \in Kinds : Begin(kind, t)

Spec == Init /\ [][Next]_vars

(* Nodes install what is published and renew their leases, the client refreshes what
   a node refused, and calls are answered. *)
FairSpec == Spec /\ WF_vars(ClusterStep) /\ WF_vars(ClientStep)

-----------------------------------------------------------------------------
(* Properties. *)

TypeOK ==
    /\ ring \in DOMAIN Assignments /\ cached \in 1..ring
    /\ inst \in [Nodes -> 1..ring] /\ leased \subseteq Nodes
    /\ op.pc \in {"idle", "run", "done"} /\ stable \subseteq ever
    /\ \A n \in Nodes : op.pos[n] \in 0..End

(* A finished walk has seen every key that was live throughout it exactly once, and
   none that was never live, whatever moved while its pages were read (walk, list_keys:
   "a finished walk saw every key that was live throughout it exactly once").
   All variables keep their types. *)
WalkIsExact == TypeOK /\
    (op.pc = "done" /\ op.kind = "walk" =>
        /\ \A k \in stable : op.seen[k] = 1
        /\ \A k \in Keys \ ever : op.seen[k] = 0)

(* A finished scan has returned every key that was live throughout it exactly once,
   however the topology changed between its steps and whichever client continued it
   (scan, scan_reply). *)
ScanIsExact ==
    op.pc = "done" /\ op.kind = "scan" =>
        /\ \A k \in stable : op.seen[k] = 1
        /\ \A k \in Keys \ ever : op.seen[k] = 0

(* random_key finds a key that was live while it searched, and finds none only if no
   key was live throughout. *)
SearchIsTruthful ==
    op.pc = "done" /\ op.kind = "random" =>
        /\ {k \in Keys : op.seen[k] = 1} \subseteq ever
        /\ (\A k \in Keys : op.seen[k] = 0) => stable = {}

(* Every listing ends once the topology stands still, if its deadline leaves it the
   time: every page gets past the token it started at. *)
ListingEnds == op.pc = "run" ~> op.pc = "done"

-----------------------------------------------------------------------------
(* The inductive invariant of ListingProofs. *)

OpType ==
    [pc : {"idle", "run", "done"}, kind : Kinds \cup {"none"}, epoch : Nat,
     pos : [Nodes -> 0..End], node : Nodes \cup {0}, again : BOOLEAN,
     left : SUBSET Nodes, seen : [Keys -> Nat]]

ShapeInv ==
    /\ ring \in DOMAIN Assignments /\ cached \in 1..ring /\ active \in BOOLEAN
    /\ inst \in [Nodes -> 1..ring] /\ leased \subseteq Nodes
    /\ holds \in [Nodes -> [Keys -> {"none", "live", "dead"}]]
    /\ op \in OpType /\ stable \subseteq ever /\ ever \subseteq Keys
    /\ op.pc # "idle" => op.kind \in Kinds /\ op.epoch \in 1..ring

(* A node is at most one epoch behind, and until all have the new one both owners of
   a key hold the same of it. *)
MoveInv ==
    /\ \A n \in Nodes : inst[n] = ring \/ (~ active /\ inst[n] = ring - 1)
    /\ ~ active => /\ ring > 1
                   /\ \A k \in Keys : holds[Owner(ring - 1, k)][k] = holds[Owner(ring, k)][k]

HistoryInv ==
    op.pc # "idle" => \A k \in Keys :
        /\ k \in stable => holds[Owner(ring, k)][k] = "live"
        /\ holds[Owner(ring, k)][k] = "live" => k \in ever

Counted(k) ==
    /\ k \in stable => op.seen[k] = 1
    /\ k \notin ever => op.seen[k] = 0

(* Up to p, keys are counted, and from p on none was seen. *)
CountedTo(k, p) == IF TokenOf[k] < p THEN Counted(k) ELSE op.seen[k] = 0

WalkInv ==
    op.kind = "walk" =>
        /\ \A k \in Keys : CountedTo(k, op.pos[Owner(op.epoch, k)])
        /\ op.pc = "done" => \A n \in Owners(op.epoch) : op.pos[n] = End

ScanInv ==
    op.kind = "scan" =>
        /\ op.pc = "run" => \A n \in Nodes :
              op.pos[n] # End /\ \A k \in Keys : CountedTo(k, op.pos[n])
        /\ op.pc = "done" => \A k \in Keys : Counted(k)

(* No owner that was asked to the end holds a key that was live throughout. *)
SearchInv ==
    op.kind = "random" /\ op.pc = "run" =>
        /\ op.node \in Nodes /\ \A k \in Keys : op.seen[k] = 0
        /\ \A k \in stable :
              \/ Owner(op.epoch, k) \in op.left
              \/ /\ Owner(op.epoch, k) = op.node
                 /\ op.again \/ TokenOf[k] >= op.pos[op.node]

ListingInv ==
    /\ ShapeInv /\ MoveInv /\ HistoryInv
    /\ WalkInv /\ ScanInv /\ SearchInv /\ SearchIsTruthful
=============================================================================

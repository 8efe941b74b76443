----------------------------- MODULE TaskLease -----------------------------
(* The pure lease decisions of LoopX: who may hold a task lease, and what    *)
(* acquire, renew, transfer and release do to it.  The decisions read one    *)
(* coordination head and a clock sampled by the caller; they write nothing.  *)
(* The command module decides when to evaluate them and how the result       *)
(* reaches the authority store.                                              *)
(*                                                                           *)
(* A rejection is an outcome without its reason code: no caller branches on  *)
(* the code.  Write scopes are sets whose overlap is a shared element (the   *)
(* code compares path globs); all leases are in one repository, none uses an *)
(* isolated worktree, and the goal has no objective or acceptance contract.  *)
EXTENDS Integers

CONSTANTS
  Todos,          \* the goal's Todo ids
  Agents,         \* registered agents, the possible lease owners
  Keys,           \* idempotency keys: one per execution, also operation ids
  Scopes,         \* write scopes
  None,           \* JavaScript null
  MaxGeneration   \* Number.MAX_SAFE_INTEGER: the last version and epoch

ASSUME GenerationAssumption == MaxGeneration \in Nat \ {0}
ASSUME NoneAssumption == None \notin Agents \cup Keys \cup Todos \cup Int

HandoffModes == {"legacy", "soft_claim", "hard_lease"}

(* What a lease decision reads of a Todo: canonicalLeaseTodoFact.  "ready"   *)
(* says that todoExecutionDependencyRejection returns null for it; "waiting" *)
(* stands for the statuses that are neither open nor done.                   *)
TodoFact == [status : {"open", "waiting", "done"}, claimed_by : Agents \cup {None},
             excluded_agents : SUBSET Agents, ready : BOOLEAN]

Lease == [status : {"missing", "active", "released"},
          owner : Agents \cup {None}, idempotency_key : Keys \cup {None},
          version : 0..MaxGeneration, lease_epoch : 0..MaxGeneration,
          write_scopes : SUBSET Scopes, acquire_ttl_seconds : Nat,
          expires_at : Int]

NoLease == [status |-> "missing", owner |-> None, idempotency_key |-> None,
            version |-> 0, lease_epoch |-> 0, write_scopes |-> {},
            acquire_ttl_seconds |-> 0, expires_at |-> 0]

(* The coordination projection: the goal's mode, Todos and retained leases.  *)
Head == [handoff_mode : HandoffModes, todos : [Todos -> TodoFact],
         leases : [Todos -> Lease]]

Commands ==
  [kind : {"acquire", "renew", "transfer", "release", "set_mode"},
   todo_id : Todos \cup {None}, owner : Agents \cup {None}, idempotency_key : Keys,
   expected_version : 0..MaxGeneration \cup {None}, ttl_seconds : Nat,
   write_scopes : SUBSET Scopes, new_owner : Agents \cup {None},
   new_idempotency_key : Keys \cup {None}, transfer_claim : BOOLEAN,
   requested_mode : HandoffModes \cup {None}]

-----------------------------------------------------------------------------
leaseIsActive(lease, now) == lease.status = "active" /\ lease.expires_at > now

(* leaseOwnerRejection returns null. *)
OwnerEligible(todo, owner) ==
  /\ todo.status = "open"
  /\ owner \notin todo.excluded_agents
  /\ todo.claimed_by \in {None, owner}

(* The lease is in force: unexpired, and its owner may still execute. *)
Effective(head, t, now) ==
  /\ leaseIsActive(head.leases[t], now)
  /\ OwnerEligible(head.todos[t], head.leases[t].owner)

writeScopesOverlap(s, t) == s \cap t # {}

ScopeConflict(head, c, now) ==
  \E t \in Todos \ {c.todo_id} :
     Effective(head, t, now) /\ writeScopesOverlap(c.write_scopes, head.leases[t].write_scopes)

VersionMatches(head, c) ==
  c.expected_version \in {None, head.leases[c.todo_id].version}

AcquireAdmitted(head, c) ==
  /\ head.handoff_mode = "hard_lease"
  /\ OwnerEligible(head.todos[c.todo_id], c.owner)
  /\ VersionMatches(head, c)

(* decideTaskLeaseAcquire answers no_change: the caller already holds it. *)
AcquireReplays(head, c, now) ==
  LET lease == head.leases[c.todo_id] IN
  /\ AcquireAdmitted(head, c)
  /\ Effective(head, c.todo_id, now)
  /\ lease.owner = c.owner
  /\ lease.idempotency_key = c.idempotency_key
  /\ lease.write_scopes = c.write_scopes
  /\ lease.acquire_ttl_seconds = c.ttl_seconds

(* Mutant: the version fence alone stands for the holder check. *)
AcquireApplies_OverLiveLease(head, c, now) ==
  LET lease == head.leases[c.todo_id] IN
  /\ AcquireAdmitted(head, c)
  /\ lease.idempotency_key # c.idempotency_key
  /\ ~ScopeConflict(head, c, now)
  /\ lease.version < MaxGeneration
  /\ lease.lease_epoch < MaxGeneration

(* decideTaskLeaseAcquire answers apply: a new generation begins. *)
AcquireApplies(head, c, now) ==
  LET lease == head.leases[c.todo_id] IN
  /\ AcquireAdmitted(head, c)
  /\ ~Effective(head, c.todo_id, now)
  /\ lease.idempotency_key # c.idempotency_key
  /\ ~ScopeConflict(head, c, now)
  /\ lease.version < MaxGeneration
  /\ lease.lease_epoch < MaxGeneration

(* Mutant: the new generation restarts the version count. *)
materializeTaskLeaseAcquire_RestartsVersion(lease, c, now) ==
  [status |-> "active", owner |-> c.owner, idempotency_key |-> c.idempotency_key,
   version |-> 1, lease_epoch |-> lease.lease_epoch + 1,
   write_scopes |-> c.write_scopes, acquire_ttl_seconds |-> c.ttl_seconds,
   expires_at |-> now + c.ttl_seconds]

materializeTaskLeaseAcquire(lease, c, now) ==
  [status |-> "active", owner |-> c.owner, idempotency_key |-> c.idempotency_key,
   version |-> lease.version + 1, lease_epoch |-> lease.lease_epoch + 1,
   write_scopes |-> c.write_scopes, acquire_ttl_seconds |-> c.ttl_seconds,
   expires_at |-> now + c.ttl_seconds]

-----------------------------------------------------------------------------
HoldsLease(lease, c) ==
  lease.owner = c.owner /\ lease.idempotency_key = c.idempotency_key

(* Release needs the exact version and holder, never a live lease. *)
ReleaseReplays(head, c) ==
  LET lease == head.leases[c.todo_id] IN
  /\ lease.version = c.expected_version
  /\ \/ lease.status = "missing"
     \/ HoldsLease(lease, c) /\ lease.status = "released"

ReleaseApplies(head, c) ==
  LET lease == head.leases[c.todo_id] IN
  /\ lease.version = c.expected_version
  /\ lease.status = "active"
  /\ HoldsLease(lease, c)

(* planLeaseClaimTransfer accepts: the Todo claim moves with the lease. *)
ClaimTransferPlanned(head, c) ==
  LET todo == head.todos[c.todo_id] IN
  /\ head.handoff_mode = "hard_lease"
  /\ todo.status = "open"
  /\ todo.claimed_by = c.owner
  /\ {c.owner, c.new_owner} \cap todo.excluded_agents = {}

(* The Todo as the lifecycle decision sees it. *)
ClaimedTodo(head, c) ==
  IF c.kind = "transfer" /\ c.transfer_claim
  THEN [head.todos[c.todo_id] EXCEPT !.claimed_by = c.new_owner]
  ELSE head.todos[c.todo_id]

RenewApplies(head, c, now) ==
  LET lease == head.leases[c.todo_id] IN
  /\ head.handoff_mode = "hard_lease"
  /\ OwnerEligible(head.todos[c.todo_id], c.owner)
  /\ lease.version = c.expected_version
  /\ leaseIsActive(lease, now)
  /\ HoldsLease(lease, c)
  /\ lease.version < MaxGeneration

TransferApplies(head, c, now) ==
  LET lease == head.leases[c.todo_id] IN
  /\ c.transfer_claim => ClaimTransferPlanned(head, c)
  /\ head.handoff_mode = "hard_lease"
  /\ OwnerEligible(ClaimedTodo(head, c), c.new_owner)
  /\ lease.version = c.expected_version
  /\ leaseIsActive(lease, now)
  /\ HoldsLease(lease, c)
  /\ c.new_idempotency_key # c.idempotency_key
  /\ lease.version < MaxGeneration
  /\ lease.lease_epoch < MaxGeneration

materializeTaskLeaseLifecycle(lease, c, now) ==
  IF c.kind = "release" THEN [lease EXCEPT !.status = "released"]
  ELSE LET renewed == [lease EXCEPT !.version = @ + 1, !.expires_at = now + c.ttl_seconds] IN
       IF c.kind = "renew" THEN renewed
       ELSE [renewed EXCEPT !.owner = c.new_owner, !.idempotency_key = c.new_idempotency_key,
                            !.lease_epoch = @ + 1]

-----------------------------------------------------------------------------
(* Mutant: only claims hold a mode switch back. *)
Quiescent_ClaimsOnly(head, now) ==
  \A t \in Todos : ~(head.todos[t].status # "done" /\ head.todos[t].claimed_by # None)

(* handoffQuiescence: no unfinished Todo is claimed and no lease is unexpired. *)
Quiescent(head, now) ==
  \A t \in Todos :
     /\ ~(head.todos[t].status # "done" /\ head.todos[t].claimed_by # None)
     /\ ~leaseIsActive(head.leases[t], now)

decideHandoffMode(head, requested, now) ==
  /\ requested # "legacy"
  /\ head.handoff_mode = requested \/ Quiescent(head, now)
=============================================================================

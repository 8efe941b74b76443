--------------------------- MODULE LeaseCommands ---------------------------
(* The canonical coordination commands over one goal's authority store:      *)
(* lease acquire, renew, transfer, release and handoff-mode set.  A command  *)
(* is a process that awaits the store at every step, so any number of them   *)
(* interleave.  Each one looks for its own receipt, loads the head, looks    *)
(* for the receipt again, decides on the loaded head, commits with the       *)
(* loaded revision, reads its receipt back and, where execution rights are   *)
(* answered, proves them against a freshly loaded head.                      *)
(*                                                                           *)
(* The store is the contract of module AuthorityStore, one atomic step per   *)
(* call: a revision that counts commits (the chain of revisions never        *)
(* repeats), the head, and one receipt per committed operation id.           *)
EXTENDS TaskLease

CONSTANTS
  Procs,         \* command executions that may be in flight together
  Requests,      \* the commands that callers send
  InitialHeads,  \* heads before the first lease
  TodoFacts,     \* the Todo facts the other canonical writers produce
  MaxCommands,   \* bound: executions started
  MaxTodoWrites, \* bound: writes by the other canonical writers
  MaxClock       \* bound: the last clock value

ASSUME RequestsAssumption ==
  /\ Requests \subseteq Commands
  /\ \A c \in Requests :
       /\ c.kind # "set_mode" => c.todo_id \in Todos /\ c.owner \in Agents
       /\ c.kind = "transfer" => c.new_owner \in Agents /\ c.new_idempotency_key \in Keys
       /\ c.kind = "set_mode" => c.requested_mode \in HandoffModes
ASSUME HeadsAssumption ==
  /\ TodoFacts \subseteq TodoFact
  /\ InitialHeads \subseteq {h \in Head : h.leases = [t \in Todos |-> NoLease]}
ASSUME SnapshotAssumption == None \notin [revision : Nat, head : Head]
ASSUME BoundsAssumption == {MaxCommands, MaxTodoWrites, MaxClock} \subseteq Nat

VARIABLES
  clock,       \* real time
  revision,    \* the store's provider revision, as a count of commits
  head,        \* the committed projection
  receipts,    \* the committed receipts
  execution,   \* each command execution's local state
  answer,      \* the last answer a caller got, and whether its commit took effect
  grants,      \* ghost: leases answered as current execution rights
  issued,      \* bound counter of executions
  todoWrites   \* bound counter of foreign writes

store == <<revision, head, receipts>>
vars == <<clock, store, execution, answer, grants, issued, todoWrites>>

Statuses == {"success", "denied", "rejected", "unavailable", "ambiguous", "failed"}

(* pc: where the execution awaits the store.  now: the clock it sampled at   *)
(* its start.  loaded: its last loadAuthority.  committed: the status its    *)
(* commitAuthority answered.  wrote: ghost, whether that commit took effect. *)
Idle == [pc |-> "idle", command |-> None, now |-> 0, loaded |-> None,
         committed |-> "none", wrote |-> FALSE]

NoAnswer == [status |-> "none", wrote |-> FALSE]

Execution ==
  [pc : {"read", "load", "observe", "commit", "readback", "proof"},
   command : Requests, now : 0..MaxClock,
   loaded : [revision : Nat, head : Head] \cup {None},
   committed : {"none", "applied", "conflict", "ambiguous", "failed"},
   wrote : BOOLEAN]

(* One operation id per execution identity.  Acquire leaves the version out, *)
(* the lifecycle commands leave the target and the TTL out: the receipt's    *)
(* request digest is what tells two requests under one id apart.             *)
OperationId(c) ==
  <<c.kind, c.todo_id, c.owner, c.idempotency_key,
    IF c.kind \in {"renew", "transfer", "release"} THEN c.expected_version ELSE None>>

(* What a receipt or a grant pins of a lease. *)
Generation(t, lease) ==
  [todo_id |-> t, owner |-> lease.owner, idempotency_key |-> lease.idempotency_key,
   version |-> lease.version, lease_epoch |-> lease.lease_epoch]

Generations ==
  [todo_id : Todos, owner : Agents \cup {None}, idempotency_key : Keys \cup {None},
   version : 0..MaxGeneration, lease_epoch : 0..MaxGeneration]

Found(c) == {r \in receipts : r.operation_id = OperationId(c)}

TypeOK ==
  /\ clock \in 0..MaxClock
  /\ revision \in Nat
  /\ head \in Head
  /\ receipts \subseteq [operation_id : {OperationId(c) : c \in Requests},
                         request : Requests, cursor : Nat,
                         lease : Generations \cup {None}]
  /\ execution \in [Procs -> Execution \cup {Idle}]
  /\ \A p \in Procs : execution[p].pc = "commit" => execution[p].loaded # None
  /\ answer \in [status : Statuses \cup {"none"}, wrote : BOOLEAN]
  /\ grants \subseteq Generations
  /\ issued \in 0..MaxCommands
  /\ todoWrites \in 0..MaxTodoWrites

Init ==
  /\ clock = 0
  /\ revision = 1
  /\ head \in InitialHeads
  /\ receipts = {}
  /\ execution = [p \in Procs |-> Idle]
  /\ answer = NoAnswer
  /\ grants = {}
  /\ issued = 0
  /\ todoWrites = 0

-----------------------------------------------------------------------------
(* Step helpers: the execution awaits its next store call, or ends. *)
Await(p, point) ==
  /\ execution' = [execution EXCEPT ![p].pc = point]
  /\ UNCHANGED answer

Answer(p, status) ==
  /\ execution' = [execution EXCEPT ![p] = Idle]
  /\ answer' = [status |-> status, wrote |-> execution[p].wrote]

AwaitProof(p) ==
  /\ execution' = [execution EXCEPT ![p].pc = "proof", ![p].loaded = None,
                                    ![p].committed = "none"]
  /\ UNCHANGED answer

(* A receipt decides the command; it proves history, not current rights, so  *)
(* commands whose success claims execution rights prove them afterwards.     *)
AnswerFromReceipt(p, r) ==
  LET c == execution[p].command IN
  \/ r.request # c /\ Answer(p, "failed")
  \/ r.request = c /\ c.kind \in {"acquire", "renew", "transfer"} /\ AwaitProof(p)
  \/ r.request = c /\ c.kind \in {"release", "set_mode"} /\ Answer(p, "success")

RetiredModeRequested(c) == c.kind = "set_mode" /\ c.requested_mode = "legacy"

-----------------------------------------------------------------------------
(* A caller starts a command; it may repeat one that is still in flight. *)
Start(p, c) ==
  /\ execution[p] = Idle
  /\ issued < MaxCommands
  /\ issued' = issued + 1
  /\ execution' = [execution EXCEPT ![p] =
       [pc |-> "read", command |-> c, now |-> clock, loaded |-> None,
        committed |-> "none", wrote |-> FALSE]]
  /\ answer' = NoAnswer
  /\ UNCHANGED <<clock, store, grants, todoWrites>>

(* CoordinationCommandReceipt.read before anything is decided. *)
ReadReceipt(p) ==
  LET c == execution[p].command IN
  /\ execution[p].pc = "read"
  /\ \/ \E r \in Found(c) : AnswerFromReceipt(p, r)
     \/ Found(c) = {} /\ ~RetiredModeRequested(c) /\ Await(p, "load")
     \/ Found(c) = {} /\ RetiredModeRequested(c) /\ Answer(p, "rejected")
     \/ Answer(p, "unavailable")
  /\ UNCHANGED <<clock, store, grants, issued, todoWrites>>

(* loadAuthority succeeds.  Handoff-mode set decides at once; the lease      *)
(* commands look for their receipt again before they interpret the head.     *)
LoadAuthority(p) ==
  /\ execution[p].pc = "load"
  /\ execution' = [execution EXCEPT
       ![p].loaded = [revision |-> revision, head |-> head],
       ![p].pc = IF execution[p].command.kind = "set_mode" THEN "commit" ELSE "observe"]
  /\ UNCHANGED <<clock, store, answer, grants, issued, todoWrites>>

(* loadAuthority fails: a lease command still looks for its receipt. *)
LoadUnavailable(p) ==
  /\ execution[p].pc = "load"
  /\ \/ execution[p].command.kind = "set_mode" /\ Answer(p, "unavailable")
     \/ execution[p].command.kind # "set_mode" /\ Await(p, "observe")
  /\ UNCHANGED <<clock, store, grants, issued, todoWrites>>

(* Mutant: an unavailable head is interpreted. *)
Observe_IgnoresUnavailableHead(p) ==
  LET c == execution[p].command IN
  /\ execution[p].pc = "observe"
  /\ \/ \E r \in Found(c) : AnswerFromReceipt(p, r)
     \/ Found(c) = {} /\ Await(p, "commit")
     \/ Answer(p, "unavailable")
  /\ UNCHANGED <<clock, store, grants, issued, todoWrites>>

(* The second receipt lookup of CoordinationCommandReceipt.observe. *)
Observe(p) ==
  LET c == execution[p].command IN
  /\ execution[p].pc = "observe"
  /\ \/ \E r \in Found(c) : AnswerFromReceipt(p, r)
     \/ Found(c) = {} /\ execution[p].loaded # None /\ Await(p, "commit")
     \/ Answer(p, "unavailable")
  /\ UNCHANGED <<clock, store, grants, issued, todoWrites>>

-----------------------------------------------------------------------------
(* The decision on the loaded head: an accepted command either changes it or *)
(* only seals its identity.                                                  *)
Replays(h, c, now) ==
  \/ c.kind = "acquire" /\ AcquireReplays(h, c, now) /\ h.todos[c.todo_id].ready
  \/ c.kind = "release" /\ ReleaseReplays(h, c)
  \/ c.kind = "set_mode" /\ h.handoff_mode = c.requested_mode

Applies(h, c, now) ==
  \/ c.kind = "acquire" /\ AcquireApplies(h, c, now) /\ h.todos[c.todo_id].ready
  \/ c.kind = "renew" /\ RenewApplies(h, c, now) /\ h.todos[c.todo_id].ready
  \/ c.kind = "transfer" /\ TransferApplies(h, c, now) /\ h.todos[c.todo_id].ready
  \/ c.kind = "release" /\ ReleaseApplies(h, c)
  \/ c.kind = "set_mode" /\ h.handoff_mode # c.requested_mode
                         /\ decideHandoffMode(h, c.requested_mode, now)

NextLease(h, c, now) ==
  IF c.kind = "acquire" THEN materializeTaskLeaseAcquire(h.leases[c.todo_id], c, now)
                        ELSE materializeTaskLeaseLifecycle(h.leases[c.todo_id], c, now)

(* reduceCoordinationProjection over the command's mutations. *)
NextProjection(h, c, now) ==
  IF ~Applies(h, c, now) THEN h
  ELSE IF c.kind = "set_mode" THEN [h EXCEPT !.handoff_mode = c.requested_mode]
  ELSE [h EXCEPT !.leases[c.todo_id] = NextLease(h, c, now),
                 !.todos[c.todo_id] = ClaimedTodo(h, c)]

ReceiptFor(h, c, now) ==
  [operation_id |-> OperationId(c), request |-> c, cursor |-> revision + 1,
   lease |-> IF c.kind = "set_mode" THEN None
             ELSE Generation(c.todo_id, NextProjection(h, c, now).leases[c.todo_id])]

Decided(p) ==
  LET e == execution[p] IN
  /\ e.pc = "commit"
  /\ Replays(e.loaded.head, e.command, e.now) \/ Applies(e.loaded.head, e.command, e.now)

(* Mutant: the commit is unconditional on the revision. *)
StoreAccepts_AnyRevision(p) == Found(execution[p].command) = {}

(* Mutant: optimistic control per lease record instead of per head. *)
StoreAccepts_PerLease(p) ==
  LET e == execution[p] IN
  /\ Found(e.command) = {}
  /\ IF e.command.kind = "set_mode" THEN e.loaded.revision = revision
     ELSE e.loaded.head.leases[e.command.todo_id] = head.leases[e.command.todo_id]

(* commitAuthority accepts: the operation is new, the revision current. *)
StoreAccepts(p) ==
  /\ Found(execution[p].command) = {}
  /\ execution[p].loaded.revision = revision

(* The decision rejects: nothing is sent to the store. *)
Reject(p) ==
  /\ execution[p].pc = "commit"
  /\ ~Decided(p)
  /\ Answer(p, "rejected")
  /\ UNCHANGED <<clock, store, grants, issued, todoWrites>>

(* commitAuthority takes effect; its answer may be lost. *)
CommitAccepted(p) ==
  LET e == execution[p] IN
  /\ Decided(p)
  /\ StoreAccepts(p)
  /\ revision' = revision + 1
  /\ head' = NextProjection(e.loaded.head, e.command, e.now)
  /\ receipts' = receipts \cup {ReceiptFor(e.loaded.head, e.command, e.now)}
  /\ \E status \in {"applied", "ambiguous"} :
       execution' = [execution EXCEPT ![p] = [e EXCEPT !.committed = status, !.wrote = TRUE,
                                                       !.pc = "readback", !.loaded = None]]
  /\ UNCHANGED <<clock, answer, grants, issued, todoWrites>>

(* commitAuthority writes nothing: the store refuses (an operation that      *)
(* exists with this very body is answered applied), or it fails before the   *)
(* write, known ("failed") or not ("ambiguous") to the caller.               *)
CommitRefused(p) ==
  LET e == execution[p] IN
  /\ Decided(p)
  /\ \E status \in {"conflict", "applied", "ambiguous", "failed"} :
       /\ status = "conflict" => ~StoreAccepts(p)
       /\ status = "applied" => Found(e.command) # {}
       /\ execution' = [execution EXCEPT ![p] = [e EXCEPT !.committed = status,
                                                          !.pc = "readback", !.loaded = None]]
  /\ UNCHANGED <<clock, store, answer, grants, issued, todoWrites>>

(* Mutant: a lost answer without a receipt counts as "nothing was written",  *)
(* and so does an unreadable receipt.                                        *)
ReadBack_LostMeansRejected(p) ==
  LET e == execution[p] IN
  /\ e.pc = "readback"
  /\ \/ \E r \in Found(e.command) : AnswerFromReceipt(p, r)
     \/ Found(e.command) = {} /\ e.committed = "applied" /\ Answer(p, "failed")
     \/ e.committed \in {"conflict", "failed", "ambiguous"} /\ Answer(p, "rejected")
     \/ e.committed = "applied" /\ Answer(p, "ambiguous")
  /\ UNCHANGED <<clock, store, grants, issued, todoWrites>>

(* CoordinationCommandReceipt.commit after the store's answer. *)
ReadBack(p) ==
  LET e == execution[p] IN
  /\ e.pc = "readback"
  /\ \/ \E r \in Found(e.command) : AnswerFromReceipt(p, r)
     \/ Found(e.command) = {} /\ e.committed = "applied" /\ Answer(p, "failed")
     \/ e.committed \in {"conflict", "failed"} /\ Answer(p, "rejected")
     \/ e.committed = "ambiguous" /\ Answer(p, "ambiguous")
     \/ e.committed = "applied" /\ Answer(p, "ambiguous")  \* receipt unreadable
  /\ UNCHANGED <<clock, store, grants, issued, todoWrites>>

-----------------------------------------------------------------------------
(* currentLeaseAcquisitionProof accepts the receipt's lease as current. *)
AcquisitionCurrent(h, c, original, now) ==
  LET lease == h.leases[c.todo_id] IN
  /\ h.handoff_mode = "hard_lease"
  /\ OwnerEligible(h.todos[c.todo_id], c.owner)
  /\ leaseIsActive(lease, now)
  /\ HoldsLease(lease, c)
  /\ lease.lease_epoch = original.lease_epoch
  /\ lease.version >= original.version
  /\ h.todos[c.todo_id].ready

(* currentDependencyProof: renew and transfer report history, fenced only by *)
(* a retired mode or a pending dependency.                                   *)
MaintenanceCurrent(h, c) ==
  /\ h.handoff_mode # "legacy"
  /\ h.todos[c.todo_id].ready

(* The receipt is projected and the current head reloaded. *)
ProveAcquisition(p) ==
  LET e == execution[p]  c == e.command IN
  /\ e.pc = "proof" /\ c.kind = "acquire"
  /\ \E r \in Found(c) :
     \/ /\ AcquisitionCurrent(head, c, r.lease, e.now)
        /\ grants' = grants \cup {Generation(c.todo_id, head.leases[c.todo_id])}
        /\ Answer(p, "success")
     \/ /\ ~AcquisitionCurrent(head, c, r.lease, e.now)
        /\ Answer(p, "denied")
        /\ UNCHANGED grants
  /\ UNCHANGED <<clock, store, issued, todoWrites>>

ProveMaintenance(p) ==
  LET e == execution[p] IN
  /\ e.pc = "proof" /\ e.command.kind # "acquire"
  /\ Answer(p, IF MaintenanceCurrent(head, e.command) THEN "success" ELSE "denied")
  /\ UNCHANGED <<clock, store, grants, issued, todoWrites>>

(* The current head cannot be loaded: a durable receipt, no proof. *)
ProofUnavailable(p) ==
  /\ execution[p].pc = "proof"
  /\ Answer(p, "ambiguous")
  /\ UNCHANGED <<clock, store, grants, issued, todoWrites>>

(* The executing process is killed; nobody is answered. *)
Crash(p) ==
  /\ execution[p] # Idle
  /\ execution' = [execution EXCEPT ![p] = Idle]
  /\ UNCHANGED <<clock, store, answer, grants, issued, todoWrites>>

(* Another canonical writer replaces a Todo record and may retire its lease  *)
(* with it, as completion, deferral, blocking and re-scoping do.             *)
TodoWrite(t, fact, retire) ==
  /\ todoWrites < MaxTodoWrites
  /\ todoWrites' = todoWrites + 1
  /\ head' = [head EXCEPT !.todos[t] = fact,
                !.leases[t] = IF retire /\ @.status = "active"
                              THEN [@ EXCEPT !.status = "released"] ELSE @]
  /\ revision' = revision + 1
  /\ UNCHANGED <<clock, receipts, execution, answer, grants, issued>>

Tick ==
  /\ clock < MaxClock
  /\ clock' = clock + 1
  /\ UNCHANGED <<store, execution, answer, grants, issued, todoWrites>>

Step(p) ==
  \/ \E c \in Requests : Start(p, c)
  \/ ReadReceipt(p)
  \/ LoadAuthority(p)
  \/ LoadUnavailable(p)
  \/ Observe(p)
  \/ Reject(p)
  \/ CommitAccepted(p)
  \/ CommitRefused(p)
  \/ ReadBack(p)
  \/ ProveAcquisition(p)
  \/ ProveMaintenance(p)
  \/ ProofUnavailable(p)
  \/ Crash(p)

Next ==
  \/ \E p \in Procs : Step(p)
  \/ \E t \in Todos, fact \in TodoFacts, retire \in BOOLEAN : TodoWrite(t, fact, retire)
  \/ Tick

Spec == Init /\ [][Next]_vars

-----------------------------------------------------------------------------
(* Every lease generation anyone was ever told about: granted as a current   *)
(* right, or named by a durable receipt.                                     *)
Evidence == grants \cup ({r.lease : r \in receipts} \ {None})

(* The epoch is a fencing token: two pieces of evidence for one Todo and one *)
(* epoch name the same owner and execution key, whatever commands raced,     *)
(* crashed, lost their answer or were retried in between.                    *)
FencingEpoch ==
  \A e, f \in Evidence :
     (e.todo_id = f.todo_id /\ e.lease_epoch = f.lease_epoch)
     => e.owner = f.owner /\ e.idempotency_key = f.idempotency_key

(* A caller told "rejected" may change its plan, so its own commit never     *)
(* took effect: lost answers and unreadable receipts end as "ambiguous".     *)
RejectionIsConclusive == answer.status = "rejected" => ~answer.wrote

(* Outside hard_lease no lease runs: the mode leaves hard_lease only when no *)
(* lease is unexpired, and an acquire or renewal decided before the switch   *)
(* never lands after it.                                                     *)
ModeQuiescence ==
  head.handoff_mode # "hard_lease" =>
     \A t \in Todos : ~leaseIsActive(head.leases[t], clock)

(* Generations only grow: a lease changes hands only under a larger epoch,   *)
(* and no commit takes a version or an epoch back.                           *)
GenerationsGrow ==
  [][\A t \in Todos :
       LET old == head.leases[t]  new == head'.leases[t] IN
       /\ new.version >= old.version
       /\ new.lease_epoch >= old.lease_epoch
       /\ new.lease_epoch = old.lease_epoch =>
            new.owner = old.owner /\ new.idempotency_key = old.idempotency_key]_vars

(* The step in which p's commit of a command of this kind takes effect. *)
Commits(p, kind) ==
  /\ execution[p].pc = "commit" /\ execution'[p].pc = "readback"
  /\ execution[p].command.kind = kind

(* A lease in force in real time is not taken from its owner: an epoch       *)
(* begins over it only by the holder's own transfer.  The deciders sample    *)
(* their clock early and decide on an old head, so this needs both the       *)
(* expiry rule and the store's revision check.                               *)
NoLivePreemption ==
  [][\A t \in Todos :
       (Effective(head, t, clock) /\ head'.leases[t].lease_epoch # head.leases[t].lease_epoch)
       => \E p \in Procs : /\ Commits(p, "transfer")
                           /\ HoldsLease(head.leases[t], execution[p].command)]_vars

(* An acquisition never starts beside a lease in force whose write scopes it *)
(* shares, also when both commands were decided on the same old head.        *)
ScopesExclusive ==
  [][\A p \in Procs, u \in Todos :
       LET c == execution[p].command IN
       (/\ Commits(p, "acquire")
        /\ u # c.todo_id
        /\ head'.leases[c.todo_id].lease_epoch > head.leases[c.todo_id].lease_epoch
        /\ Effective(head, u, clock))
       => ~writeScopesOverlap(head'.leases[c.todo_id].write_scopes, head.leases[u].write_scopes)]_vars
=============================================================================

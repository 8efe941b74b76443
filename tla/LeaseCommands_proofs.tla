------------------------ MODULE LeaseCommands_proofs ------------------------
(* Proofs that LeaseCommands keeps its types and its safety properties for   *)
(* every set of Todos, agents, requests and processes.                       *)
EXTENDS LeaseCommands, TLAPS

(* How one lease may change in a step: its version and epoch never fall, and *)
(* a new holder comes with a larger epoch.                                   *)
Grows(old, new) ==
  /\ new.version >= old.version
  /\ new.lease_epoch >= old.lease_epoch
  /\ new.lease_epoch = old.lease_epoch =>
       new.owner = old.owner /\ new.idempotency_key = old.idempotency_key

-----------------------------------------------------------------------------
(* A renewal keeps the holder and advances the version. *)
LEMMA RenewedLease ==
  ASSUME NEW lease \in Lease, NEW at \in Int, lease.version < MaxGeneration
  PROVE  LET renewed == [lease EXCEPT !.version = @ + 1, !.expires_at = at] IN
         renewed \in Lease /\ Grows(lease, renewed) /\ renewed.lease_epoch = lease.lease_epoch
<1> DEFINE next == [lease EXCEPT !.version = @ + 1]
           renewed == [next EXCEPT !.expires_at = at]
<1>1. next \in Lease /\ Grows(lease, next) /\ next.lease_epoch = lease.lease_epoch
  BY GenerationAssumption DEF Lease, Grows
<1> HIDE DEF next
<1>2. renewed \in Lease /\ Grows(lease, renewed) /\ renewed.lease_epoch = lease.lease_epoch
  BY <1>1, GenerationAssumption DEF Lease, Grows
<1> QED
  BY <1>2 DEF next

(* A transfer starts the next epoch. *)
LEMMA TransferredLease ==
  ASSUME NEW lease \in Lease, NEW at \in Int, NEW owner \in Agents, NEW key \in Keys,
         lease.version < MaxGeneration, lease.lease_epoch < MaxGeneration
  PROVE  LET renewed == [lease EXCEPT !.version = @ + 1, !.expires_at = at]
             moved == [renewed EXCEPT !.owner = owner, !.idempotency_key = key,
                                      !.lease_epoch = @ + 1]
         IN moved \in Lease /\ Grows(lease, moved)
<1> DEFINE renewed == [lease EXCEPT !.version = @ + 1, !.expires_at = at]
           owned == [renewed EXCEPT !.owner = owner]
           keyed == [owned EXCEPT !.idempotency_key = key]
           moved == [keyed EXCEPT !.lease_epoch = @ + 1]
<1>1. renewed \in Lease /\ Grows(lease, renewed) /\ renewed.lease_epoch = lease.lease_epoch
  BY RenewedLease
<1> HIDE DEF renewed
<1>2. owned \in Lease /\ owned.version = renewed.version /\ owned.lease_epoch = lease.lease_epoch
  BY <1>1 DEF Lease
<1> HIDE DEF owned
<1>3. keyed \in Lease /\ keyed.version = renewed.version /\ keyed.lease_epoch = lease.lease_epoch
  BY <1>2 DEF Lease
<1> HIDE DEF keyed
<1>4. moved \in Lease /\ Grows(lease, moved)
  BY <1>1, <1>3, GenerationAssumption DEF Lease, Grows
<1> QED
  BY <1>4 DEF renewed, owned, keyed

(* Releasing keeps the generation as evidence. *)
LEMMA ReleasedLease ==
  ASSUME NEW lease \in Lease
  PROVE  LET released == [lease EXCEPT !.status = "released"] IN
         released \in Lease /\ Grows(lease, released)
BY GenerationAssumption DEF Lease, Grows

(* An acquisition starts the next epoch. *)
LEMMA AcquiredLease ==
  ASSUME NEW lease \in Lease, NEW c \in Commands, NEW now \in Int, c.owner \in Agents,
         lease.version < MaxGeneration, lease.lease_epoch < MaxGeneration
  PROVE  LET acquired == materializeTaskLeaseAcquire(lease, c, now) IN
         acquired \in Lease /\ Grows(lease, acquired)
BY GenerationAssumption DEF Lease, Grows, Commands, materializeTaskLeaseAcquire

(* The lease a deciding command writes is well formed and grows the old one. *)
LEMMA NextLeaseGrows ==
  ASSUME NEW h \in Head, NEW c \in Requests, NEW now \in Int,
         Applies(h, c, now), c.kind # "set_mode"
  PROVE  /\ c.todo_id \in Todos
         /\ NextLease(h, c, now) \in Lease
         /\ Grows(h.leases[c.todo_id], NextLease(h, c, now))
<1> DEFINE lease == h.leases[c.todo_id]
           at == now + c.ttl_seconds
<1>1. c \in Commands /\ c.todo_id \in Todos /\ c.owner \in Agents
  BY RequestsAssumption
<1>2. lease \in Lease
  BY <1>1 DEF Head
<1>3. at \in Int
  BY <1>1 DEF Commands
<1>4. CASE c.kind = "acquire"
  BY <1>1, <1>2, <1>4, AcquiredLease DEF Applies, AcquireApplies, NextLease
<1>5. CASE c.kind = "renew"
  <2>1. NextLease(h, c, now) = [lease EXCEPT !.version = @ + 1, !.expires_at = at]
    BY <1>5 DEF NextLease, materializeTaskLeaseLifecycle
  <2>2. lease.version < MaxGeneration
    BY <1>5 DEF Applies, RenewApplies
  <2> HIDE DEF lease, at
  <2>3. NextLease(h, c, now) \in Lease /\ Grows(lease, NextLease(h, c, now))
    BY <1>2, <1>3, <2>1, <2>2, RenewedLease
  <2> QED
    BY <1>1, <2>3 DEF lease
<1>6. CASE c.kind = "transfer"
  <2>1. c.new_owner \in Agents /\ c.new_idempotency_key \in Keys
    BY <1>6, RequestsAssumption
  <2>2. lease.version < MaxGeneration /\ lease.lease_epoch < MaxGeneration
    BY <1>6 DEF Applies, TransferApplies
  <2> DEFINE renewed == [lease EXCEPT !.version = @ + 1, !.expires_at = at]
             moved == [renewed EXCEPT !.owner = c.new_owner,
                                      !.idempotency_key = c.new_idempotency_key,
                                      !.lease_epoch = @ + 1]
  <2>3. NextLease(h, c, now) = moved
    BY <1>6 DEF NextLease, materializeTaskLeaseLifecycle
  <2> HIDE DEF lease, at
  <2>4. moved \in Lease /\ Grows(lease, moved)
    BY <1>2, <1>3, <2>1, <2>2, TransferredLease, Zenon
  <2> QED
    BY <1>1, <2>3, <2>4 DEF lease
<1>7. CASE c.kind = "release"
  <2>1. NextLease(h, c, now) = [lease EXCEPT !.status = "released"]
    BY <1>7 DEF NextLease, materializeTaskLeaseLifecycle
  <2> HIDE DEF lease
  <2>2. NextLease(h, c, now) \in Lease /\ Grows(lease, NextLease(h, c, now))
    BY <1>2, <2>1, ReleasedLease
  <2> QED
    BY <1>1, <2>2 DEF lease
<1> QED
  BY <1>1, <1>4, <1>5, <1>6, <1>7 DEF Applies

(* A decided command yields a well-formed head whose leases all grow. *)
LEMMA NextProjectionGrows ==
  ASSUME NEW h \in Head, NEW c \in Requests, NEW now \in Int
  PROVE  /\ NextProjection(h, c, now) \in Head
         /\ \A t \in Todos : Grows(h.leases[t], NextProjection(h, c, now).leases[t])
<1>1. CASE ~Applies(h, c, now)
  BY <1>1, GenerationAssumption DEF NextProjection, Grows, Head, Lease
<1>2. CASE Applies(h, c, now) /\ c.kind = "set_mode"
  <2>1. c.requested_mode \in HandoffModes
    BY <1>2, RequestsAssumption
  <2> QED
    BY <1>2, <2>1, GenerationAssumption DEF NextProjection, Grows, Head, Lease
<1>3. CASE Applies(h, c, now) /\ c.kind # "set_mode"
  <2>1. /\ c.todo_id \in Todos
        /\ NextLease(h, c, now) \in Lease
        /\ Grows(h.leases[c.todo_id], NextLease(h, c, now))
    BY <1>3, NextLeaseGrows
  <2>2. ClaimedTodo(h, c) \in TodoFact
    <3> DEFINE todo == h.todos[c.todo_id]
    <3>1. todo \in TodoFact
      BY <2>1 DEF Head
    <3>2. ASSUME NEW agent \in Agents
          PROVE  [todo EXCEPT !.claimed_by = agent] \in TodoFact
      <4> HIDE DEF todo
      <4> QED
        BY <3>1 DEF TodoFact
    <3> QED
      BY <3>1, <3>2, RequestsAssumption DEF ClaimedTodo
  <2>3. NextProjection(h, c, now) =
          [h EXCEPT !.leases[c.todo_id] = NextLease(h, c, now),
                    !.todos[c.todo_id] = ClaimedTodo(h, c)]
    BY <1>3 DEF NextProjection
  <2>4. NextProjection(h, c, now) \in Head
    <3> DEFINE leased == [h EXCEPT !.leases = [@ EXCEPT ![c.todo_id] = NextLease(h, c, now)]]
               claimed == [leased EXCEPT !.todos = [@ EXCEPT ![c.todo_id] = ClaimedTodo(h, c)]]
    <3>1. leased \in Head
      BY <2>1 DEF Head
    <3> HIDE DEF leased
    <3>2. claimed \in Head
      BY <2>1, <2>2, <3>1 DEF Head
    <3> QED
      BY <2>3, <3>2 DEF leased
  <2>5. ASSUME NEW t \in Todos, t # c.todo_id
        PROVE  NextProjection(h, c, now).leases[t] = h.leases[t]
    BY <2>1, <2>3, <2>5 DEF Head
  <2>6. NextProjection(h, c, now).leases[c.todo_id] = NextLease(h, c, now)
    BY <2>1, <2>3 DEF Head
  <2>7. \A t \in Todos : h.leases[t] \in Lease
    BY DEF Head
  <2> QED
    BY <2>1, <2>4, <2>5, <2>6, <2>7, GenerationAssumption DEF Grows, Lease
<1> QED
  BY <1>1, <1>2, <1>3
-----------------------------------------------------------------------------
(* What one execution knows: a loaded head is a snapshot no newer than the   *)
(* store and equal to it while the revisions agree; its clock sample is not  *)
(* in the future; once its commit took effect, the store's answer to it is   *)
(* one that ReadBack never turns into a rejection.                           *)
SlotOK(e, rev, h, at) ==
  /\ e \in Execution \cup {Idle}
  /\ e.pc = "commit" => e.loaded # None
  /\ e.loaded # None => /\ e.loaded.revision <= rev
                        /\ e.loaded.revision = rev => e.loaded.head = h
  /\ e.now <= at
  /\ e.wrote => /\ e.pc \in {"readback", "proof"}
                /\ e.pc = "readback" => e.committed \in {"applied", "ambiguous"}

Slots == \A p \in Procs : SlotOK(execution[p], revision, head, clock)

ControlInv == TypeOK /\ Slots /\ RejectionIsConclusive

(* An execution that sleeps through a step of another keeps what it knows. *)
LEMMA SlotSurvives ==
  ASSUME NEW e, NEW r1 \in Nat, NEW r2 \in Nat, NEW h1, NEW h2, NEW c1 \in Nat, NEW c2 \in Nat,
         SlotOK(e, r1, h1, c1), c1 <= c2, r1 < r2 \/ (r1 = r2 /\ h1 = h2)
  PROVE  SlotOK(e, r2, h2, c2)
<1>1. e.loaded = None \/ e.loaded.revision \in Nat
  BY DEF SlotOK, Execution, Idle
<1>2. e.now \in Int
  BY BoundsAssumption DEF SlotOK, Execution, Idle
<1> QED
  BY <1>1, <1>2 DEF SlotOK

(* Each step changes at most one execution. *)
LEMMA StepOfOne ==
  ASSUME NEW p \in Procs, NEW e, Slots, TypeOK, execution' = [execution EXCEPT ![p] = e],
         SlotOK(e, revision', head', clock'),
         revision' \in Nat, clock' \in Nat, clock <= clock',
         revision < revision' \/ (revision = revision' /\ head = head')
  PROVE  Slots' /\ execution' \in [Procs -> Execution \cup {Idle}]
         /\ \A q \in Procs : execution'[q].pc = "commit" => execution'[q].loaded # None
<1>1. \A q \in Procs : execution'[q] = IF q = p THEN e ELSE execution[q]
  BY DEF TypeOK
<1>2. \A q \in Procs : SlotOK(execution'[q], revision', head', clock')
  <2> TAKE q \in Procs
  <2>1. CASE q = p
    BY <1>1, <2>1
  <2>2. CASE q # p
    <3>1. SlotOK(execution[q], revision, head, clock)
      BY DEF Slots
    <3>2. revision \in Nat /\ clock \in Nat
      BY BoundsAssumption DEF TypeOK
    <3>3. SlotOK(execution[q], revision', head', clock')
      BY <3>1, <3>2, SlotSurvives
    <3> QED
      BY <1>1, <2>2, <3>3
  <2> QED
    BY <2>1, <2>2
<1>3. execution' \in [Procs -> Execution \cup {Idle}]
  <2>1. \A q \in Procs : execution'[q] \in Execution \cup {Idle}
    BY <1>2 DEF SlotOK
  <2>2. execution' = [q \in Procs |-> execution'[q]]
    BY DEF TypeOK
  <2> QED
    BY <2>1, <2>2
<1> QED
  BY <1>2, <1>3 DEF Slots, SlotOK
-----------------------------------------------------------------------------
(* A step that leaves the store alone and moves one execution to a state     *)
(* consistent with it.                                                       *)
LEMMA LocalKeeps ==
  ASSUME ControlInv, NEW p \in Procs, NEW e,
         execution' = [execution EXCEPT ![p] = e], SlotOK(e, revision, head, clock),
         UNCHANGED <<clock, store, todoWrites>>,
         answer' \in [status : Statuses \cup {"none"}, wrote : BOOLEAN],
         RejectionIsConclusive', grants' \subseteq Generations, issued' \in 0..MaxCommands
  PROVE  ControlInv'
<1>1. /\ revision' = revision /\ head' = head /\ receipts' = receipts /\ clock' = clock
      /\ revision \in Nat /\ clock \in Nat
  BY BoundsAssumption DEF store, ControlInv, TypeOK
<1>2. /\ Slots' /\ execution' \in [Procs -> Execution \cup {Idle}]
      /\ \A q \in Procs : execution'[q].pc = "commit" => execution'[q].loaded # None
  <2>1. SlotOK(e, revision', head', clock')
    BY <1>1
  <2>2. clock <= clock' /\ revision' \in Nat /\ clock' \in Nat
    BY <1>1
  <2>3. Slots /\ TypeOK
    BY DEF ControlInv
  <2> QED
    BY <1>1, <2>1, <2>2, <2>3, StepOfOne
<1>3. /\ receipts' \subseteq [operation_id : {OperationId(c) : c \in Requests},
                              request : Requests, cursor : Nat,
                              lease : Generations \cup {None}]
      /\ clock' \in 0..MaxClock /\ revision' \in Nat /\ head' \in Head
      /\ todoWrites' \in 0..MaxTodoWrites
  BY <1>1 DEF ControlInv, TypeOK
<1>4. TypeOK'
  BY <1>2, <1>3 DEF TypeOK
<1> QED
  BY <1>2, <1>4 DEF ControlInv

(* Ending an execution with an answer. *)
LEMMA AnswerKeeps ==
  ASSUME ControlInv, NEW p \in Procs, NEW status \in Statuses, Answer(p, status),
         execution[p] \in Execution, status = "rejected" => ~execution[p].wrote,
         UNCHANGED <<clock, store, issued, todoWrites>>, grants' \subseteq Generations
  PROVE  ControlInv'
<1>1. SlotOK(Idle, revision, head, clock)
  BY BoundsAssumption DEF SlotOK, Idle, ControlInv, TypeOK
<1>2. answer' \in [status : Statuses \cup {"none"}, wrote : BOOLEAN]
  BY DEF Answer, Execution
<1>3. RejectionIsConclusive'
  BY DEF Answer, RejectionIsConclusive
<1>4. execution' = [execution EXCEPT ![p] = Idle] /\ issued' \in 0..MaxCommands
  BY DEF Answer, ControlInv, TypeOK
<1> QED
  BY <1>1, <1>2, <1>3, <1>4, LocalKeeps

(* Waiting for the store again, without having written. *)
LEMMA AwaitKeeps ==
  ASSUME ControlInv, NEW p \in Procs, NEW point \in {"load", "observe", "commit"},
         Await(p, point), execution[p] \in Execution,
         execution[p].pc \in {"read", "load", "observe"},
         point = "commit" => execution[p].loaded # None,
         UNCHANGED <<clock, store, grants, issued, todoWrites>>
  PROVE  ControlInv'
<1> DEFINE e == [execution[p] EXCEPT !.pc = point]
<1>1. execution' = [execution EXCEPT ![p] = e]
  BY DEF Await
<1>2. SlotOK(execution[p], revision, head, clock)
  BY DEF ControlInv, Slots
<1>3. SlotOK(e, revision, head, clock)
  BY <1>2 DEF SlotOK, Execution
<1> QED
  BY <1>1, <1>3, LocalKeeps DEF Await, ControlInv, TypeOK, RejectionIsConclusive

(* Waiting for the current head that proves execution rights. *)
LEMMA AwaitProofKeeps ==
  ASSUME ControlInv, NEW p \in Procs, AwaitProof(p), execution[p] \in Execution,
         UNCHANGED <<clock, store, grants, issued, todoWrites>>
  PROVE  ControlInv'
<1> DEFINE e == [[[execution[p] EXCEPT !.pc = "proof"] EXCEPT !.loaded = None]
                   EXCEPT !.committed = "none"]
<1>1. execution' = [execution EXCEPT ![p] = e]
  BY DEF AwaitProof
<1>2. SlotOK(execution[p], revision, head, clock)
  BY DEF ControlInv, Slots
<1>3. SlotOK(e, revision, head, clock)
  BY <1>2 DEF SlotOK, Execution
<1> QED
  BY <1>1, <1>3, LocalKeeps DEF AwaitProof, ControlInv, TypeOK, RejectionIsConclusive
(* Ending or proving a command whose receipt was found. *)
LEMMA FromReceiptKeeps ==
  ASSUME ControlInv, NEW p \in Procs, NEW r, AnswerFromReceipt(p, r),
         execution[p] \in Execution,
         UNCHANGED <<clock, store, grants, issued, todoWrites>>
  PROVE  ControlInv'
<1>1. grants' \subseteq Generations
  BY DEF ControlInv, TypeOK
<1>2. CASE Answer(p, "failed")
  BY <1>1, <1>2, AnswerKeeps DEF Statuses
<1>3. CASE AwaitProof(p)
  BY <1>3, AwaitProofKeeps
<1>4. CASE Answer(p, "success")
  BY <1>1, <1>4, AnswerKeeps DEF Statuses
<1> QED
  BY <1>2, <1>3, <1>4 DEF AnswerFromReceipt

(* A running execution has a command and a state of its own. *)
LEMMA Running ==
  ASSUME ControlInv, NEW p \in Procs, execution[p].pc # "idle"
  PROVE  /\ execution[p] \in Execution
         /\ SlotOK(execution[p], revision, head, clock)
         /\ execution[p].pc \in {"read", "load", "observe", "commit"} => ~execution[p].wrote
<1>1. execution[p] \in Execution \cup {Idle} /\ SlotOK(execution[p], revision, head, clock)
  BY DEF ControlInv, TypeOK, Slots
<1> QED
  BY <1>1 DEF Idle, SlotOK

-----------------------------------------------------------------------------
(* Accepting a commit keeps the types: the new head comes from the decision  *)
(* on the loaded head, which is the current one.                             *)
LEMMA CommitKeeps ==
  ASSUME ControlInv, NEW p \in Procs, CommitAccepted(p)
  PROVE  /\ ControlInv'
         /\ execution[p].loaded.head = head
         /\ head' = NextProjection(head, execution[p].command, execution[p].now)
         /\ execution[p].command \in Requests
         /\ execution[p].now \in Nat /\ execution[p].now <= clock
<1> DEFINE e == execution[p]
           c == e.command
           done(status) == [e EXCEPT !.committed = status, !.wrote = TRUE,
                                     !.pc = "readback", !.loaded = None]
<1>1. e.pc = "commit" /\ e \in Execution /\ SlotOK(e, revision, head, clock)
  BY Running DEF CommitAccepted, Decided
<1>2. /\ c \in Requests /\ e.now \in Nat /\ e.now <= clock
      /\ e.loaded \in [revision : Nat, head : Head] /\ e.loaded.head = head
  BY <1>1, BoundsAssumption DEF Execution, SlotOK, CommitAccepted, StoreAccepts
<1>3. head' = NextProjection(head, c, e.now) /\ head' \in Head
  BY <1>2, NextProjectionGrows DEF CommitAccepted
<1>4. revision \in Nat /\ clock \in Nat /\ revision' = revision + 1 /\ clock' = clock
  BY BoundsAssumption DEF ControlInv, TypeOK, CommitAccepted
<1>5. PICK status \in {"applied", "ambiguous"} : execution' = [execution EXCEPT ![p] = done(status)]
  BY DEF CommitAccepted
<1>6. SlotOK(done(status), revision', head', clock')
  BY <1>1, <1>4 DEF SlotOK, Execution
<1>7. /\ Slots' /\ execution' \in [Procs -> Execution \cup {Idle}]
      /\ \A q \in Procs : execution'[q].pc = "commit" => execution'[q].loaded # None
  <2>1. clock <= clock' /\ revision' \in Nat /\ clock' \in Nat /\ revision < revision'
    BY <1>4
  <2>2. Slots /\ TypeOK
    BY DEF ControlInv
  <2> HIDE DEF done
  <2> QED
    BY <1>5, <1>6, <2>1, <2>2, StepOfOne
<1>8. ReceiptFor(head, c, e.now) \in [operation_id : {OperationId(d) : d \in Requests},
                                     request : Requests, cursor : Nat,
                                     lease : Generations \cup {None}]
  <2>1. c.kind # "set_mode" =>
          Generation(c.todo_id, NextProjection(head, c, e.now).leases[c.todo_id]) \in Generations
    <3> SUFFICES ASSUME c.kind # "set_mode"
                 PROVE  Generation(c.todo_id, head'.leases[c.todo_id]) \in Generations
      BY <1>3
    <3>1. c.todo_id \in Todos
      BY <1>2, RequestsAssumption
    <3>2. head'.leases[c.todo_id] \in Lease
      BY <1>3, <3>1 DEF Head
    <3> QED
      BY <3>1, <3>2 DEF Generation, Generations, Lease
  <2> QED
    BY <1>2, <1>4, <2>1 DEF ReceiptFor
<1>9. TypeOK'
  <2>1. receipts' = receipts \cup {ReceiptFor(head, c, e.now)}
    BY <1>2 DEF CommitAccepted
  <2>2. UNCHANGED <<clock, answer, grants, issued, todoWrites>>
    BY DEF CommitAccepted
  <2>3. TypeOK
    BY DEF ControlInv
  <2>4. revision' \in Nat
    BY <1>4
  <2> QED
    BY <1>3, <1>7, <1>8, <2>1, <2>2, <2>3, <2>4 DEF TypeOK
<1>10. RejectionIsConclusive'
  BY DEF CommitAccepted, ControlInv, RejectionIsConclusive
<1> QED
  BY <1>2, <1>3, <1>7, <1>9, <1>10 DEF ControlInv
-----------------------------------------------------------------------------
(* Every step of an execution keeps the control invariant. *)
LEMMA StepKeepsControl ==
  ASSUME ControlInv, NEW p \in Procs, Step(p)
  PROVE  ControlInv'
<1>1. /\ SlotOK(Idle, revision, head, clock) /\ TypeOK
      /\ clock \in 0..MaxClock /\ clock \in Nat /\ grants \subseteq Generations
  BY BoundsAssumption DEF SlotOK, Idle, ControlInv, TypeOK
<1>2. ASSUME NEW c \in Requests, Start(p, c) PROVE ControlInv'
  <2> DEFINE e == [pc |-> "read", command |-> c, now |-> clock, loaded |-> None,
                   committed |-> "none", wrote |-> FALSE]
  <2>1. SlotOK(e, revision, head, clock)
    <3>1. e \in Execution
      BY <1>1 DEF Execution
    <3> QED
      BY <1>1, <3>1 DEF SlotOK
  <2>2. issued' \in 0..MaxCommands
    BY <1>1, <1>2, BoundsAssumption DEF Start, TypeOK
  <2>3. /\ execution' = [execution EXCEPT ![p] = e]
        /\ answer' = NoAnswer /\ UNCHANGED <<clock, store, grants, todoWrites>>
    BY <1>2 DEF Start
  <2>4. /\ answer' \in [status : Statuses \cup {"none"}, wrote : BOOLEAN]
        /\ RejectionIsConclusive'
    BY <2>3 DEF NoAnswer, RejectionIsConclusive
  <2> HIDE DEF e
  <2> QED
    BY <1>1, <2>1, <2>2, <2>3, <2>4, LocalKeeps
<1>3. CASE ReadReceipt(p)
  <2>1. execution[p] \in Execution /\ ~execution[p].wrote
    BY <1>3, Running DEF ReadReceipt
  <2>2. execution[p].pc = "read" /\ UNCHANGED <<clock, store, grants, issued, todoWrites>>
    BY <1>3 DEF ReadReceipt
  <2>3. ASSUME NEW r, AnswerFromReceipt(p, r) PROVE ControlInv'
    BY <2>1, <2>2, <2>3, FromReceiptKeeps
  <2>4. CASE Await(p, "load")
    BY <2>1, <2>2, <2>4, AwaitKeeps
  <2>5. CASE Answer(p, "rejected") \/ Answer(p, "unavailable")
    BY <1>1, <2>1, <2>2, <2>5, AnswerKeeps DEF Statuses
  <2> QED
    BY <1>3, <2>3, <2>4, <2>5 DEF ReadReceipt
<1>4. CASE LoadAuthority(p)
  <2> DEFINE e == [[execution[p] EXCEPT !.loaded = [revision |-> revision, head |-> head]]
                     EXCEPT !.pc = IF execution[p].command.kind = "set_mode"
                                   THEN "commit" ELSE "observe"]
  <2>1. execution[p] \in Execution /\ SlotOK(execution[p], revision, head, clock)
        /\ ~execution[p].wrote
    BY <1>4, Running DEF LoadAuthority
  <2>2. /\ [revision |-> revision, head |-> head] \in [revision : Nat, head : Head]
        /\ [revision |-> revision, head |-> head] # None
    BY <1>1, SnapshotAssumption DEF TypeOK
  <2>3. SlotOK(e, revision, head, clock)
    <3> DEFINE snapshot == [revision |-> revision, head |-> head]
               f == [execution[p] EXCEPT !.loaded = snapshot]
    <3>1. snapshot.revision = revision /\ snapshot.head = head
      OBVIOUS
    <3> HIDE DEF snapshot
    <3>2. f \in Execution /\ f.loaded = snapshot /\ ~f.wrote /\ f.now = execution[p].now
      BY <2>1, <2>2 DEF Execution, snapshot
    <3> HIDE DEF f
    <3>3. ASSUME NEW point \in {"commit", "observe"}
          PROVE  SlotOK([f EXCEPT !.pc = point], revision, head, clock)
      BY <1>1, <2>1, <2>2, <3>1, <3>2 DEF SlotOK, Execution, TypeOK, snapshot
    <3> QED
      BY <3>3 DEF f, snapshot
  <2>4. /\ execution' = [execution EXCEPT ![p] = e]
        /\ UNCHANGED <<clock, store, answer, grants, issued, todoWrites>>
    BY <1>4 DEF LoadAuthority
  <2>5. /\ answer' \in [status : Statuses \cup {"none"}, wrote : BOOLEAN]
        /\ RejectionIsConclusive' /\ grants' \subseteq Generations /\ issued' \in 0..MaxCommands
    BY <2>4 DEF ControlInv, TypeOK, RejectionIsConclusive
  <2> HIDE DEF e
  <2> QED
    BY <2>3, <2>4, <2>5, LocalKeeps
<1>5. CASE LoadUnavailable(p)
  <2>1. execution[p] \in Execution /\ execution[p].pc = "load"
        /\ UNCHANGED <<clock, store, grants, issued, todoWrites>>
    BY <1>5, Running DEF LoadUnavailable
  <2>2. CASE Answer(p, "unavailable")
    BY <1>1, <2>1, <2>2, AnswerKeeps DEF Statuses
  <2>3. CASE Await(p, "observe")
    BY <2>1, <2>3, AwaitKeeps
  <2> QED
    BY <1>5, <2>2, <2>3 DEF LoadUnavailable
<1>6. CASE Observe(p)
  <2>1. execution[p] \in Execution /\ execution[p].pc = "observe"
        /\ UNCHANGED <<clock, store, grants, issued, todoWrites>>
    BY <1>6, Running DEF Observe
  <2>2. ASSUME NEW r, AnswerFromReceipt(p, r) PROVE ControlInv'
    BY <2>1, <2>2, FromReceiptKeeps
  <2>3. CASE execution[p].loaded # None /\ Await(p, "commit")
    BY <2>1, <2>3, AwaitKeeps
  <2>4. CASE Answer(p, "unavailable")
    BY <1>1, <2>1, <2>4, AnswerKeeps DEF Statuses
  <2> QED
    BY <1>6, <2>2, <2>3, <2>4 DEF Observe
<1>7. CASE Reject(p)
  <2>1. /\ execution[p] \in Execution /\ ~execution[p].wrote
        /\ Answer(p, "rejected") /\ UNCHANGED <<clock, store, grants, issued, todoWrites>>
    BY <1>7, Running DEF Reject
  <2> QED
    BY <1>1, <2>1, AnswerKeeps DEF Statuses
<1>8. CASE CommitAccepted(p)
  BY <1>8, CommitKeeps
<1>9. CASE CommitRefused(p)
  <2> DEFINE done(status) == [execution[p] EXCEPT !.committed = status,
                                                  !.pc = "readback", !.loaded = None]
  <2>1. execution[p] \in Execution /\ SlotOK(execution[p], revision, head, clock)
        /\ ~execution[p].wrote
    BY <1>9, Running DEF CommitRefused, Decided
  <2>2. PICK status \in {"conflict", "applied", "ambiguous", "failed"} :
          execution' = [execution EXCEPT ![p] = done(status)]
    BY <1>9 DEF CommitRefused
  <2>3. SlotOK(done(status), revision, head, clock)
    BY <2>1 DEF SlotOK, Execution
  <2>4. UNCHANGED <<clock, store, answer, grants, issued, todoWrites>>
    BY <1>9 DEF CommitRefused
  <2>5. /\ answer' \in [status : Statuses \cup {"none"}, wrote : BOOLEAN]
        /\ RejectionIsConclusive' /\ grants' \subseteq Generations /\ issued' \in 0..MaxCommands
    BY <2>4 DEF ControlInv, TypeOK, RejectionIsConclusive
  <2> HIDE DEF done
  <2> QED
    BY <2>2, <2>3, <2>4, <2>5, LocalKeeps
<1>10. CASE ReadBack(p)
  <2>1. /\ execution[p] \in Execution /\ SlotOK(execution[p], revision, head, clock)
        /\ execution[p].pc = "readback"
        /\ UNCHANGED <<clock, store, grants, issued, todoWrites>>
    BY <1>10, Running DEF ReadBack
  <2>2. ASSUME NEW r, AnswerFromReceipt(p, r) PROVE ControlInv'
    BY <2>1, <2>2, FromReceiptKeeps
  <2>3. CASE Answer(p, "failed") \/ Answer(p, "ambiguous")
    BY <1>1, <2>1, <2>3, AnswerKeeps DEF Statuses
  <2>4. CASE execution[p].committed \in {"conflict", "failed"} /\ Answer(p, "rejected")
    <3>1. ~execution[p].wrote
      BY <2>1, <2>4 DEF SlotOK
    <3> QED
      BY <1>1, <2>1, <2>4, <3>1, AnswerKeeps DEF Statuses
  <2> QED
    BY <1>10, <2>2, <2>3, <2>4 DEF ReadBack
<1>11. CASE ProveAcquisition(p)
  <2>1. /\ execution[p] \in Execution /\ execution[p].command \in Requests
        /\ execution[p].command.kind = "acquire"
        /\ UNCHANGED <<clock, store, issued, todoWrites>>
    BY <1>11, Running DEF ProveAcquisition, Execution
  <2>2. Generation(execution[p].command.todo_id, head.leases[execution[p].command.todo_id])
          \in Generations
    <3>1. execution[p].command.todo_id \in Todos
      BY <2>1, RequestsAssumption
    <3>2. head.leases[execution[p].command.todo_id] \in Lease
      BY <1>1, <3>1 DEF TypeOK, Head
    <3> QED
      BY <3>1, <3>2 DEF Generation, Generations, Lease
  <2>3. grants' \subseteq Generations /\ (Answer(p, "success") \/ Answer(p, "denied"))
    BY <1>1, <1>11, <2>2 DEF ProveAcquisition
  <2> QED
    BY <2>1, <2>3, AnswerKeeps DEF Statuses
<1>12. CASE ProveMaintenance(p)
  <2>1. /\ execution[p] \in Execution /\ UNCHANGED <<clock, store, grants, issued, todoWrites>>
        /\ (Answer(p, "success") \/ Answer(p, "denied"))
    BY <1>12, Running DEF ProveMaintenance
  <2> QED
    BY <1>1, <2>1, AnswerKeeps DEF Statuses
<1>13. CASE ProofUnavailable(p)
  <2>1. /\ execution[p] \in Execution /\ UNCHANGED <<clock, store, grants, issued, todoWrites>>
        /\ Answer(p, "ambiguous")
    BY <1>13, Running DEF ProofUnavailable
  <2> QED
    BY <1>1, <2>1, AnswerKeeps DEF Statuses
<1>14. CASE Crash(p)
  <2>1. /\ execution' = [execution EXCEPT ![p] = Idle]
        /\ UNCHANGED <<clock, store, answer, grants, issued, todoWrites>>
    BY <1>14 DEF Crash
  <2>2. /\ answer' \in [status : Statuses \cup {"none"}, wrote : BOOLEAN]
        /\ RejectionIsConclusive' /\ grants' \subseteq Generations /\ issued' \in 0..MaxCommands
    BY <2>1 DEF ControlInv, TypeOK, RejectionIsConclusive
  <2> QED
    BY <1>1, <2>1, <2>2, LocalKeeps
<1> QED
  BY <1>2, <1>3, <1>4, <1>5, <1>6, <1>7, <1>8, <1>9, <1>10, <1>11, <1>12, <1>13, <1>14
     DEF Step
-----------------------------------------------------------------------------
(* Another writer's lease record: unchanged, or released in place. *)
LEMMA TodoWriteGrows ==
  ASSUME ControlInv, NEW t \in Todos, NEW fact \in TodoFacts, NEW retire \in BOOLEAN,
         TodoWrite(t, fact, retire)
  PROVE  /\ head' \in Head
         /\ head'.handoff_mode = head.handoff_mode
         /\ \A u \in Todos : /\ Grows(head.leases[u], head'.leases[u])
                            /\ \/ head'.leases[u] = head.leases[u]
                               \/ head'.leases[u] = [head.leases[u] EXCEPT !.status = "released"]
<1> DEFINE lease == head.leases[t]
           next == IF retire /\ lease.status = "active"
                   THEN [lease EXCEPT !.status = "released"] ELSE lease
           written == [head EXCEPT !.todos = [@ EXCEPT ![t] = fact]]
<1>1. head \in Head /\ fact \in TodoFact /\ lease \in Lease
  BY HeadsAssumption DEF ControlInv, TypeOK, Head
<1>2. next \in Lease /\ Grows(lease, next)
      /\ (next = lease \/ next = [lease EXCEPT !.status = "released"])
  <2>1. [lease EXCEPT !.status = "released"] \in Lease
        /\ Grows(lease, [lease EXCEPT !.status = "released"])
    BY <1>1, ReleasedLease
  <2>2. Grows(lease, lease)
    BY <1>1, GenerationAssumption DEF Grows, Lease
  <2> QED
    BY <1>1, <2>1, <2>2
<1>3. head' = [written EXCEPT !.leases = [@ EXCEPT ![t] = next]]
  BY <1>1 DEF TodoWrite, Head
<1> HIDE DEF next
<1>4. written \in Head /\ written.leases = head.leases /\ written.handoff_mode = head.handoff_mode
  BY <1>1 DEF Head
<1> HIDE DEF written
<1>5. head' \in Head /\ head'.handoff_mode = head.handoff_mode
      /\ head'.leases = [head.leases EXCEPT ![t] = next]
  BY <1>2, <1>3, <1>4 DEF Head
<1>6. \A u \in Todos : head.leases[u] \in Lease /\ Grows(head.leases[u], head.leases[u])
  BY <1>1, GenerationAssumption DEF Head, Grows, Lease
<1>7. \A u \in Todos : head'.leases[u] = IF u = t THEN next ELSE head.leases[u]
  BY <1>1, <1>5 DEF Head
<1> QED
  BY <1>2, <1>5, <1>6, <1>7

(* The control invariant is inductive. *)
LEMMA NextKeepsControl ==
  ASSUME ControlInv, [Next]_vars
  PROVE  ControlInv'
<1>1. CASE UNCHANGED vars
  BY <1>1 DEF ControlInv, TypeOK, Slots, RejectionIsConclusive, vars, store
<1>2. ASSUME NEW p \in Procs, Step(p) PROVE ControlInv'
  BY <1>2, StepKeepsControl
<1>3. ASSUME NEW t \in Todos, NEW fact \in TodoFacts, NEW retire \in BOOLEAN,
             TodoWrite(t, fact, retire)
      PROVE  ControlInv'
  <2>1. head' \in Head
    BY <1>3, TodoWriteGrows
  <2>2. /\ UNCHANGED <<clock, receipts, execution, answer, grants, issued>>
        /\ revision' = revision + 1 /\ todoWrites' = todoWrites + 1
        /\ todoWrites < MaxTodoWrites
    BY <1>3 DEF TodoWrite
  <2>3. TypeOK'
    BY <2>1, <2>2, BoundsAssumption DEF ControlInv, TypeOK
  <2>4. Slots'
    <3>1. \A q \in Procs : SlotOK(execution[q], revision, head, clock)
      BY DEF ControlInv, Slots
    <3>2. revision \in Nat /\ clock \in Nat
      BY BoundsAssumption DEF ControlInv, TypeOK
    <3>3. revision < revision' /\ revision' \in Nat
      BY <2>2, <3>2
    <3>4. \A q \in Procs : SlotOK(execution[q], revision', head', clock)
      BY <3>1, <3>2, <3>3, SlotSurvives
    <3> QED
      BY <2>2, <3>4 DEF Slots
  <2> QED
    BY <2>2, <2>3, <2>4 DEF ControlInv, RejectionIsConclusive
<1>4. CASE Tick
  <2>1. /\ UNCHANGED <<revision, head, receipts, execution, answer, grants, issued, todoWrites>>
        /\ clock' = clock + 1 /\ clock < MaxClock
    BY <1>4 DEF Tick, store
  <2>2. TypeOK'
    BY <2>1, BoundsAssumption DEF ControlInv, TypeOK
  <2>3. Slots'
    <3>1. \A q \in Procs : SlotOK(execution[q], revision, head, clock)
      BY DEF ControlInv, Slots
    <3>2. revision \in Nat /\ clock \in Nat /\ clock' \in Nat /\ clock <= clock'
      BY <2>1, BoundsAssumption DEF ControlInv, TypeOK
    <3>3. \A q \in Procs : SlotOK(execution[q], revision, head, clock')
      BY <3>1, <3>2, SlotSurvives
    <3> QED
      BY <2>1, <3>3 DEF Slots
  <2> QED
    BY <2>1, <2>2, <2>3 DEF ControlInv, RejectionIsConclusive
<1> QED
  BY <1>1, <1>2, <1>3, <1>4 DEF Next

(* The control invariant holds before the first command. *)
LEMMA InitControl == Init => ControlInv
<1> SUFFICES ASSUME Init PROVE ControlInv
  OBVIOUS
<1>1. \A p \in Procs : execution[p] = Idle
  BY DEF Init
<1>2. SlotOK(Idle, revision, head, clock)
  BY BoundsAssumption DEF SlotOK, Idle, Init
<1>3. TypeOK
  <2>1. head \in Head
    BY HeadsAssumption DEF Init
  <2>2. execution \in [Procs -> Execution \cup {Idle}]
    BY DEF Init
  <2>3. Idle.pc # "commit"
    BY DEF Idle
  <2>4. answer \in [status : Statuses \cup {"none"}, wrote : BOOLEAN]
    BY DEF Init, NoAnswer
  <2> QED
    BY <1>1, <2>1, <2>2, <2>3, <2>4, BoundsAssumption DEF Init, TypeOK
<1> QED
  BY <1>1, <1>2, <1>3 DEF ControlInv, Slots, RejectionIsConclusive, Init, NoAnswer

(* Every command keeps its types and never interprets a head it could not    *)
(* load, for every number of executions, Todos, agents and requests.         *)
THEOREM TypeCorrect == Spec => []TypeOK
<1>1. Spec => []ControlInv
  BY InitControl, NextKeepsControl, PTL DEF Spec
<1>2. ControlInv => TypeOK
  BY DEF ControlInv
<1> QED
  BY <1>1, <1>2, PTL

(* A caller told "rejected" never had its commit take effect: the store's    *)
(* lost and unreadable answers all end as "ambiguous".                       *)
THEOREM RejectionsAreConclusive == Spec => []RejectionIsConclusive
<1>1. Spec => []ControlInv
  BY InitControl, NextKeepsControl, PTL DEF Spec
<1>2. ControlInv => RejectionIsConclusive
  BY DEF ControlInv
<1> QED
  BY <1>1, <1>2, PTL
-----------------------------------------------------------------------------
(* Evidence about a lease is never ahead of it, and evidence of its present  *)
(* epoch names its present holder.                                           *)
Behind(e, h) ==
  /\ e.lease_epoch <= h.leases[e.todo_id].lease_epoch
  /\ e.lease_epoch = h.leases[e.todo_id].lease_epoch =>
       /\ e.owner = h.leases[e.todo_id].owner
       /\ e.idempotency_key = h.leases[e.todo_id].idempotency_key

Fenced == \A e \in Evidence : Behind(e, head)

(* The generations the present leases stand for. *)
Current(h) == {Generation(t, h.leases[t]) : t \in Todos}

(* A step that leaves the store alone may only grant a present lease. *)
Quiet ==
  /\ revision' = revision /\ head' = head /\ receipts' = receipts
  /\ clock <= clock'
  /\ grants' \subseteq grants \cup Current(head)

Committing == \E p \in Procs : CommitAccepted(p)

ForeignWrite ==
  \E t \in Todos, fact \in TodoFacts, retire \in BOOLEAN : TodoWrite(t, fact, retire)

(* The store changes only by an accepted commit or a foreign write. *)
LEMMA StoreSteps ==
  ASSUME ControlInv, [Next]_vars
  PROVE  Quiet \/ Committing \/ ForeignWrite
<1>1. clock \in Nat
  BY BoundsAssumption DEF ControlInv, TypeOK
<1>2. ASSUME UNCHANGED <<clock, store, grants>> PROVE Quiet
  BY <1>1, <1>2 DEF Quiet, store
<1>3. CASE UNCHANGED vars
  BY <1>2, <1>3 DEF vars
<1>4. CASE Tick
  BY <1>1, <1>4 DEF Tick, Quiet, store
<1>5. ASSUME NEW p \in Procs, Step(p) PROVE Quiet \/ Committing
  <2>1. CASE CommitAccepted(p)
    BY <2>1 DEF Committing
  <2>2. CASE ProveAcquisition(p)
    <3>1. execution[p].command.todo_id \in Todos
      BY <2>2, Running, RequestsAssumption DEF ProveAcquisition, Execution
    <3>2. UNCHANGED <<clock, store>>
      BY <2>2 DEF ProveAcquisition
    <3>3. grants' \subseteq grants \cup Current(head)
      BY <2>2, <3>1 DEF ProveAcquisition, Current
    <3> QED
      BY <1>1, <3>2, <3>3 DEF Quiet, store
  <2>3. CASE \/ \E c \in Requests : Start(p, c)
             \/ ReadReceipt(p) \/ LoadAuthority(p) \/ LoadUnavailable(p) \/ Observe(p)
             \/ Reject(p) \/ CommitRefused(p) \/ ReadBack(p) \/ ProveMaintenance(p)
             \/ ProofUnavailable(p) \/ Crash(p)
    <3>1. UNCHANGED <<clock, store, grants>>
      BY <2>3 DEF Start, ReadReceipt, LoadAuthority, LoadUnavailable, Observe, Reject,
                  CommitRefused, ReadBack, ProveMaintenance, ProofUnavailable, Crash
    <3> QED
      BY <1>2, <3>1
  <2> QED
    BY <1>5, <2>1, <2>2, <2>3 DEF Step
<1> QED
  BY <1>3, <1>4, <1>5 DEF Next, ForeignWrite

(* No step takes a lease back to an earlier version or epoch, and a lease    *)
(* changes its holder only with a larger epoch.                              *)
LEMMA HeadGrows ==
  ASSUME ControlInv, [Next]_vars
  PROVE  \A t \in Todos : Grows(head.leases[t], head'.leases[t])
<1>1. head \in Head
  BY DEF ControlInv, TypeOK
<1>2. CASE Quiet
  BY <1>1, <1>2, GenerationAssumption DEF Quiet, Grows, Head, Lease
<1>3. CASE Committing
  <2>1. PICK p \in Procs : CommitAccepted(p)
    BY <1>3 DEF Committing
  <2>2. /\ head' = NextProjection(head, execution[p].command, execution[p].now)
        /\ execution[p].command \in Requests /\ execution[p].now \in Int
    BY <2>1, CommitKeeps
  <2> QED
    BY <1>1, <2>2, NextProjectionGrows
<1>4. CASE ForeignWrite
  BY <1>4, TodoWriteGrows DEF ForeignWrite
<1> QED
  BY <1>2, <1>3, <1>4, StoreSteps

(* Generations only grow, in every behaviour. *)
THEOREM GenerationsOnlyGrow == Spec => GenerationsGrow
<1>1. Spec => []ControlInv
  BY InitControl, NextKeepsControl, PTL DEF Spec
<1>2. ControlInv /\ [Next]_vars =>
        \A t \in Todos :
          LET old == head.leases[t]  new == head'.leases[t] IN
          /\ new.version >= old.version
          /\ new.lease_epoch >= old.lease_epoch
          /\ new.lease_epoch = old.lease_epoch =>
               new.owner = old.owner /\ new.idempotency_key = old.idempotency_key
  BY HeadGrows DEF Grows
<1> QED
  BY <1>1, <1>2, PTL DEF Spec, GenerationsGrow
-----------------------------------------------------------------------------
EvidenceInv == Fenced /\ FencingEpoch

(* A step adds no evidence but that of the leases it leaves behind. *)
LEMMA NewEvidenceIsCurrent ==
  ASSUME ControlInv, [Next]_vars
  PROVE  Evidence' \subseteq Evidence \cup Current(head')
<1>1. CASE Quiet
  BY <1>1 DEF Quiet, Evidence
<1>2. CASE Committing
  <2>1. PICK p \in Procs : CommitAccepted(p)
    BY <1>2 DEF Committing
  <2> DEFINE c == execution[p].command
             receipt == ReceiptFor(head, c, execution[p].now)
  <2>2. /\ head' = NextProjection(head, c, execution[p].now)
        /\ c \in Requests /\ execution[p].loaded.head = head
    BY <2>1, CommitKeeps
  <2>3. receipts' = receipts \cup {receipt} /\ grants' = grants
    BY <2>1, <2>2 DEF CommitAccepted
  <2>4. receipt.lease # None => receipt.lease \in Current(head')
    BY <2>2, RequestsAssumption DEF ReceiptFor, Current
  <2> HIDE DEF receipt
  <2> QED
    BY <2>3, <2>4 DEF Evidence
<1>3. CASE ForeignWrite
  BY <1>3 DEF ForeignWrite, TodoWrite, Evidence
<1> QED
  BY <1>1, <1>2, <1>3, StoreSteps

(* The fencing invariant is inductive: old evidence stays behind because     *)
(* leases only grow, new evidence is current.                                *)
LEMMA NextKeepsEvidence ==
  ASSUME ControlInv, EvidenceInv, [Next]_vars
  PROVE  EvidenceInv'
<1>1. head \in Head /\ head' \in Head /\ Evidence \subseteq Generations
  BY NextKeepsControl DEF ControlInv, TypeOK, Evidence
<1>2. ASSUME NEW e \in Evidence PROVE Behind(e, head')
  <2>1. e.todo_id \in Todos /\ e.lease_epoch \in Int
    BY <1>1 DEF Generations
  <2>2. head.leases[e.todo_id] \in Lease /\ head'.leases[e.todo_id] \in Lease
    BY <1>1, <2>1 DEF Head
  <2>3. Grows(head.leases[e.todo_id], head'.leases[e.todo_id])
    BY <2>1, HeadGrows
  <2>4. Behind(e, head)
    BY DEF EvidenceInv, Fenced
  <2> QED
    BY <2>1, <2>2, <2>3, <2>4, GenerationAssumption DEF Behind, Grows, Lease
<1>3. ASSUME NEW e \in Current(head') PROVE Behind(e, head')
  <2>1. PICK t \in Todos : e = Generation(t, head'.leases[t])
    BY DEF Current
  <2>2. head'.leases[t] \in Lease
    BY <1>1 DEF Head
  <2> QED
    BY <2>1, <2>2, GenerationAssumption DEF Behind, Generation, Lease
<1>4. \A e \in Evidence' : Behind(e, head')
  BY <1>2, <1>3, NewEvidenceIsCurrent
<1>5. ASSUME NEW e \in Evidence', NEW f \in Current(head'),
             e.todo_id = f.todo_id, e.lease_epoch = f.lease_epoch
      PROVE  e.owner = f.owner /\ e.idempotency_key = f.idempotency_key
  <2>1. PICK t \in Todos : f = Generation(t, head'.leases[t])
    BY DEF Current
  <2> QED
    BY <1>4, <1>5, <2>1 DEF Behind, Generation
<1>6. ASSUME NEW e \in Evidence', NEW f \in Evidence',
             e.todo_id = f.todo_id, e.lease_epoch = f.lease_epoch
      PROVE  e.owner = f.owner /\ e.idempotency_key = f.idempotency_key
  <2>1. CASE e \in Evidence /\ f \in Evidence
    BY <1>6, <2>1 DEF EvidenceInv, FencingEpoch
  <2>2. CASE f \in Current(head')
    BY <1>5, <1>6, <2>2
  <2>3. CASE e \in Current(head')
    BY <1>5, <1>6, <2>3
  <2> QED
    BY <2>1, <2>2, <2>3, NewEvidenceIsCurrent
<1> QED
  BY <1>4, <1>6 DEF EvidenceInv, Fenced, FencingEpoch

(* The lease epoch is a fencing token in every behaviour: no race, crash,    *)
(* lost answer or retry makes two holders of one epoch.                      *)
THEOREM EpochFencesHolders == Spec => []FencingEpoch
<1>1. Init => EvidenceInv
  BY DEF Init, EvidenceInv, Fenced, FencingEpoch, Evidence
<1>2. Spec => []ControlInv
  BY InitControl, NextKeepsControl, PTL DEF Spec
<1>3. ControlInv /\ EvidenceInv /\ [Next]_vars => EvidenceInv'
  BY NextKeepsEvidence
<1>4. EvidenceInv => FencingEpoch
  BY DEF EvidenceInv
<1> QED
  BY <1>1, <1>2, <1>3, <1>4, PTL DEF Spec

-----------------------------------------------------------------------------
(* A lease that is unexpired was so at every earlier time. *)
LEMMA ActiveBefore ==
  ASSUME NEW lease \in Lease, NEW now \in Int, NEW later \in Int, now <= later,
         leaseIsActive(lease, later)
  PROVE  leaseIsActive(lease, now)
BY DEF leaseIsActive, Lease

(* A lease in force now was in force at an earlier clock sample. *)
LEMMA EffectiveBefore ==
  ASSUME NEW h \in Head, NEW t \in Todos, NEW now \in Int, NEW later \in Int, now <= later,
         Effective(h, t, later)
  PROVE  Effective(h, t, now)
<1>1. h.leases[t] \in Lease
  BY DEF Head
<1> QED
  BY <1>1, ActiveBefore DEF Effective

(* The lease and the mode a command's decision leaves, seen per Todo. *)
LEMMA NextProjectionAt ==
  ASSUME NEW h \in Head, NEW c \in Requests, NEW now \in Int, NEW t \in Todos
  PROVE  LET next == NextProjection(h, c, now) IN
         /\ ~Applies(h, c, now) => next = h
         /\ Applies(h, c, now) /\ c.kind = "set_mode" =>
              /\ next.leases[t] = h.leases[t]
              /\ Quiescent(h, now)
         /\ Applies(h, c, now) /\ c.kind # "set_mode" =>
              /\ next.handoff_mode = h.handoff_mode
              /\ t # c.todo_id => next.leases[t] = h.leases[t]
              /\ t = c.todo_id => next.leases[t] = NextLease(h, c, now)
<1>1. CASE ~Applies(h, c, now)
  BY <1>1 DEF NextProjection
<1>2. CASE Applies(h, c, now) /\ c.kind = "set_mode"
  <2>1. NextProjection(h, c, now) = [h EXCEPT !.handoff_mode = c.requested_mode]
    BY <1>2 DEF NextProjection
  <2>2. NextProjection(h, c, now).leases = h.leases
    BY <2>1 DEF Head
  <2>3. Quiescent(h, now)
    BY <1>2 DEF Applies, decideHandoffMode
  <2> QED
    BY <1>2, <2>2, <2>3
<1>3. CASE Applies(h, c, now) /\ c.kind # "set_mode"
  <2>1. c.todo_id \in Todos
    BY <1>3, RequestsAssumption
  <2>2. NextProjection(h, c, now) =
          [h EXCEPT !.leases[c.todo_id] = NextLease(h, c, now),
                    !.todos[c.todo_id] = ClaimedTodo(h, c)]
    BY <1>3 DEF NextProjection
  <2>3. /\ NextProjection(h, c, now).handoff_mode = h.handoff_mode
        /\ NextProjection(h, c, now).leases = [h.leases EXCEPT ![c.todo_id] = NextLease(h, c, now)]
    BY <2>1, <2>2 DEF Head
  <2> QED
    BY <1>3, <2>1, <2>3 DEF Head
<1> QED
  BY <1>1, <1>2, <1>3

(* Outside hard_lease no lease is unexpired, in every behaviour. *)
THEOREM ModeSwitchesAreQuiescent == Spec => []ModeQuiescence
<1>1. Init => ModeQuiescence
  <2>1. ~leaseIsActive(NoLease, 0)
    BY DEF leaseIsActive, NoLease
  <2>2. Init => \A t \in Todos : head.leases[t] = NoLease
    BY HeadsAssumption DEF Init
  <2> QED
    BY <2>1, <2>2 DEF Init, ModeQuiescence
<1>2. Spec => []ControlInv
  BY InitControl, NextKeepsControl, PTL DEF Spec
<1>3. ControlInv /\ ModeQuiescence /\ [Next]_vars => ModeQuiescence'
  <2> SUFFICES ASSUME ControlInv, ModeQuiescence, [Next]_vars,
                      head'.handoff_mode # "hard_lease", NEW t \in Todos,
                      leaseIsActive(head'.leases[t], clock')
               PROVE  FALSE
    BY DEF ModeQuiescence
  <2>1. /\ head \in Head /\ head' \in Head /\ clock \in Nat /\ clock' \in Nat
        /\ head.leases[t] \in Lease /\ head'.leases[t] \in Lease
    BY NextKeepsControl, BoundsAssumption DEF ControlInv, TypeOK, Head
  <2>2. CASE Quiet
    BY <2>1, <2>2, ActiveBefore DEF Quiet, ModeQuiescence
  <2>3. CASE Committing
    <3>1. PICK p \in Procs : CommitAccepted(p)
      BY <2>3 DEF Committing
    <3> DEFINE c == execution[p].command
               now == execution[p].now
    <3>2. /\ head' = NextProjection(head, c, now) /\ c \in Requests
          /\ now \in Int /\ now <= clock
      BY <3>1, CommitKeeps
    <3>3. clock' = clock
      BY <3>1 DEF CommitAccepted
    <3> HIDE DEF c, now
    <3>4. CASE ~Applies(head, c, now)
      BY <2>1, <3>2, <3>4, <3>3, NextProjectionAt DEF ModeQuiescence
    <3>5. CASE Applies(head, c, now) /\ c.kind = "set_mode"
      <4>1. head'.leases[t] = head.leases[t] /\ Quiescent(head, now)
        BY <2>1, <3>2, <3>5, NextProjectionAt
      <4> QED
        BY <2>1, <3>2, <3>3, <4>1, ActiveBefore DEF Quiescent
    <3>6. CASE Applies(head, c, now) /\ c.kind # "set_mode"
      <4>1. /\ head'.handoff_mode = head.handoff_mode
            /\ t # c.todo_id => head'.leases[t] = head.leases[t]
            /\ t = c.todo_id => head'.leases[t] = NextLease(head, c, now)
        BY <2>1, <3>2, <3>6, NextProjectionAt
      <4>2. CASE t # c.todo_id
        BY <3>3, <4>1, <4>2 DEF ModeQuiescence
      <4>3. CASE c.kind = "release" /\ t = c.todo_id
        BY <2>1, <4>1, <4>3 DEF NextLease, materializeTaskLeaseLifecycle, leaseIsActive, Lease
      <4>4. CASE c.kind # "release"
        BY <3>6, <4>1, <4>4 DEF Applies, AcquireApplies, AcquireAdmitted, RenewApplies,
                                TransferApplies
      <4> QED
        BY <4>2, <4>3, <4>4
    <3> QED
      BY <3>4, <3>5, <3>6
  <2>4. CASE ForeignWrite
    <3>1. /\ head'.handoff_mode = head.handoff_mode /\ clock' = clock
          /\ \/ head'.leases[t] = head.leases[t]
             \/ head'.leases[t] = [head.leases[t] EXCEPT !.status = "released"]
      BY <2>4, TodoWriteGrows DEF ForeignWrite, TodoWrite
    <3>2. CASE head'.leases[t] = head.leases[t]
      BY <3>1, <3>2 DEF ModeQuiescence
    <3>3. CASE head'.leases[t] = [head.leases[t] EXCEPT !.status = "released"]
      BY <2>1, <3>3 DEF leaseIsActive, Lease
    <3> QED
      BY <3>1, <3>2, <3>3
  <2> QED
    BY <2>2, <2>3, <2>4, StoreSteps
<1> QED
  BY <1>1, <1>2, <1>3, PTL DEF Spec
-----------------------------------------------------------------------------
(* A lease in force is taken over by nobody: its epoch ends only by its      *)
(* holder's own transfer.                                                    *)
THEOREM LiveLeasesAreNotPreempted == Spec => NoLivePreemption
<1>1. Spec => []ControlInv
  BY InitControl, NextKeepsControl, PTL DEF Spec
<1>2. ControlInv /\ [Next]_vars =>
        \A t \in Todos :
          (Effective(head, t, clock) /\ head'.leases[t].lease_epoch # head.leases[t].lease_epoch)
          => \E p \in Procs : /\ Commits(p, "transfer")
                              /\ HoldsLease(head.leases[t], execution[p].command)
  <2> SUFFICES ASSUME ControlInv, [Next]_vars, NEW t \in Todos, Effective(head, t, clock),
                      head'.leases[t].lease_epoch # head.leases[t].lease_epoch
               PROVE  \E p \in Procs : /\ Commits(p, "transfer")
                                       /\ HoldsLease(head.leases[t], execution[p].command)
    OBVIOUS
  <2>1. head \in Head /\ clock \in Nat /\ head.leases[t] \in Lease
    BY BoundsAssumption DEF ControlInv, TypeOK, Head
  <2>2. CASE Quiet
    BY <2>2 DEF Quiet
  <2>3. CASE ForeignWrite
    <3>1. \/ head'.leases[t] = head.leases[t]
          \/ head'.leases[t] = [head.leases[t] EXCEPT !.status = "released"]
      BY <2>3, TodoWriteGrows DEF ForeignWrite
    <3> QED
      BY <2>1, <3>1 DEF Lease
  <2>4. CASE Committing
    <3>1. PICK p \in Procs : CommitAccepted(p)
      BY <2>4 DEF Committing
    <3> DEFINE c == execution[p].command
               now == execution[p].now
    <3>2. /\ head' = NextProjection(head, c, now) /\ c \in Requests
          /\ now \in Int /\ now <= clock
      BY <3>1, CommitKeeps
    <3>3. Effective(head, t, now)
      BY <2>1, <3>2, EffectiveBefore
    <3>4. /\ Applies(head, c, now) /\ c.kind # "set_mode" /\ t = c.todo_id
          /\ head'.leases[t] = NextLease(head, c, now)
      BY <2>1, <3>2, NextProjectionAt
    <3>5. c.kind # "acquire"
      BY <3>3, <3>4 DEF Applies, AcquireApplies
    <3>6. c.kind # "release" /\ c.kind # "renew"
      BY <2>1, <3>4 DEF NextLease, materializeTaskLeaseLifecycle, Lease
    <3>7. c.kind = "transfer" /\ HoldsLease(head.leases[t], c)
      BY <3>4, <3>5, <3>6 DEF Applies, TransferApplies
    <3>8. execution[p].pc = "commit" /\ execution'[p].pc = "readback"
      BY <3>1, Running DEF CommitAccepted, Decided, ControlInv, TypeOK, Execution
    <3> QED
      BY <3>7, <3>8 DEF Commits
  <2> QED
    BY <2>2, <2>3, <2>4, StoreSteps
<1> QED
  BY <1>1, <1>2, PTL DEF Spec, NoLivePreemption

(* Two leases in force never share a write scope through an acquisition,     *)
(* whatever the acquiring commands had read when they decided.               *)
THEOREM AcquiredScopesAreExclusive == Spec => ScopesExclusive
<1>1. Spec => []ControlInv
  BY InitControl, NextKeepsControl, PTL DEF Spec
<1>2. ControlInv /\ [Next]_vars =>
        \A p \in Procs, u \in Todos :
          LET c == execution[p].command IN
          (/\ Commits(p, "acquire")
           /\ u # c.todo_id
           /\ head'.leases[c.todo_id].lease_epoch > head.leases[c.todo_id].lease_epoch
           /\ Effective(head, u, clock))
          => ~writeScopesOverlap(head'.leases[c.todo_id].write_scopes, head.leases[u].write_scopes)
  <2> SUFFICES ASSUME ControlInv, [Next]_vars, NEW p \in Procs, NEW u \in Todos,
                      Commits(p, "acquire"), u # execution[p].command.todo_id,
                      head'.leases[execution[p].command.todo_id].lease_epoch
                        > head.leases[execution[p].command.todo_id].lease_epoch,
                      Effective(head, u, clock)
               PROVE  ~writeScopesOverlap(head'.leases[execution[p].command.todo_id].write_scopes,
                                          head.leases[u].write_scopes)
    OBVIOUS
  <2> DEFINE c == execution[p].command
             now == execution[p].now
  <2>1. /\ c \in Requests /\ c.kind = "acquire" /\ c.todo_id \in Todos
        /\ head \in Head /\ clock \in Nat /\ head.leases[c.todo_id] \in Lease
    BY Running, RequestsAssumption, BoundsAssumption DEF Commits, Execution, ControlInv, TypeOK, Head
  <2>2. execution'[p] # execution[p]
    BY DEF Commits
  <2>3. ~Quiet
    BY <2>1, GenerationAssumption DEF Quiet, Lease
  <2>4. ~ForeignWrite
    BY <2>2 DEF ForeignWrite, TodoWrite
  <2>5. CommitAccepted(p)
    <3>1. PICK q \in Procs : CommitAccepted(q)
      BY <2>3, <2>4, StoreSteps DEF Committing
    <3>2. q # p => execution'[p] = execution[p]
      BY <3>1 DEF CommitAccepted, ControlInv, TypeOK
    <3> QED
      BY <2>2, <3>1, <3>2
  <2>6. head' = NextProjection(head, c, now) /\ now \in Int /\ now <= clock
    BY <2>5, CommitKeeps
  <2>7. Applies(head, c, now) /\ head'.leases[c.todo_id] = NextLease(head, c, now)
    <3>1. head' # head
      BY <2>1, GenerationAssumption DEF Lease
    <3> QED
      BY <2>1, <2>6, <3>1, NextProjectionAt
  <2>8. ~ScopeConflict(head, c, now) /\ head'.leases[c.todo_id].write_scopes = c.write_scopes
    BY <2>1, <2>7 DEF Applies, AcquireApplies, NextLease, materializeTaskLeaseAcquire
  <2>9. Effective(head, u, now)
    BY <2>1, <2>6, EffectiveBefore
  <2> QED
    BY <2>8, <2>9 DEF ScopeConflict
<1> QED
  BY <1>1, <1>2, PTL DEF Spec, ScopesExclusive
=============================================================================

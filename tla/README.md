# Verification of the LoopX control plane

LoopX drives long-lived goals with coding agents. Agents run in separate
processes, on several hosts, and are killed and restarted at any time; what they
agree on is one coordination journal per goal, kept by an *authority store*. This
directory holds TLA+ specifications of the part of LoopX that makes this safe:
the task leases, the command protocol over the authority store, the file store
that LoopX uses by default, the mutation lock under every local file; and, on top
of them, the three places where LoopX lets something happen in the world: a Turn of
an agent and its settlement, an operation that a person confirms, and the Turns of a
chat Session.

Run `tlc -config X.cfg M` for a model-checking run and `tlapm M.tla` for the
proofs. `PROJECT.json` maps every definition to the source lines it models.

Contents: [the system](#the-system) ·
[plan](#plan) · [modules](#modules) · [runs](#runs) · [fairness](#fairness) ·
[proofs](#proofs) · [findings](#findings) · [observations](#observations) ·
[not modelled](#what-is-not-modelled)

## The system

Paths are below `src/loopx/control_plane/` unless they say otherwise.

| Component | State it keeps | Operations | Talks to |
|---|---|---|---|
| Lease decisions (`work_items/task_lease_*_decision.ts`, `task_lease_eligibility.ts`) | none, pure | acquire, renew, transfer, release; eligibility of an owner | called by the lease commands |
| Lease and handoff-mode commands (`coordination/task_lease_acquire.ts`, `task_lease_lifecycle.ts`, `handoff_mode_transaction.ts`, `command_receipt.ts`) | receipts and the coordination projection in the store; nothing of their own between two calls | the five commands, each a sequence of awaited store calls | authority store |
| Todo commands (`coordination/todo_claim.ts`, `claim_execution.ts`, `todo_update_admission.ts`, `todo_terminal_lifecycle.ts`) | Todos, claims, relations | claim, update, complete, continue, retire | authority store, with the same receipt protocol |
| Authority store contract (`coordination/authority_store.ts`) | journal, head, receipts, revision | load, commit, read a receipt | implemented by file, SQLite, NoKV and PostgreSQL stores |
| File authority store (`coordination/file_authority_store.ts`, `file_authority_journal.ts`) | one document per goal, one store-identity file | load, commit, receipt, identity bootstrap, archive page append, archive | mutation lock, file system |
| Mutation lock (`effect_runtime_io.ts`) | lock file, claim files | acquire, reclaim a dead lock, release, hand over | file system; used by every local writer |
| SQLite, NoKV, PostgreSQL stores | as the contract | as the contract | external databases |
| Shadow and outbox (`coordination/local_authority_shadow.ts`, `shadow_drain.ts`) | pending deliveries, watermarks | enqueue, drain, roll back | two stores |
| Promotion, migration, legacy fence (`coordination/local_authority_migration.ts`, `legacy_writer_fence.ts`) | provider selector, fence file | import, promote, fence, roll back | file store, Markdown writers |
| Turn driver (`turn_driver/`, `../cli_commands/turn_run_once.py`) | one journal per Turn; lane and journal locks | run a Turn once: recover, start the host, validate, settle, schedule | agent host, Todo, run history, quota, scheduler |
| Human-confirmed operations (`../chat_action_store.py`, `../chat_actions.py`, `collaboration/operation_wake.py`, `../extensions/lark/goal_channel_operation.py`) | one proposal with its operation envelope | prepare, deliver the card, decide, dispatch, launch, consume, report, show the result, recover | message provider, managed Turns |
| Chat sessions (`../chat_runtime.py`, `../chat_store.py`, `../chat_ingress.py`) | Session and Turn files, transcript and event streams; threads, wake hints and done events in memory | submit, queue, run, retry, stop, resume, close, recover, restart | provider adapter |
| Checkpoint commit (`goals/checkpoint_commit.ts`) | checkpoint files | commit with locks handed over by another process | mutation lock |
| Quota, scheduler, effect server, Python CLI, apps | run history, host state | polling, admission, transport, presentation | the above |

Hard behaviours, which `PROJECT.json` lists as hazards with their lines:

* **Decisions on old heads.** A command loads a head, awaits its receipt again and
  decides later; between two awaits any other command may commit. Only the
  store's revision check protects the decision.
* **Lost answers and retries.** A commit can take effect while its answer is lost,
  and callers retry under the same operation id, possibly while the first
  execution is still in flight, possibly with another request.
* **Clocks.** A command samples its clock once, before it loads anything; expiry is
  judged by that sample.
* **Locks that survive their owner.** A dead process leaves lock and claim files,
  complete or torn. Waiters clear them away with a stat, a read and an unlink or
  rename *by path*, which are not atomic together.
* **Effects without a transaction.** A host, a provider, a writeback or a spend
  cannot be undone, and its process may die right after it. A durable intent is
  written before, a receipt after, and whoever continues has to find out which of the
  two he is looking at.
* **Clicks, replays and late cards.** A card callback is delivered any number of times,
  by any message that was ever sent, and races recovery, cancellation and the local
  server; a card is patched by threads that read the result at different times.
* **Threads that outlive their claim.** A chat Turn has a submitter, a worker, a queue
  worker, a stop and a recovery, each of which may end it; each reads a status, does
  something slow and writes.
* **Visible is not durable.** A rename is seen by everybody at once and outlives a
  power loss only after the directory was synced; readers take no lock.

What makes each component correct:

* *leases and commands*: an epoch has one holder; a live lease is not taken over;
  leases in force do not share write scopes by acquisition; no lease is alive
  outside `hard_lease`; versions and epochs never fall; "rejected" means nothing was
  written;
* *authority store*: nobody is told of a transaction that can still disappear; an
  operation id is in the journal once; the identity of a store never changes under
  its documents;
* *Turns*: a host is started again only when the outcome of the last start is known; one
  writeback and one spend per Turn, the spend only for
  validated and written work; "committed" is true of the world; a Turn that is asked for
  comes to an end unless an unfinished hook holds its tail;
* *operations*: one execution is granted, by a click on the very card the operation is
  bound to; one process is launched; facts stay; the card that counts as delivered says
  what the store says; every outcome reaches the conversation;
* *chat*: an input is given to the provider again only for a recorded retry and before
  any tool ran; the Session's adapter executes under the Session's claim; a stop is final;
  one message, one answer, reports of one outcome; a closed Session starts nothing;
* *mutation lock*: nobody's lock is removed while he works under it; nothing of a
  live process stays behind; every call ends.

## Plan

The order follows the importance of the behaviour: first the agreement between
agents, then what it rests on.

1. `TaskLease`, `LeaseCommands`: leases and modes over an atomic store. *Done;
   all properties proved.*
2. `MutationLock`: the lock, one file-system call at a time. *Done; its
   safety properties are proved, its liveness is model-checked.*
3. `AuthorityStore`, `FileAuthorityStore`: the contract and the file store under
   power loss, the second shown to implement the first. *Done; the invariants and
   the refinement are proved.*
4. `OperationApproval`: the life of a human-confirmed operation. *Done; its safety
   properties are proved, its liveness is model-checked.*
5. `TurnExecution`: one Turn from lane fence to return, with every crash. *Done; its
   safety properties are proved, its liveness is model-checked.*
6. `ChatTurns`: the threads of a managed chat Session. *Done; all properties but
   `NoTurnIsForgotten` proved.*
7. Next inside the existing modules: steering and editing of queued input in `ChatTurns`;
   claim and update admission in place of the abstract Todo write of `LeaseCommands`, so
   that the write scopes of leases that become effective again can be stated; lock
   handover in `MutationLock`; archive by rename in `FileAuthorityStore`.
8. Then the legacy writer fence and promotion, shadow outbox and drain, and SQLite
   incarnations against `AuthorityStore`.

Every safety property that a passing run checks has a theorem, except
`NoTurnIsForgotten`. What the proofs assume beyond the
code is listed [there](#proofs); the next ones follow the models of items 7 and 8.

Composition: `LeaseCommands` EXTENDS `TaskLease` and uses the store as
`AuthorityStore` promises it (a commit is one step, receipts are durable);
`FileAuthorityStore` INSTANCEs `AuthorityStore` and uses the lock as `MutationLock`
promises it (one holder, reclaimed after its death). `OperationApproval`,
`TurnExecution` and `ChatTurns` use their file locks in the same way: what runs under one
lock is one action. Each level is checked against
the promise of the one below instead of in one large product.

## Modules

### TaskLease and LeaseCommands

`TaskLease` translates the pure decisions: `AcquireApplies`, `AcquireReplays`,
`RenewApplies`, `TransferApplies`, `ReleaseApplies`, `ReleaseReplays` are the
outcomes apply and no_change of `decideTaskLeaseAcquire` and
`decideTaskLeaseLifecycle`; everything else is a rejection. The `materialize...`
operators are the records the code writes. Versions and epochs end at
`MaxGeneration`, as they do in the code at `Number.MAX_SAFE_INTEGER`.

Abstractions of data: a write scope is an element of a set and scopes overlap when
they share one (the code compares path globs); a Todo is its status, its claim, its
exclusions and whether its dependencies are met; a rejection has no reason code,
since no caller branches on it.

`LeaseCommands` runs the commands. `head`, `revision` and `receipts` are the store;
`execution[p]` is one call in flight: the await where it is (`pc`), the clock sample
(`now`), the loaded snapshot. One action is the code between two awaits:

| Action | Code |
|---|---|
| `Start`, `ReadReceipt` | the entry of a command up to `receipt.read` |
| `LoadAuthority`, `LoadUnavailable`, `Observe` | `CoordinationCommandReceipt.observe`: load, then the receipt a second time, also when the load failed |
| `Reject`, `CommitAccepted`, `CommitRefused` | the decision on the loaded head and `commitAuthority`; the answer may be lost whether or not it took effect |
| `ReadBack` | `CoordinationCommandReceipt.commit` after the store's answer |
| `ProveAcquisition`, `ProveMaintenance`, `ProofUnavailable` | the proof of current rights against a reloaded head |
| `TodoWrite` | the other canonical writers, abstract: such a writer changes a Todo and may release its lease. Claims and updates that also acquire or renew a lease in the same commit (`todo_claim.ts:618` and `725`, `claim_execution.ts:82-133`, `todo_update.ts:333`) are left out |
| `Crash`, `Tick` | the process dies; time passes |

`answer.wrote` and `grants` are ghosts: whether the answered command's own commit
took effect, and the generations that were ever answered as execution rights.

### MutationLock

One action per file-system call of `acquireFileMutationLock`,
`reclaimStaleMutationLock`, `claimFileMutationLock`, `removeDeadMutationLockClaim`,
`releaseFileMutationLock` and `removeCreatedFile`. `lock` and `claim[token]` are the
files at their paths; a file is the record of who made it and a number that stands
for its inode and birth time. A file is empty until its maker writes it; `torn`
files stay empty because their maker failed or died, and `old` ones have passed
`INVALID_LOCK_STALE_MS`. `local[p]` is the call: its program counter and everything
it read before and uses later (identities, owner, claim token).

Faults are a constant, so that a run says which ones it covers: death outside a
claim, death inside a claim, a failed write of the lock, a failed write of a claim.

One assumption is not in the code: `GrowOld` lets a file become stale only when no
live process is still about to write it, that is, a live process does not stall for
ten seconds between creating a file and writing it.

### AuthorityStore and FileAuthorityStore

`AuthorityStore` is the contract that `authority_store.ts` lists: the journal grows by
transactions with new operation ids (`Publish`), becomes durable (`MakeDurable`), is
answered only as far as it is durable (`Answer`), and a power loss takes back at most
what is not durable (`Lose`).

`FileAuthorityStore` is the provider. `doc` and `ident` are the files everybody sees;
`docDisk` and `identDisk` are the sets of contents a power loss may leave: a rename
adds one, `syncAuthorityDirectory` leaves one. A revision is a hash chain over
identity and transactions, so the document itself stands for it. `told` collects
what answers spoke of.

| Action | Code |
|---|---|
| `Call`, `TakeLock`, `LockTimeout` | the entry of an operation and `withFileMutationLock` |
| `ReadRaw` | the lock-free read of `readVerified` |
| `ReadIdentity`, `NewIdentity`, `SyncIdentity` | `readStoreIdentity`, with the second look under the identity lock |
| `Decide` | replay by operation id and content, revision check, page check |
| `Rename`, `SyncDocument` | `replaceFileAuthorityDurably` |
| `IoError`, `Crash`, `PowerLoss` | the failures |

The refinement maps the abstract journal to the rows of `doc`, the durable length to
the shortest document a power loss may leave, and the answered journals to `told`.

### OperationApproval

One `operation.execute` proposal. `proposal` is its record in the action store: the
proposal's status, the lifecycle of the operation envelope, and its facts (delivery,
confirmation, launch, host start, handoff, outcome, reconciliation, result delivery).
Every method of the store runs under its file lock and is one action; everything between
two methods interleaves. `worker[w]` is a callback thread or the recovery loop, `shown[m]`
what provider message `m` displays, `events` the clicks, each of which may be handled any
number of times. `executor` says whether the installed executor has the confirmed revision
and answers its claims. `granted` and `spawned` are ghosts that count what was allowed or
done; `executions` counts the simulations that ran, less those whose outcome was lost.

| Action | Code |
|---|---|
| `CreatePreview`, `ArmOperation`, `Cancel` | the store's methods of these names; `RefuseLocalApply` and `FailLocalApply` are the Chat server's apply handler, which stores a refusal with `mark_gated` and any other error with `mark_failed` |
| `SendCard`, `RecordDelivery`, `Click` | the delivery command and the person; the card is sent from a proposal loaded earlier (only the deadline is looked at again), and a repeated send may be another message |
| `DecideOperation` | `decide_operation` at the start of a callback |
| `TakeDispatchLock` ... `ObserveOutcome` | the dispatch of a claimed simulation under the dispatch lock; `ExecutorRaises` when the revision changed or the answer does not match the claim, on every pass until `ReplaceExecutor` brings the confirmed executor back |
| `ReserveTurn`, `WakeRefused`, `SpawnTurn` | `dispatch_confirmed_operation_wake`: the intent, then the process; its launch of a delegate is left out |
| `TakeResultLock` ... `RecordResultDelivery` | building, patching, reading back and certifying the result card |
| `RecoverSimulationClaim`, `RecoverResult` | the recovery loop |
| `HostStart`, `Consume`, `Report`, `WithdrawBinding` | the managed Turn and its session |
| `Abort` | a thread dies or raises; kernel locks go with it |

A message stands for the digests, chat and card identifiers that the code compares; the
actor policy of a click is assumed to have passed.

### TurnExecution

`run_loopx_turn_once` for the Turns of one lane. `journal[t]` is the durable file,
`proc[p].mem` the copy a process works on; `Persist` is `persist_journal`, which the
journal's owner (`turn_journal_effects.ts`) admits or refuses by `WriteAdmitted`. `todo` and
`world` are what really happened outside: hosts started and reported, writebacks and
spends with their events, the completion of the Todo.

| Action | Code |
|---|---|
| `TakeLane`, `LoadJournal` | the lane fence and the journal's lock |
| `AnswerFromJournal`, `NotAdmitted`, `BeginJournal`, `AuditRecovery`, `ResetFailed` | the recovery decision and what it writes |
| `AttemptHost`, `LaunchHost`, `HostAnswers`, `HostFails`, `HostBreaksContract` | dispatch intent, host, saved result |
| `StopTurn`, `TaskValidated`, `TaskRejected` | task validation |
| `StartSettlement`, `Prepare`, `Resolve`, `ExecutePrepared`, `Checkpoint`, `AbortPrepared`, `SettlementFails` | one reduction of `settlement.py` per action, with its prepared effects |
| `CompleteTodo` ... `RecordSpend`, `ProviderRejects` | the providers of `turn_run_once.py`, the effect and its event in two steps |
| `Schedule`, `ScheduleAndHook`, `EndTurn`, `FinishRecovery`, `Return` | scheduler, post-settlement hook, tail |
| `Crash`, `EditTodo` | a process dies anywhere; another agent changes how the open Todo goes on |

### ChatTurns

One managed Session. `session`, `turn`, `log` and `order` are the files; `fence` the
execution locks with their holder records; `run`, `calls` and `stop` are the threads of
Turn workers and queue worker, of `submit_turn` and `enqueue_turn`, and of
`interrupt_turn`; `done`, `cancelled`, `wake`, `adapter`, `holds`, `alock` and `resume`
are the memory of the service, lost in `Restart`. A message, an answer or an outcome is
counted, never spelled out. `runs[t]` counts how often the provider was given the input of
`t`, each retry included; `run[w].tool` says that a tool ran for it. `alock` is the holder of
the Session's adapter lock and what it remembers: the point it reached, the accepted Turn it
prepares for, the Turn it found in the Session.

| Action | Code |
|---|---|
| `Submit`, `SubmitCut`, `StartWorker` | `submit_turn`: `accept_managed_turn`, whole or cut between two writes; the worker |
| `CreateQueued`, `RetryQueued`, `WakeQueue`, `PollQueue` | `enqueue_turn` with its repair, and the wake hint |
| `ResumeAsk`, `ResumeBegin`, `ResumeTakes` | `resume_session`: the request, its look at adapter and worker, and `prepare_managed_session_resume`, which clears the claim under its own lock |
| `EnsureAdapter`, `FailLost`, `ReportLost`, `AdapterStarts`, `PrepareCut` | `_ensure_adapter_locked`: the Session is read again, the lost Turn is failed, its event is written, the adapter starts, or one of these fails |
| `QueueLoop`, `QueueScan`, `QueueClaim`, `QueueDrop`, `QueueRetire`, `QueueCheck`, `QueuePrepare`, `QueueRuns` | the queue worker |
| `QueueFails`, `QueueForgets` | `_fail_queue_preparation`: the status, then event, message, claim and done event |
| `StartTurn`, `Check`, `CallProvider`, `ToolRuns`, `CommitAnswer`, `FinalizeTurn` | `_run_turn` from its fence to the terminal status |
| `PlanRetry`, `Retry` | `_prepare_transport_retry`: the attempt is recorded after a readback, everything is read again after the backoff, and the accepted input is given again |
| `ProviderFails`, `PublishFailure`, `MarkStale`, `WorkerDies` | `_fail_turn` and what follows it |
| `StopBegin` ... `StopPublish` | `interrupt_turn` |
| `Close`, `CloseAdapter`, `RecoverLost`, `RecoverFail`, `RecoverComplete`, `Restart` | close, recovery of exited executions, restart |

## Runs

| Run | Instance | What it shows |
|---|---|---|
| `lease_races` | 1 Todo, 2 agents, 2 processes, 3 executions out of 6 requests, 1 foreign write, clock 0..2, generations to 3 | `TypeOK`, `FencingEpoch`, `RejectionIsConclusive`, `GenerationsGrow`, `NoLivePreemption` |
| `lease_scopes` | 2 Todos with one scope, 2 agents, 4 executions with mode switches, clock 0..2 | `ModeQuiescence`, `ScopesExclusive` |
| `lock_races` | 3 processes, 2 calls each, crashes outside claims, write and claim-write errors | `TypeOK`, `HeldLockStands` |
| `lock_liveness` | 3 processes, 1 call each, crashes everywhere, write errors | `LeavesNothingBehind`, `CallsReturn` |
| `lock_claim_crash` | 3 processes, 1 call each, crashes inside claims | violates `HeldLockStands` (finding 1) |
| `file_store_durability` | 2 handles, 3 transactions over 2 operation ids, 1 page, 2 identities, all faults | `TypeOK`, `StableLineage`, `DurableReadback`, `DurableIdentity`, `ImplementsStore` |
| `file_store_readback` | the same with one existing-only handle | violates `DurableReadback` (finding 2) |
| `operation_grants` | a managed Turn as executor, 2 callback threads, recovery, 2 messages, local apply requests, 2 clicks, 1 abort, clock 0..1 | `TypeOK`, `OneGrant`, `OneLaunch`, `CertifiedCardShown`, `FactsStay` |
| `operation_recovery` | both executors, 1 callback thread, recovery, local apply requests, an executor that is replaced any number of times, 1 click, 1 abort, clock 0..2 | `ConfirmedOnItsCard`, `ExecutedAgainOnlyIfLost`, `ClaimsResolve`, `ResultsReturn` |
| `operation_cancel` | a managed Turn as executor, 1 callback thread, 1 message, 1 click | violates `CancelMeansNotExecuted` (finding 3) |
| `turn_settlement` | 1 Turn, 2 processes, post-settlement hook, edits of the Todo, 2 host attempts, 3 faults | `NoBlindRelaunch`, `SettledOnce`, `CommittedIsTrue`, `ProgressAdmitted`, `TurnsEnd` |
| `chat_session` | 2 Turns, one of which may be submitted or stopped, queue of 2, 1 Resume, 1 transport retry, 1 fault, 2 of stops, Resumes and faults together | `RunsAreProved`, `RunsUnderItsClaim`, `StopIsFinal`, `OneOutcome`, `ClosedIsQuiet`, `NoTurnIsForgotten`, `OutcomeStays` |

Why these bounds are enough to be interesting. Every race of the commands is between
a decided and a committing execution, so two processes show it; the third execution
is the retry, or the successor that makes a stale decision visible; the fourth, in
`lease_scopes`, switches the mode back. A lease time-to-live of 1 on a clock to 2 makes
a lease valid, expired, and re-acquired over; generations to 3 leave room for every command of the run (that the
limit is never passed is part of the theorems). The
lock needs a dead or releasing owner and two waiters to go wrong, and a second call
to have a successor's lock in the way; `MaxInodes` only has to exceed the identities
remembered at once. The file store's hazards need one writer, one reader or second
writer and one power loss; two operations, one with two bodies, cover a replay, a
conflicting body and an ordinary successor, and a second identity is what a lost one
would be replaced by.

An operation goes wrong when a second click, message or thread meets a half-finished
first one: two clicks on two messages by two callbacks beside recovery show a replay, a
contradiction and a stale card; one abort leaves each intermediate state behind once, and
the clock passes the expiry. The two passing runs split the options because the product of
all would not finish; both admit local apply requests at any time. A Turn needs three faults to be cut in its first attempt, cut again
in the recovery, and rejected or edited in between; two processes show that only one
gets in, and more Turns would only take turns in the lane. A chat Session needs one Turn
in the way of another; the submitted one meets everything the queue does, the queued one
what its submission, stop or failure leaves behind. `MaxUpsets` bounds stops, Resumes and
faults together: any two of them meet, such as a restart and a Resume, or a Resume and a
stop.

`TypeOK` of `TurnExecution` and of `ChatTurns` is proved and checked by no run; the runs
spend their time on the other properties.

Deadlock is not checked: every run ends where its bounds end. In the file store and in
the commands callers may also simply stop calling.

Symmetry is used over processes, callback threads and provider messages, in runs
without liveness properties, where they are interchangeable.

## Fairness

Three modules have liveness properties.

*`MutationLock`.* `FairSpec` assumes weak fairness of each
live process's own steps (the polling loop of `acquireFileMutationLock` runs with a
timer, and each await of a file-system call resolves), including the end of the
protected operation, and of the ageing of abandoned files (time passes). It assumes
nothing about calls, crashes, write errors or the timeout: `CallsReturn` holds without
the timeout, that is, the lock really becomes free. A dead process takes no step, so
the assumption says nothing about it. `claim_error` is left out of the run: a release
whose claim cannot be written leaves the lock until its process exits, by design of the
best-effort release, and other calls then end only by their timeout.

*`OperationApproval`.* Weak fairness of each thread's own steps and of the recovery loop,
which a timer runs every few seconds; strong fairness of recovery getting a lock that is
released again and again (a `flock` waiter), and of a card patch that is tried again and
again being verified in the end: if the provider never shows the card, `ResultsReturn`
cannot hold. Nothing is assumed about callbacks being delivered, clicks, Turns, aborts or
the executor: an installation that lost the confirmed revision raises on every recovery
pass (`goal_channel_operation.py:795-798`, `816-825`, `962`), so `ClaimsResolve` promises an
outcome only if the confirmed executor is installed again and stays (`<>[]executor`), and
only for claims that no local apply request took out of `applying` (`Stranded`).

*`TurnExecution`.* Weak fairness of a running process's next step, and strong fairness of
somebody asking for the Turn with a retry: the scheduler calls run-once on its cadence, and
the lane is free again and again. Faults are bounded and never assumed to happen. `TurnsEnd`
then says that the Turn ends committed, stopped, or at one of the places where the code
leaves it to an operator: the host's outcome is unknown, its retries are used up, its Todo
was edited, or an unfinished hook holds its tail (`HookHoldsTail`, see the observations). The
last is a condition on this Turn's journal at its end; that some write was refused earlier
excuses nothing.

The commands need no liveness statement: each ends after a bounded number of awaits,
and nothing in them waits for another command. The liveness of the chat queue is not
checked: the state graph of `chat_session` is too large for it, and three things in the
code depend on polling or on the user (see the observations); `NoTurnIsForgotten` says
what the wake hints alone achieve.

## Proofs

`LeaseCommands_proofs` proves all seven properties of the two lease runs for every set
of processes, Todos, agents, keys, scopes and requests, and every bound:
`TypeCorrect`, `RejectionsAreConclusive`, `EpochFencesHolders`, `GenerationsOnlyGrow`,
`ModeSwitchesAreQuiescent`, `LiveLeasesAreNotPreempted`,
`AcquiredScopesAreExclusive`.

Assumptions on the constants, all evaluated by the runs: `null` is no agent, key or
Todo; generations and bounds are natural numbers; requests carry the fields their
kind needs (what request decoding enforces); initial heads have no lease; `null` is not
a snapshot.

The inductive invariant is `ControlInv == TypeOK /\ Slots /\ RejectionIsConclusive`.
`Slots` says what an execution in flight knows: its loaded snapshot is no newer than the
store and *equal to the current head while the revisions agree*; its clock sample is
not in the future; once its commit took effect, the store's answer was "applied" or
"ambiguous". Without the first part a commit could not be related to the head it
replaces, since the decision was taken on an older state; the second is why a lease
that is expired for the decider is expired in real time; the third is why a "rejected"
is conclusive.

Along that invariant:

* *pure lemmas*: whatever a command writes is a lease again and `Grows` from the
  one before (`NextLeaseGrows`, `NextProjectionGrows`);
* *control*: each step keeps `ControlInv` (`StepKeepsControl`, `NextKeepsControl`);
* *store steps*: each step is quiet, an accepted commit or a foreign write, and the
  head grows in all of them (`StoreSteps`, `HeadGrows`), hence `GenerationsOnlyGrow`;
* *fencing*: `FencingEpoch` needs `Fenced` beside it, that every receipt and grant is
  `Behind` the present lease: an older epoch, or the same epoch with the same holder.
  New evidence is the present lease (`NewEvidenceIsCurrent`), so it agrees with all of it;
* *modes, preemption, scopes*: case splits over the committing command, with the
  decision evaluated on the current head and a clock sample that is not ahead.

`FileAuthorityStore_proofs` proves, for every number of handles, transactions, pages
and identities: `StoreTypeCorrect` and `LineageIsStable` for every mix of handles, and
`AnswersAreDurable` and `AnsweredIdentityStays` under the assumption `ExistingOnly = {}`.
The assumption is needed: `DurableReadback` is false with existing-only handles
(finding 2), and a handle that answers an unsynced identity breaks `DurableIdentity` in
the same way. Assumptions on the constants: `null` is no process, identity or document;
existing-only handles are handles; requested transactions and pages are made of rows.

The inductive invariant is `StoreInv`. It says of each call, by its program counter,
what it carries (`ControlOK`), which locks it holds (`LocksOK`) and what it may count on
(`Knows`):

* whoever creates an identity found none, and is the only one who looks; whoever syncs
  it holds the one in the file;
* a handle that is not existing-only decides a commit on an identity and a document that
  are durable, since it synced the directory after it took the lock;
* a document about to be published is bound to a durable identity: the handle synced it,
  or the present document already carries it (the only case of an existing-only handle),
  or the caller of an archive restore was told of it;
* a reader's view is a prefix of the document, which only grows while the reader lives.

`FileStep` is what one process may do to the files while the others sleep (nothing, a
sync, a first identity under its lock, a longer document under its lock).
`OthersKeepKnowing` shows that `Knows` survives such steps, `StepOfOne` reduces an action to
the call that takes it, and one lemma per action does the rest. A power loss is treated by
itself: it ends all calls.

`FileAuthorityStore_refinement` proves `FileStoreImplementsStore`: under the same
assumption, `Spec => ImplementsStore`. Beside `StoreInv` the simulation needs `ChainInv`:
what a power loss may leave is always a prefix of the visible document, one of these
documents is shortest (so that the mapping's `durable` is its length), and neither the
document nor one about to be renamed repeats an operation id. Every step is then one of
three (`StepKinds`): *quiet* steps sync, answer, both or neither and are `MakeDurable`,
because `StoreInv` makes what is answered a prefix of everything on disk; a rename is
`Publish`, or a stutter for an empty page; a power loss is `Lose`.

`MutationLock_proofs` proves for every number of processes and calls `CallsFlow` and
`LockTypesHold` under all faults, `HeldLocksStand` as long as nobody dies inside a claim,
and `NothingIsLeftBehind` as long as claims can be written. Both hypotheses are needed:
finding 1 violates the first conclusion, and a release whose claim cannot be written
leaves its lock on purpose. Assumptions on the constants: `None` and the invalid token are
nothing else; bounds are positive.

* `FlowInv`: `TypeOK`, and for each point of a call what it remembers: which identity it
  compared, and why it may claim (the owner is dead, the lock is torn and old, or it is
  its own to release). It survives steps of others because a dead process stays dead, an
  old file stays old and no identity is used for two files that somebody remembers;
* `HeldInv` (`Standing`, `Holding`, `Retiring`, `Claimed`): every claim file has a live
  holder, so that nobody breaks a claim; a token has one holder; and a lock that is about
  to be retired is the very one the claim is for. The first part is what a death inside a
  claim destroys;
* `LeaveInv` (`Cleaning`, `Dropping`): a lock or a claim of a live process is one that its
  present call still knows and is on its way to remove.

`TurnExecution_proofs` proves for every lane, every set of processes, every number of
faults and either setting of the post-settlement hook and of edits: `InvHolds`,
`TypesHold`, `HostsAreAccountedFor`, `SettlementIsIdempotent`,
`JournalTellsTheTruth`, `ProgressIsAdmitted`. Assumptions on the constants: the retry limit
is positive, the scheduler's incomplete answers are finitely many and none is `done`,
`None` is none of the values it stands in for.

* `ControlInv`: only the holder of the lane acts, and behind the journal's lock its copy
  is the journal, up to the scheduler's answer in the tail;
* `TurnsInv`: the journal against the world, with no process running. The launches exceed
  the reports only where the journal says that the outcome is unknown; a phase that is
  recorded has happened, with its event; one that has happened is recorded or prepared;
* `WorkInv`: what the running process knows, by its program counter: whether the prepared
  effect has happened, that what it observed is true, and that its next write is one that
  the journal's owner admits. A crash forgets `WorkInv` and leaves `TurnsInv`, which is all
  that the recovery starts from.

`ChatTurns_proofs` proves for every set of Turns, every queue limit and every number of
retries, Resumes, faults and restarts `InputsAreGivenByProof`, `OutcomesStay`,
`OutcomesAgree`, `StopsAreFinal`, `ChatTypesHold`, `ClaimsAreKept` and
`ClosedSessionsAreQuiet`. The one assumption, `ConstantsDistinct`, keeps Turns, the queue
worker and the names of lock holders apart. Two layers, each with a theorem of its own:

* `BooksInv` (`BooksAreKept`), that is `Shape`, `ThreadInv`, `FenceInv` and `LedgerInv`: a
  worker past the fence is the one that the fence names; the status of a Turn and the point
  of its worker tell how often its input was given, one more than the retries on record once
  it was; what is published of a Turn fits its status, and whoever is about to publish an
  answer or a stop is the first. Failures are counted without a limit, since `FailLost` and
  `ReportLost` are not fenced from a recovery;
* `SessionInv` (`SessionIsGuarded`), that is `LockInv`, `QueueInv`, `ClosedInv` and `ClaimInv`
  beside it: nobody has a usable adapter between the closing of a sick one and the start of
  the next, which is why Resume can take the claim from a Turn that no longer reaches the
  provider; the queue worker between its scan and its claim keeps the Session lock; no Turn
  waits in a closed Session; a worker that may call the provider with a usable adapter for
  an open Turn has the Session's claim.

`OperationApproval_proofs` proves all seven safety properties of the two passing operation
runs for every set of callback threads and messages, every number of clicks and aborts, and
every clock: `OperationTyped`, `ExecutionGrantedOnce`, `DecidedOnTheBoundCard`,
`FactsAreKept`, `LaunchedOnce`, `CertifiedCardsAreShown` and `ExecutedAgainOnlyAfterALoss`,
all with local apply requests and changing executors. Assumptions on the constants: the
executor kinds are known ones, the recovery thread is no callback thread, bounds are natural
numbers, `None` is none of the values it stands in for.

The invariants build on each other:

* `TypeInv`: `TypeOK`, and a thread that patches or records a card carries one;
* `StoreInv`: how status, lifecycle and facts go together. A decided operation was
  delivered, and decided on that card; a claim is a confirmed decision; an outcome is on
  record exactly in `outcome_observed`; nothing is granted before the handoff;
* `LaunchInv`: whoever is about to spawn has its intent on record and is the only one, and
  nothing was spawned before, so that no intent leads to two processes;
* `CardInv`: whoever works on the result card holds the result lock; the view it carries
  is true of the store as far as it goes; a card that was patched and not yet certified is
  what the bound message displays. Without the lock a slower thread could overwrite the
  card between the patch and its certificate;
* `ExecInv`: a simulation that has run, whose outcome is neither on record nor lost, is in
  the hands of the one holder of the dispatch lock.

Each has one lemma for the steps of the store and one for each group of worker steps;
`FactsAreKept` follows from `StoreInv`, since no method has its guard true on a fact that is
there.

Only model-checked, since liveness under fairness is out of the prover's reach:
`CallsReturn`, `ClaimsResolve`, `ResultsReturn` and `TurnsEnd`; and `NoTurnIsForgotten`, an
invariant of histories without faults, whose inductive form has not been worked out for the
Resume of several writes. No theorem speaks of the three runs that end in a violation
beyond the hypotheses that they make necessary.

## Findings

1. **A live lock can be retired after its owner's predecessor died in its release**
   (`lock_claim_crash`, `effect_runtime_io.ts:186`). The owner dies with its claim on
   disk. Two waiters find the claim dead and compare its identity; the first removes it,
   makes its own claim and gets past the identity check of the lock; the second then
   unlinks *by path*, which removes the first one's fresh claim, makes a claim too and
   gets past the same check. One retires the dead lock and acquires a new one; the other's
   rename retires that live lock. The comment at lines 281-283 says that the claim and
   the identity check prevent this. `HeldLockStands` holds as long as nobody dies inside
   a claim (`lock_races`, and the theorem `HeldLocksStand`).
2. **Existing-only handles answer before durability** (`file_store_readback`,
   `file_authority_store.ts:239`). Such a handle reads the identity without syncing the
   directory, so it can answer from a document that was renamed but not synced; after a
   power loss the answered transaction is gone. `authority_store.ts:13` requires
   `durable_same_key_readback`. Other handles sync on every read, and for them the
   property holds (`file_store_durability`).
3. **An operation that was allowed to execute can be recorded as cancelled before its
   confirmation** (`operation_cancel`, `chat_server.py:1526`). A local apply request of a
   confirmed and claimed operation is refused, and `mark_gated` stores the refusal although
   the operation is `applying`; the gated proposal can be cancelled, and `cancel`
   (`chat_action_store.py:1301-1339`) looks neither at the lifecycle nor at the consumption.
   The card then says 确认请求已取消，未执行, cancelled and not executed
   (`goal_channel_operation.py:377`), while the Turn had its `execution_allowed`.
   `human-confirmed-domain-operations-v0.md:177`: "Cancellation and expiry may terminate an
   unclaimed request."

## Observations

Further things the models show; they are part of the models as they are.

*Operations*

* A local apply request that gates or fails a claimed simulation (`mark_gated`,
  `mark_failed`) strands it: recovery runs only claims that are `applying`, and an outcome
  that arrives later is refused, which `ClaimsResolve` names as `Stranded`.
* A claim whose executor was replaced is tried again on every recovery pass and never
  given up or reported.

*Turns*

* A crash after the reset of a failed journal and before the next dispatch intent leaves a
  journal that looks like a host start without an outcome, and recovery is blocked
  (`executor.py:1681`); `TurnsEnd` counts it as left to an operator.
* A Turn whose post-settlement hook left a retryable receipt while its scheduler answer is
  incomplete stays in `scheduler_action_required`: every resume writes the tail with the
  hook's new receipt, and the journal's owner refuses it (`turn_journal_effects.ts:317-324`,
  `executor.py:1397`). `post_settlement.py:127` says that optional learning never gates the
  Turn, and `docs/reference/protocols/loopx-turn-v0.md:597` that it continues from
  `scheduler_apply`. `TurnsEnd` excuses exactly this state (`HookHoldsTail`).
* A Todo edited after the writeback can make a failure report inadmissible.
  `ProgressAdmitted` speaks of the writes that bring work forward; tail and failure writes
  are not among them.

*Chat*

* The queue worker replaces the done event of a submitted Turn's worker
  (`chat_runtime.py:1616`) and drops it when it loses the fence, so that a stop may report
  "interrupted" while the first worker still goes on to call the provider. The outcome
  stays "interrupted".
* Resume clears the Session's claim (`chat_store.py:675`) before the Turn that had it is
  failed (`chat_runtime.py:921-934`). When the queue worker claims the next Turn in between,
  that Turn counts as the accepted one, and the interrupted Turn is never failed; once the
  queue is done, Close finds neither an active nor a queued Turn and closes over a Turn that
  is still `running`, after one restart as the only fault. `chat_store.py:1801` says "Close an
  idle managed Session without stranding background work." `ClosedIsQuiet` is what holds:
  nothing waits in the closed Session and nothing is started for an open Turn.
* When the queue's claim comes between Resume's look at the adapter and its write, Resume
  takes that claim and fails the queued Turn as `server_restarted`; `chat_store.py:649` says
  "Begin managed resume without taking ownership from an active Turn."
* The lost Turn's status (`chat_runtime.py:925`) and its `turn.failed` event (935) are two
  writes without the execution fence. A recovery in between finds no event and writes its
  own, so that the failure is reported twice; `chat_ingress.py:253` says that the missing
  writes are finished idempotently under the execution fence. `OneOutcome` therefore does
  not bound the reports of a failure, and says that nothing else is reported beside it.
* A preparation that fails at the start of the adapter writes the Session's `active_turn_id`
  anew (`chat_runtime.py:1033`), which clears a claim made meanwhile.
* Transport retries give the accepted input again; the readback proves that no tool ran,
  not that the model did not begin to answer (`chat_agent.py:1632-1712`).
* A worker that lost its transport marks its Session stale (`chat_runtime.py:2051`) without
  looking at its status, which may reopen a Session that is being closed.
* A wake hint is lost when a submitted Turn is accepted between the queue worker's look at
  the Session and its claim, or when a stop releases a Turn that is being prepared; the
  polling services (`external_conversations.py:1851`, `goal_topic_runtime_service.py:544`)
  wake the queue again.
* A failed write in the publication of an answer leaves the Turn completing, and the queue
  behind it, until a restart or a stop; an unconfirmed stop leaves it interrupting until
  the user asks again.

## What is not modelled

* *Mutation lock*: the handover of a held lock to another process
  (`goals/checkpoint_commit.ts`, `turn_driver/turn_journal_effects.ts`, used in
  `TurnExecution` as a lock that is simply held), the Windows
  `EPERM` retry, clock steps and stalls of more than ten seconds.
* *File store*: `archiveAuthorityDocument` (a rename across directories),
  `withCheckpointHead`, the compact encoding of journal rows, the read cache (it is used
  only for the very bytes read again), the no-op directory sync on Windows.
* *Leases*: path globs, isolated worktrees, objective and acceptance contracts, several
  repositories, request decoding.
* *Todo commands*: one abstract action so far.
* *SQLite, NoKV, PostgreSQL*: their atomicity is that of the database; SQLite is planned.
* *Shadow, outbox, promotion, migration, fence*: planned.
* *Operations*: the wake's launch of a delegate (`operation_wake.py:161-238`), digests, card layout, actor policy, the retention of old proposals, other
  kinds of proposals.
* *Turns*: the write of an unchanged journal on a recovery that starts from a saved host
  result (`executor.py:1022-1067`), admission of other goals' work and the hold on the tail that it may cause,
  decision capture, the content of host session bindings and cadence reservations,
  inspection commands.
* *Chat*: attached host Sessions, steering and editing of queued input, expiry, model and
  account routing, native Goal and peer Turns; during a transcript compaction, the early stop
  (`chat_runtime.py:2205-2210`) and the early close without the adapter lock (2359-2366). A
  stop waits for the queue worker's step between scan and claim, which holds the Session lock
  but not the Turn's (`chat_store.py:1541-1555`); the wake hint is kept where an active Turn
  with an adapter has just ended and is forgotten one step later; `FailLost` writes the
  Session's status "resuming" and the Turn's status in one step, since nobody tells
  "resuming" from "stale".
* *Quota*: large rule tables over run history, without concurrency of their own.
* *Scheduler, heartbeat, effect server, Python CLI, apps*: host polling, transport,
  parsing and presentation. The Python writers' `flock` locks are the kernel's.

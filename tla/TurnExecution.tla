--------------------------- MODULE TurnExecution ---------------------------
(* The bounded Turns of one lane, an agent working one goal: run_loopx_turn_ *)
(* once takes the lane, loads the Turn's journal, runs the host, has its     *)
(* answer validated and settles it: durable writeback, quota spend, terminal *)
(* closeout, scheduler.  Every stage ends with a journal write.  A process   *)
(* may die or raise between any two steps, and a later call continues from   *)
(* the journal.  journal[t] is the file; the process works on its copy, mem. *)
EXTENDS Integers, Sequences, FiniteSets

CONSTANTS
  Processes,   \* callers of run-once
  Turns,       \* Turn keys of the lane
  PostHook,    \* whether a post-settlement capability is registered
  Incomplete,  \* the answers of a scheduler that is not done yet
  Edits,       \* whether others change how the Todo goes on
  RetryLimit,  \* max_attempts of a retryable host failure
  MaxFaults,   \* bound: everything that goes wrong, in total
  None

ASSUME FlagsAssumption == PostHook \in BOOLEAN /\ Edits \in BOOLEAN
ASSUME BoundsAssumption == RetryLimit \in Nat \ {0} /\ MaxFaults \in Nat
ASSUME IncompleteAssumption == IsFiniteSet(Incomplete) /\ "done" \notin Incomplete

VARIABLES
  journal,  \* Turn -> its durable journal, None before the first write
  lane,     \* the process that holds the lane
  jlock,    \* Turn -> the process that holds the journal's file lock
  proc,     \* process -> where it is and what it has in memory
  todo,     \* Turn -> the selected Todo
  world,    \* Turn -> what really happened outside
  faults,
  refused   \* the kinds of journal writes that were refused, of Writes

store == <<journal, refused>>
effects == <<todo, world>>
vars == <<store, lane, jlock, proc, effects, faults>>

TRANSACTION_PHASES ==
  <<"host_execute", "typed_result", "validation", "durable_writeback", "quota_spend",
    "scheduler_apply", "scheduler_ack">>
Steps == {"durable_writeback", "quota_spend", "terminal_closeout"}
Statuses == {"in_progress", "scheduler_action_required", "committed", "stopped", "failed"}
HostFailures == {"transport_lost", "unknown", "output_budget_exhausted"}
ResultKinds == {"progress", "completion", "stop"}
Continuations == {"successor", "no_followup"}

Journal ==
  [status : Statuses, phases : 0..7, attempts : Nat, prepared : Steps \cup {None},
   failedAt : Steps \cup {"host_execute", "validation", None},
   stage : {"host_result_contract", "task_postcondition", None},
   failure : HostFailures \cup {None}, kind : ResultKinds \cup {None},
   writeback : Continuations \cup {"plain", None}, closeout : BOOLEAN,
   scheduler : Incomplete \cup {"done", None}, post : {"retryable", "observed", None},
   audit : {"started", "finished", None}]

ASSUME NoneAssumption ==
  /\ None \notin Processes \cup Turns \cup Incomplete \cup Journal
  /\ None \notin Statuses \cup Steps \cup HostFailures \cup ResultKinds \cup Continuations
  /\ None \notin {"host_execute", "typed_result", "validation", "scheduler_apply",
                 "scheduler_ack", "plain", "done", "settled", "absent", "rejected",
                 "aborted", "returned", "found"}

Points == {"idle", "lock", "assess", "reset", "host", "launch", "running", "validate",
           "settle", "reduce", "complete", "completeEvent", "refresh", "refreshEvent",
           "spend", "spendEvent", "tail", "finish", "leave"}
Writes == {"tail", "failure", "progress"}
Observations == {"absent", "unknown", "rejected", "aborted", "returned", "found", None}

Rest == [pc |-> "idle", turn |-> None, retry |-> FALSE, recovering |-> FALSE,
         terminal |-> FALSE, obs |-> None, mem |-> None]

TypeOK ==
  /\ journal \in [Turns -> Journal \cup {None}]
  /\ lane \in Processes \cup {None}
  /\ jlock \in [Turns -> Processes \cup {None}]
  /\ proc \in [Processes ->
                 [pc : Points, turn : Turns \cup {None}, retry : BOOLEAN,
                  recovering : BOOLEAN, terminal : BOOLEAN, obs : Observations,
                  mem : Journal \cup {None}]]
  /\ todo \in [Turns -> [cont : Continuations, done : Continuations \cup {None},
                         event : BOOLEAN, edited : BOOLEAN]]
  /\ world \in [Turns -> [launches : Nat, reported : Nat, passed : BOOLEAN,
                          wbRuns : Nat, wbEvent : BOOLEAN, spRuns : Nat,
                          spEvent : BOOLEAN]]
  /\ faults \in 0..MaxFaults
  /\ refused \subseteq Writes

Init ==
  /\ journal = [t \in Turns |-> None]
  /\ lane = None
  /\ jlock = [t \in Turns |-> None]
  /\ proc = [p \in Processes |-> Rest]
  /\ todo \in [Turns -> [cont : Continuations, done : {None}, event : {FALSE},
                         edited : {FALSE}]]
  /\ world = [t \in Turns |-> [launches |-> 0, reported |-> 0, passed |-> FALSE,
                               wbRuns |-> 0, wbEvent |-> FALSE, spRuns |-> 0,
                               spEvent |-> FALSE]]
  /\ faults = 0
  /\ refused = {}

-----------------------------------------------------------------------------
(* The journal's write admission.                                            *)

Terminal(j) == j.status \in {"committed", "stopped"}
NextPhase(j) == IF j.phases < 7 THEN TRANSACTION_PHASES[j.phases + 1] ELSE None
PhasesBefore == [durable_writeback |-> 3, quota_spend |-> 4, terminal_closeout |-> 5]

(* journalPhaseViolation and preparedAttemptViolation find nothing. *)
Consistent(j) ==
  /\ j.status = "committed" => j.phases = 7
  /\ j.status = "stopped" => j.phases = 3
  /\ j.status = "scheduler_action_required" => j.phases = 5
  /\ j.status = "in_progress" => j.phases <= 5
  /\ j.status = "failed" => \/ j.failedAt # None /\ j.failedAt = NextPhase(j)
                            \/ j.failedAt = "terminal_closeout" /\ j.phases = 5
  /\ j.prepared # None => /\ j.phases = PhasesBefore[j.prepared]
                          /\ j.status \in {"in_progress", "failed"}

AuditOnly(old, new) == [old EXCEPT !.audit = None] = [new EXCEPT !.audit = None]

StatusTransitions ==
  [in_progress |-> Statuses, failed |-> {"failed", "in_progress"},
   scheduler_action_required |-> {"scheduler_action_required", "committed"}]

LegalPhaseAdvances == {<<0, 2>>, <<2, 3>>, <<3, 4>>, <<4, 5>>, <<5, 7>>}

LegalTransition(old, new) ==
  IF Terminal(old) THEN AuditOnly(old, new)
  ELSE /\ new.status \in StatusTransitions[old.status]
       /\ (old.status = new.status /\ old.status # "in_progress") => AuditOnly(old, new)
       /\ \/ old.phases = new.phases
          \/ <<old.phases, new.phases>> \in LegalPhaseAdvances
          \/ /\ new.phases < old.phases
             /\ old.status = "failed" /\ old.failedAt = "validation"
             /\ new.status = "in_progress"

(* commitTurnJournal. *)
WriteAdmitted(old, new) ==
  /\ Consistent(new)
  /\ IF old = None THEN new.status = "in_progress" /\ new.phases = 0
     ELSE old = new \/ LegalTransition(old, new)

-----------------------------------------------------------------------------
(* The process and its journal.                                              *)

Unlock(p) ==
  /\ lane' = IF lane = p THEN None ELSE lane
  /\ jlock' = [t \in Turns |-> IF jlock[t] = p THEN None ELSE jlock[t]]

(* The call returns or raises; its memory and its kernel locks are gone. *)
Leave(p) == proc' = [proc EXCEPT ![p] = Rest] /\ Unlock(p)

(* What a refused write was for: the tail of a Turn that waits for its       *)
(* scheduler, the report of a failure, or anything that brings work forward. *)
KindOfWrite(old, new) ==
  IF old # None /\ old.status = "scheduler_action_required" THEN "tail"
  ELSE IF new.status = "failed" THEN "failure" ELSE "progress"

(* persist_journal: a refused write raises. *)
PersistAnd(p, m, next, obs) ==
  LET t == proc[p].turn IN
  IF WriteAdmitted(journal[t], m)
  THEN /\ journal' = [journal EXCEPT ![t] = m]
       /\ proc' = [proc EXCEPT ![p].mem = m, ![p].pc = next, ![p].obs = obs]
       /\ UNCHANGED <<lane, jlock, refused>>
  ELSE /\ refused' = refused \cup {KindOfWrite(journal[t], m)}
       /\ Leave(p)
       /\ UNCHANGED journal

Persist(p, m, next) == PersistAnd(p, m, next, None)

Goto(p, next) == proc' = [proc EXCEPT ![p].pc = next] /\ UNCHANGED <<lane, jlock>>
Fault == faults < MaxFaults /\ faults' = faults + 1
At(p, pc) == proc[p].pc = pc
Mem(p) == proc[p].mem

(* finish_recovery completes the audit of a continued journal. *)
Done(p) == IF proc[p].recovering THEN "finish" ELSE "leave"

(* single_executor_per_turn_lane: a caller that finds the lane held is       *)
(* refused before it touches anything.                                       *)
TakeLane(p, t, retry) ==
  /\ At(p, "idle") /\ lane = None
  /\ lane' = p
  /\ proc' = [proc EXCEPT ![p] = [Rest EXCEPT !.pc = "lock", !.turn = t, !.retry = retry]]
  /\ UNCHANGED <<store, jlock, effects, faults>>

LoadJournal(p) ==
  LET t == proc[p].turn IN
  /\ At(p, "lock") /\ jlock[t] = None
  /\ jlock' = [jlock EXCEPT ![t] = p]
  /\ proc' = [proc EXCEPT ![p].pc = "assess", ![p].mem = journal[t]]
  /\ UNCHANGED <<store, lane, effects, faults>>

-----------------------------------------------------------------------------
(* Recovery.                                                                 *)

(* Mutant: an in-progress journal is always continued. *)
HostOutcomeUnknown_Never(j) == FALSE

(* A durable dispatch intent without its result. *)
HostOutcomeUnknown(j) == j.status = "in_progress" /\ j.phases < 2 /\ j.attempts # 0

(* hostRetryPolicyCheck: a kind without a policy is left to the operator. *)
RetryExhausted(j) ==
  \/ j.failure = "output_budget_exhausted"
  \/ j.failure = "transport_lost" /\ j.attempts >= RetryLimit

(* Mutant: a failed journal is the answer even when a retry was asked for. *)
RecoveryDecision_NoRetry(j, retry) ==
  IF Terminal(j) \/ j.status = "failed" THEN "return_existing"
  ELSE IF HostOutcomeUnknown(j) THEN "blocked" ELSE "continue"

(* recoveryDecision: what a call does with the journal it finds. *)
RecoveryDecision(j, retry) ==
  IF Terminal(j) THEN "return_existing"
  ELSE IF HostOutcomeUnknown(j) THEN "blocked"
  ELSE IF j.status # "failed" THEN "continue"
  ELSE IF ~retry THEN "return_existing"
  ELSE IF RetryExhausted(j) THEN "blocked" ELSE "continue"

(* validation_reinvokes_host: the host's answer broke its contract. *)
ReinvokesHost(j) == j.failedAt = "validation" /\ j.stage # "task_postcondition"
NeedsHost(j) == j = None \/ (j # None /\ (j.phases < 2 \/ ReinvokesHost(j)))

Continues(p) ==
  /\ At(p, "assess")
  /\ Mem(p) # None => RecoveryDecision(Mem(p), proc[p].retry) = "continue"

(* A terminal or failed journal is the answer, or recovery is blocked. *)
AnswerFromJournal(p) ==
  /\ At(p, "assess") /\ ~Continues(p)
  /\ Leave(p)
  /\ UNCHANGED <<store, effects, faults>>

(* The goal's lifetime, the cadence owner or the host session binding of a   *)
(* failed attempt refuses, before anything is written.                       *)
NotAdmitted(p) ==
  /\ Continues(p)
  /\ NeedsHost(Mem(p))
  /\ Fault
  /\ Leave(p)
  /\ UNCHANGED <<store, effects>>

FreshJournal ==
  [status |-> "in_progress", phases |-> 0, attempts |-> 0, prepared |-> None,
   failedAt |-> None, stage |-> None, failure |-> None, kind |-> None,
   writeback |-> None, closeout |-> FALSE, scheduler |-> None, post |-> None,
   audit |-> None]

BeginJournal(p) ==
  /\ Continues(p) /\ Mem(p) = None
  /\ Persist(p, FreshJournal, "host")
  /\ UNCHANGED <<effects, faults>>

(* A saved result was admitted when it was saved and is used again. *)
AfterRecovery(m) == IF m.phases < 2 THEN "host" ELSE "validate"

AuditRecovery(p) ==
  LET m == [Mem(p) EXCEPT !.audit = "started"] IN
  /\ Continues(p) /\ Mem(p) # None
  /\ IF WriteAdmitted(journal[proc[p].turn], m)
     THEN /\ journal' = [journal EXCEPT ![proc[p].turn] = m]
          /\ proc' = [proc EXCEPT ![p].mem = m, ![p].recovering = TRUE,
                        ![p].pc = IF m.status = "failed" THEN "reset"
                                  ELSE AfterRecovery(m)]
          /\ UNCHANGED <<lane, jlock, refused>>
     ELSE /\ refused' = refused \cup {KindOfWrite(journal[proc[p].turn], m)}
          /\ Leave(p)
          /\ UNCHANGED journal
  /\ UNCHANGED <<effects, faults>>

(* The failed journal as its retry starts it. *)
RetryJournal(m) ==
  IF m.failedAt # "validation"
  THEN [m EXCEPT !.status = "in_progress", !.failedAt = None, !.failure = None]
  ELSE [m EXCEPT !.status = "in_progress", !.failedAt = None, !.failure = None,
                 !.stage = None, !.kind = IF ReinvokesHost(m) THEN None ELSE @,
                 !.phases = IF ReinvokesHost(m) THEN 0 ELSE 2]

ResetFailed(p) ==
  LET m == RetryJournal(Mem(p)) IN
  /\ At(p, "reset")
  /\ Persist(p, m, AfterRecovery(m))
  /\ UNCHANGED <<effects, faults>>

-----------------------------------------------------------------------------
(* The host.                                                                 *)

AttemptHost(p) ==
  /\ At(p, "host")
  /\ Persist(p, [Mem(p) EXCEPT !.attempts = @ + 1], "launch")
  /\ UNCHANGED <<effects, faults>>

LaunchHost(p) ==
  /\ At(p, "launch")
  /\ world' = [world EXCEPT ![proc[p].turn].launches = @ + 1]
  /\ Goto(p, "running")
  /\ UNCHANGED <<store, todo, faults>>

Reported(p) == world' = [world EXCEPT ![proc[p].turn].reported = @ + 1]

HostFails(p, k) ==
  /\ At(p, "running")
  /\ Fault
  /\ Persist(p, [Mem(p) EXCEPT !.status = "failed", !.failedAt = "host_execute",
                               !.phases = 0, !.failure = k], Done(p))
  /\ Reported(p)
  /\ UNCHANGED todo

(* validate_loopx_turn_host_result finds errors. *)
HostBreaksContract(p) ==
  /\ At(p, "running")
  /\ Fault
  /\ Persist(p, [Mem(p) EXCEPT !.status = "failed", !.failedAt = "validation",
                               !.phases = 2, !.stage = "host_result_contract"], Done(p))
  /\ Reported(p)
  /\ UNCHANGED todo

HostAnswers(p, k) ==
  /\ At(p, "running")
  /\ Persist(p, [Mem(p) EXCEPT !.kind = k, !.phases = 2], "validate")
  /\ Reported(p)
  /\ UNCHANGED <<todo, faults>>

-----------------------------------------------------------------------------
(* Task validation.                                                          *)

StopTurn(p) ==
  /\ At(p, "validate") /\ Mem(p).kind = "stop"
  /\ Persist(p, [Mem(p) EXCEPT !.status = "stopped", !.phases = 3], Done(p))
  /\ UNCHANGED <<effects, faults>>

(* A stored positive validation is used again. *)
TaskValidated(p) ==
  /\ At(p, "validate") /\ Mem(p).kind # "stop"
  /\ Persist(p, [Mem(p) EXCEPT !.phases = IF @ < 3 THEN 3 ELSE @,
                               !.stage = "task_postcondition"], "settle")
  /\ world' = [world EXCEPT ![proc[p].turn].passed = TRUE]
  /\ UNCHANGED <<todo, faults>>

TaskRejected(p) ==
  /\ At(p, "validate") /\ Mem(p).kind # "stop" /\ Mem(p).phases < 3
  /\ Fault
  /\ Persist(p, [Mem(p) EXCEPT !.status = "failed", !.failedAt = "validation",
                               !.stage = "task_postcondition"], Done(p))
  /\ UNCHANGED effects

-----------------------------------------------------------------------------
(* Settlement: one reduction decides each provider action.                   *)

(* terminal_closeout_requirement: the recorded completion, or the intent     *)
(* read from the Todo.                                                       *)
CloseoutRequired(m, t) ==
  /\ m.kind = "completion"
  /\ IF m.writeback \in Continuations THEN m.writeback = "no_followup"
     ELSE todo[t].cont = "no_followup"

StartSettlement(p) ==
  /\ At(p, "settle")
  /\ proc' = [proc EXCEPT ![p].pc = "reduce",
                          ![p].terminal = CloseoutRequired(Mem(p), proc[p].turn)]
  /\ UNCHANGED <<store, lane, jlock, effects, faults>>

(* Mutant: quota is spent before the work is written back. *)
NextStep_SpendFirst(m, terminal) ==
  IF m.phases = 3 THEN "quota_spend"
  ELSE IF m.phases = 4 THEN "durable_writeback"
  ELSE IF terminal /\ ~m.closeout THEN "terminal_closeout" ELSE "settled"

NextStep(m, terminal) ==
  IF m.phases = 3 THEN "durable_writeback"
  ELSE IF m.phases = 4 THEN "quota_spend"
  ELSE IF terminal /\ ~m.closeout THEN "terminal_closeout" ELSE "settled"

StepOf(p) == NextStep(Mem(p), proc[p].terminal)

(* completion_writeback, rather than writeback, is the provider. *)
Completing(p) == Mem(p).kind = "completion" /\ ~proc[p].terminal

(* A recorded writeback that lacks the completion this settlement expects. *)
CompletionMissing(p) ==
  Mem(p).phases \in {4, 5} /\ Completing(p) /\ Mem(p).writeback # "successor"

Reducing(p) == At(p, "reduce") /\ ~CompletionMissing(p)

Provider(p) ==
  IF StepOf(p) = "quota_spend" THEN "spend"
  ELSE IF StepOf(p) = "terminal_closeout" \/ Completing(p) THEN "complete" ELSE "refresh"

Prepare(p) ==
  /\ Reducing(p) /\ StepOf(p) \in Steps
  /\ Mem(p).prepared = None /\ proc[p].obs = None
  /\ Persist(p, [Mem(p) EXCEPT !.prepared = StepOf(p)], Provider(p))
  /\ UNCHANGED <<effects, faults>>

(* Mutant: only the settlement event is read, and only of a writeback. *)
Readback_RunOnly(t, step) ==
  IF step = "durable_writeback" /\ world[t].wbEvent THEN "found" ELSE "absent"

(* What the provider's durable records say of the step. *)
Readback(t, step) ==
  LET run == IF step = "durable_writeback" THEN world[t].wbRuns > 0
             ELSE IF step = "quota_spend" THEN world[t].spRuns > 0
             ELSE todo[t].done = "no_followup"
      event == IF step = "durable_writeback" THEN world[t].wbEvent
               ELSE IF step = "quota_spend" THEN world[t].spEvent
               ELSE todo[t].event
  IN  IF run THEN "found" ELSE IF event THEN "unknown" ELSE "absent"

(* Mutant: a durable run is the answer, its settlement event is not repaired. *)
Resolve_NoRepair(p) ==
  /\ Reducing(p) /\ StepOf(p) = Mem(p).prepared /\ proc[p].obs = None
  /\ proc' = [proc EXCEPT ![p].obs = Readback(proc[p].turn, Mem(p).prepared)]
  /\ UNCHANGED <<store, lane, jlock, effects, faults>>

(* resolve_prepared: the resolver repairs a missing event of a durable run. *)
Resolve(p) ==
  LET t == proc[p].turn
      step == Mem(p).prepared
      found == Readback(t, step) = "found"
  IN
  /\ Reducing(p) /\ StepOf(p) = step /\ proc[p].obs = None
  /\ proc' = [proc EXCEPT ![p].obs = Readback(t, step)]
  /\ world' = [world EXCEPT ![t].wbEvent = @ \/ (found /\ step = "durable_writeback"),
                            ![t].spEvent = @ \/ (found /\ step = "quota_spend")]
  /\ todo' = [todo EXCEPT ![t].event = @ \/ (found /\ step = "terminal_closeout")]
  /\ UNCHANGED <<store, lane, jlock, faults>>

ResolveFails(p) ==
  /\ Reducing(p) /\ StepOf(p) = Mem(p).prepared /\ proc[p].obs = None
  /\ Fault
  /\ proc' = [proc EXCEPT ![p].obs = "unknown"]
  /\ UNCHANGED <<store, lane, jlock, effects>>

ExecutePrepared(p) ==
  /\ Reducing(p) /\ proc[p].obs = "absent"
  /\ Goto(p, Provider(p))
  /\ UNCHANGED <<store, effects, faults>>

(* The completion in the provider's payload. *)
Payload(p) ==
  IF (proc[p].obs = "found" \/ Completing(p)) /\ todo[proc[p].turn].done # None
  THEN todo[proc[p].turn].done ELSE "plain"

CompletionWrong(p) ==
  \/ StepOf(p) = "durable_writeback" /\ Completing(p) /\ Payload(p) # "successor"
  \/ StepOf(p) = "terminal_closeout" /\ todo[proc[p].turn].done # "no_followup"

Checkpoint(p) ==
  LET m == [Mem(p) EXCEPT !.prepared = None] IN
  /\ Reducing(p) /\ proc[p].obs \in {"returned", "found"} /\ ~CompletionWrong(p)
  /\ Persist(p, IF StepOf(p) = "durable_writeback"
                THEN [m EXCEPT !.phases = 4, !.writeback = Payload(p)]
                ELSE IF StepOf(p) = "quota_spend" THEN [m EXCEPT !.phases = 5]
                ELSE [m EXCEPT !.closeout = TRUE, !.writeback = "no_followup"],
             "reduce")
  /\ UNCHANGED <<effects, faults>>

(* abort_prepared, then the failure of the rejected step. *)
AbortPrepared(p) ==
  /\ Reducing(p) /\ proc[p].obs = "rejected"
  /\ PersistAnd(p, [Mem(p) EXCEPT !.prepared = None], "reduce", "aborted")
  /\ UNCHANGED <<effects, faults>>

FailSettlement(p, step) ==
  /\ Persist(p, [Mem(p) EXCEPT !.status = "failed", !.failedAt = step], Done(p))
  /\ UNCHANGED <<effects, faults>>

(* The reduction fails; an unresolved effect stays prepared.  (A settled     *)
(* journal with a prepared effect, which also fails, lacks the completion.)  *)
SettlementFails(p) ==
  \/ At(p, "reduce") /\ CompletionMissing(p) /\ FailSettlement(p, "durable_writeback")
  \/ /\ Reducing(p)
     /\ \/ proc[p].obs \in {"unknown", "aborted"}
        \/ proc[p].obs \in {"returned", "found"} /\ CompletionWrong(p)
     /\ FailSettlement(p, StepOf(p))

-----------------------------------------------------------------------------
(* The providers.  A step may raise after its effect: the process dies.      *)

Returned(p) ==
  /\ proc' = [proc EXCEPT ![p].pc = "reduce", ![p].obs = "returned"]
  /\ UNCHANGED <<lane, jlock>>

(* todo_completion, or the reading of the completion this Turn already made. *)
CompleteTodo(p) ==
  LET t == proc[p].turn IN
  /\ At(p, "complete")
  /\ todo' = [todo EXCEPT ![t].done =
                IF @ # None /\ StepOf(p) = "durable_writeback" THEN @ ELSE todo[t].cont]
  /\ Goto(p, "completeEvent")
  /\ UNCHANGED <<store, world, faults>>

RecordCompletion(p) ==
  /\ At(p, "completeEvent")
  /\ todo' = [todo EXCEPT ![proc[p].turn].event = TRUE]
  /\ IF StepOf(p) = "durable_writeback" THEN Goto(p, "refresh") ELSE Returned(p)
  /\ UNCHANGED <<store, world, faults>>

RefreshState(p) ==
  /\ At(p, "refresh")
  /\ world' = [world EXCEPT ![proc[p].turn].wbRuns = @ + 1]
  /\ Goto(p, "refreshEvent")
  /\ UNCHANGED <<store, todo, faults>>

RecordRefresh(p) ==
  /\ At(p, "refreshEvent")
  /\ world' = [world EXCEPT ![proc[p].turn].wbEvent = TRUE]
  /\ Returned(p)
  /\ UNCHANGED <<store, todo, faults>>

SpendQuotaSlot(p) ==
  /\ At(p, "spend")
  /\ world' = [world EXCEPT ![proc[p].turn].spRuns = @ + 1]
  /\ Goto(p, "spendEvent")
  /\ UNCHANGED <<store, todo, faults>>

RecordSpend(p) ==
  /\ At(p, "spendEvent")
  /\ world' = [world EXCEPT ![proc[p].turn].spEvent = TRUE]
  /\ Returned(p)
  /\ UNCHANGED <<store, todo, faults>>

(* The provider answers that it did not commit. *)
ProviderRejects(p) ==
  /\ \/ At(p, "refresh") \/ At(p, "spend")
     \/ At(p, "complete") /\ todo[proc[p].turn].done = None
  /\ Fault
  /\ proc' = [proc EXCEPT ![p].pc = "reduce", ![p].obs = "rejected"]
  /\ UNCHANGED <<store, lane, jlock, effects>>

-----------------------------------------------------------------------------
(* The tail: scheduler and post-settlement hook.                             *)

Settled(p) == Reducing(p) /\ StepOf(p) = "settled" /\ Mem(p).prepared = None

HookDue(m) == PostHook /\ m.post # "observed"

ScheduleAnswer(p, s) == [Mem(p) EXCEPT !.scheduler = s]

Schedule(p, s) ==
  /\ Settled(p) /\ ~HookDue(Mem(p))
  /\ IF s = "done" THEN UNCHANGED faults ELSE Fault
  /\ proc' = [proc EXCEPT ![p].mem = ScheduleAnswer(p, s), ![p].pc = "tail"]
  /\ UNCHANGED <<store, lane, jlock, effects>>

(* run_post_settlement_callback writes the journal before the tail does. *)
ScheduleAndHook(p, s, receipt) ==
  /\ Settled(p) /\ HookDue(Mem(p))
  /\ IF s = "done" /\ receipt = "observed" THEN UNCHANGED faults ELSE Fault
  /\ Persist(p, [ScheduleAnswer(p, s) EXCEPT !.post = receipt], "tail")
  /\ UNCHANGED effects

EndTurn(p) ==
  /\ At(p, "tail")
  /\ Persist(p, IF Mem(p).scheduler = "done"
                THEN [Mem(p) EXCEPT !.status = "committed", !.phases = 7]
                ELSE [Mem(p) EXCEPT !.status = "scheduler_action_required"], Done(p))
  /\ UNCHANGED <<effects, faults>>

FinishRecovery(p) ==
  /\ At(p, "finish")
  /\ Persist(p, [Mem(p) EXCEPT !.audit = "finished"], "leave")
  /\ UNCHANGED <<effects, faults>>

Return(p) ==
  /\ At(p, "leave")
  /\ Leave(p)
  /\ UNCHANGED <<store, effects, faults>>

(* The process dies or raises. *)
Crash(p) ==
  /\ ~At(p, "idle")
  /\ Fault
  /\ Leave(p)
  /\ UNCHANGED <<store, effects>>

(* Another agent changes how the open Todo goes on. *)
EditTodo(t) ==
  /\ Edits /\ todo[t].done = None
  /\ Fault
  /\ todo' = [todo EXCEPT ![t].cont = IF @ = "successor" THEN "no_followup"
                                      ELSE "successor",
                          ![t].edited = @ \/ journal[t] # None]
  /\ UNCHANGED <<store, lane, jlock, proc, world>>

Step(p) ==
  \/ LoadJournal(p) \/ AnswerFromJournal(p)
  \/ BeginJournal(p) \/ AuditRecovery(p) \/ ResetFailed(p)
  \/ AttemptHost(p) \/ LaunchHost(p)
  \/ \E k \in ResultKinds : HostAnswers(p, k)
  \/ StopTurn(p) \/ TaskValidated(p) \/ StartSettlement(p)
  \/ Prepare(p) \/ Resolve(p) \/ ExecutePrepared(p) \/ Checkpoint(p)
  \/ AbortPrepared(p) \/ SettlementFails(p)
  \/ CompleteTodo(p) \/ RecordCompletion(p) \/ RefreshState(p) \/ RecordRefresh(p)
  \/ SpendQuotaSlot(p) \/ RecordSpend(p)
  \/ Schedule(p, "done") \/ ScheduleAndHook(p, "done", "observed")
  \/ EndTurn(p) \/ FinishRecovery(p) \/ Return(p)

Faulty(p) ==
  \/ NotAdmitted(p) \/ Crash(p) \/ HostBreaksContract(p) \/ TaskRejected(p)
  \/ \E k \in HostFailures : HostFails(p, k)
  \/ ResolveFails(p) \/ ProviderRejects(p)
  \/ \E s \in Incomplete : Schedule(p, s)
  \/ \E s \in Incomplete \cup {"done"}, r \in {"retryable", "observed"} :
       /\ s # "done" \/ r # "observed"
       /\ ScheduleAndHook(p, s, r)

Next ==
  \/ \E p \in Processes, t \in Turns, r \in BOOLEAN : TakeLane(p, t, r)
  \/ \E p \in Processes : Step(p) \/ Faulty(p)
  \/ \E t \in Turns : EditTodo(t)

Spec == Init /\ [][Next]_vars

(* A process that runs goes on; somebody keeps asking for every Turn, with   *)
(* the failed ones retried.                                                  *)
Fairness ==
  /\ \A p \in Processes : WF_vars(Step(p))
  /\ \A t \in Turns : SF_vars(\E p \in Processes : TakeLane(p, t, TRUE))

FairSpec == Spec /\ Fairness

-----------------------------------------------------------------------------
(* Properties.                                                               *)

(* The host of a Turn is started again only when the outcome of every        *)
(* earlier start is in the journal, whatever crashed in between.             *)
NoBlindRelaunch == \A t \in Turns : world[t].launches <= world[t].reported + 1

(* However often the Turn is resumed, its work is written back at most once  *)
(* and its slot is spent at most once, and only for work that was validated  *)
(* and durably written back.                                                 *)
SettledOnce ==
  \A t \in Turns :
    /\ world[t].wbRuns <= 1 /\ world[t].spRuns <= 1
    /\ world[t].spRuns > 0 => world[t].passed /\ world[t].wbRuns > 0

(* A committed journal tells the truth about the world: the writeback, the   *)
(* spend and their receipts exist, and the Todo of a completion is done as   *)
(* the journal says.  A stopped Turn has had no effect.                      *)
CommittedIsTrue ==
  \A t \in Turns : journal[t] # None =>
    /\ journal[t].status = "committed" =>
         /\ world[t].wbRuns > 0 /\ world[t].wbEvent
         /\ world[t].spRuns > 0 /\ world[t].spEvent
         /\ journal[t].kind = "completion" =>
              todo[t].event /\ todo[t].done = journal[t].writeback
    /\ journal[t].status = "stopped" =>
         world[t].wbRuns = 0 /\ world[t].spRuns = 0 /\ todo[t].done = None

(* The journal's owner, a second implementation of the transaction's rules,  *)
(* never refuses a write that brings work forward: an attempt, a retry, a    *)
(* prepared effect or a checkpoint, after whatever history of crashes.       *)
ProgressAdmitted == "progress" \notin refused

(* The scheduler has not acknowledged the Turn and its post-settlement hook  *)
(* is still due: a resume runs both and writes what they answered, which the *)
(* journal's owner refuses for a Turn that waits for its scheduler.          *)
HookHoldsTail(j) == j.status = "scheduler_action_required" /\ HookDue(j)

(* Every Turn that keeps being asked for comes to an end: committed, stopped,*)
(* left to an operator because its host's outcome is unknown or its retries  *)
(* are used up, or held at its tail by a hook that is due, unless the Todo's *)
(* continuation changed under it.                                            *)
TurnsEnd ==
  \A t \in Turns :
    <>[](\/ todo[t].edited
         \/ /\ journal[t] # None
            /\ \/ Terminal(journal[t]) \/ HostOutcomeUnknown(journal[t])
               \/ journal[t].status = "failed" /\ RetryExhausted(journal[t])
               \/ HookHoldsTail(journal[t]))
=============================================================================

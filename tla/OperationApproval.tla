------------------------- MODULE OperationApproval -------------------------
(* One operation.execute proposal of the Chat action store, from its preview *)
(* to the result card in the conversation.  A person confirms or rejects it  *)
(* on the provider message it was delivered as; a confirmed operation is     *)
(* either simulated by the callback process or consumed once by the managed  *)
(* Turn that it names.  The store commits one method call at a time under    *)
(* its file lock, so a method is one action; everything between two calls    *)
(* interleaves: callback workers, the recovery loop, the local Chat server,  *)
(* the command that delivers the card and the managed Turns.                 *)
EXTENDS Integers, FiniteSets

CONSTANTS
  Kinds,      \* executor kinds the proposal may name, of ExecutorKinds
  Callbacks,  \* threads that handle card callbacks
  Recovery,   \* the collector's recovery thread
  Messages,   \* provider messages the card may be sent as
  Expires,    \* the operation's expires_at
  MaxClock,   \* bound: clock
  Skew,       \* the tolerated clock skew of five minutes
  MaxEvents,  \* bound: clicks
  MaxAborts,  \* bound: threads that die between two steps
  None

ExecutorKinds == {"simulation", "managed_turn"}
Workers == Callbacks \cup {Recovery}

ASSUME KindsAssumption == Kinds \subseteq ExecutorKinds
ASSUME WorkersAssumption == Recovery \notin Callbacks
ASSUME ClockAssumption ==
  {Expires, MaxClock, Skew, MaxEvents, MaxAborts} \subseteq Nat
VARIABLES
  proposal,   \* the proposal with its operation envelope
  clock,
  shown,      \* what each provider message displays, None before it is sent
  events,     \* clicks, each of which may be handled any number of times
  worker,     \* each callback or recovery thread
  dispatchLock, resultLock,
  binding,    \* the managed session is the bound one and its goal is active
  executor,   \* the installed executor has the confirmed revision and answers its claims
  granted,    \* consumptions answered with execution_allowed
  executions, \* simulations run, less those whose outcome no thread has nor the store
  spawned,    \* Turn processes that callbacks started
  aborts

store == <<proposal>>
ghosts == <<granted, executions, spawned>>
threads == <<worker, dispatchLock, resultLock, aborts>>
others == <<clock, shown, events, binding, executor>>
vars == <<store, ghosts, threads, others>>

Outcomes == {"rejected_by_operator", "cancelled_before_confirmation", "simulated",
             "executed", "not_executed", "submission_unknown"}
Reports == {"executed", "not_executed", "submission_unknown"}
Statuses == {"preview_ready", "gated", "applying", "failed", "rejected", "cancelled", "applied"}
LifecycleStates == {"awaiting_confirmation", "claimed", "outcome_observed"}
Stages == {"initial", "reconciled"}
Decisions == {"confirm", "reject"}

Event == [id : 1..MaxEvents, decision : Decisions, msg : Messages, at : 0..MaxClock]

Proposal ==
  [kind : ExecutorKinds, status : Statuses \cup {None},
   lifecycle : LifecycleStates \cup {None},
   delivery : [msg : Messages, at : 0..MaxClock] \cup {None},
   confirmation : Event \cup {None}, launched : BOOLEAN, hostStart : BOOLEAN,
   handoff : BOOLEAN, outcome : Outcomes \cup {None},
   reconciliation : Reports \cup {None}, resultDelivery : Stages \cup {None}]

Points == {"idle", "dispatchLock", "dispatch", "observe", "spawn", "resultLock", "result",
           "patch", "record"}
Contents == {"confirm", "pending"} \cup Outcomes
View == [content : Contents, stage : Stages, final : BOOLEAN]
Rest == [pc |-> "idle", view |-> None]

ASSUME NoneAssumption ==
  /\ None \notin Messages \cup Workers \cup Nat
  /\ None \notin Statuses \cup LifecycleStates \cup Stages \cup Contents \cup Reports
  /\ None \notin Event \cup [msg : Messages, at : 0..MaxClock]

TypeOK ==
  /\ proposal \in Proposal
  /\ clock \in 0..MaxClock
  /\ shown \in [Messages -> Contents \cup {None}]
  /\ events \subseteq Event
  /\ worker \in [Workers -> [pc : Points, view : View \cup {None}]]
  /\ dispatchLock \in Workers \cup {None} /\ resultLock \in Workers \cup {None}
  /\ binding \in BOOLEAN /\ executor \in BOOLEAN
  /\ granted \in Nat /\ executions \in Int /\ spawned \in Nat /\ aborts \in 0..MaxAborts

(* The request exists and the store does not know it yet. *)
Init ==
  /\ \E k \in Kinds :
       proposal = [kind |-> k, status |-> None, lifecycle |-> None, delivery |-> None,
                   confirmation |-> None, launched |-> FALSE, hostStart |-> FALSE,
                   handoff |-> FALSE, outcome |-> None, reconciliation |-> None,
                   resultDelivery |-> None]
  /\ clock = 0
  /\ shown = [m \in Messages |-> None]
  /\ events = {}
  /\ worker = [w \in Workers |-> Rest]
  /\ dispatchLock = None /\ resultLock = None
  /\ binding = TRUE /\ executor = TRUE
  /\ granted = 0 /\ executions = 0 /\ spawned = 0 /\ aborts = 0

-----------------------------------------------------------------------------
(* Preparing and cancelling.                                                 *)

IsAgent == proposal.kind = "managed_turn"

(* create_preview answers a known idempotency key with its proposal, so that *)
(* the service arms an unarmed preview on the first call or on a retry.  The *)
(* executor is resolved before anything is written.                          *)
CreatePreview ==
  /\ proposal.status = None /\ executor
  /\ proposal' = [proposal EXCEPT !.status = "preview_ready"]
  /\ UNCHANGED <<ghosts, threads, others>>

(* An unarmed preview that is no longer preview_ready is a conflict. *)
ArmOperation ==
  /\ proposal.lifecycle = None /\ proposal.status = "preview_ready"
  /\ proposal' = [proposal EXCEPT !.lifecycle = "awaiting_confirmation", !.status = "gated"]
  /\ UNCHANGED <<ghosts, threads, others>>

Cancel ==
  /\ proposal.status \in {"preview_ready", "gated", "failed"}
  /\ proposal' = IF proposal.lifecycle = None
                 THEN [proposal EXCEPT !.status = "cancelled"]
                 ELSE [proposal EXCEPT !.status = "cancelled",
                                       !.lifecycle = "outcome_observed",
                                       !.outcome = "cancelled_before_confirmation"]
  /\ UNCHANGED <<ghosts, threads, others>>

(* The Chat server's apply: the service refuses to apply an operation, and   *)
(* the handler answers the refusal with mark_gated.                          *)
RefuseLocalApply ==
  /\ proposal.status \in {"applying", "preview_ready"}
  /\ proposal' = [proposal EXCEPT !.status = "gated"]
  /\ UNCHANGED <<ghosts, threads, others>>

(* A request to apply that is malformed, or meets an unexpected error, is    *)
(* answered with mark_failed.                                                *)
FailLocalApply ==
  /\ proposal.status \in {"applying", "preview_ready", "gated"}
  /\ proposal' = [proposal EXCEPT !.status = "failed"]
  /\ UNCHANGED <<ghosts, threads, others>>

-----------------------------------------------------------------------------
(* Delivering the card, and the click.                                       *)

(* The command loaded the operation while it awaited its confirmation and    *)
(* checks only the deadline again before it sends: the operation may have    *)
(* gone on by then.  The provider answers a repeated send with the first     *)
(* message or with a message of its own.                                     *)
SendCard(m) ==
  /\ proposal.lifecycle # None /\ clock < Expires
  /\ shown[m] = None
  /\ shown' = [shown EXCEPT ![m] = "confirm"]
  /\ UNCHANGED <<store, ghosts, threads, clock, events, binding, executor>>

(* record_operation_delivery and record_operation_delivery_snapshot, by a    *)
(* command that read its message back, however late.  A second delivery      *)
(* record differs from the first, if only in its time, and is refused.       *)
RecordDelivery(m) ==
  /\ shown[m] # None
  /\ proposal.lifecycle = "awaiting_confirmation" /\ proposal.delivery = None
  /\ proposal' = [proposal EXCEPT !.delivery = [msg |-> m, at |-> clock]]
  /\ UNCHANGED <<ghosts, threads, others>>

(* An authorized person clicks on a card that was sent, recorded or not. *)
Click(m, d) ==
  /\ shown[m] # None
  /\ Cardinality(events) < MaxEvents
  /\ events' = events \cup
       {[id |-> Cardinality(events) + 1, decision |-> d, msg |-> m, at |-> clock]}
  /\ UNCHANGED <<store, ghosts, threads, clock, shown, binding, executor>>

Tick ==
  /\ clock < MaxClock
  /\ clock' = clock + 1
  /\ UNCHANGED <<store, ghosts, threads, shown, events, binding, executor>>

-----------------------------------------------------------------------------
(* The callback: decide, dispatch, show the result.                          *)

At(w, point) == worker[w].pc = point
Go(w, point) == worker' = [worker EXCEPT ![w].pc = point]
Stop(w) == worker' = [worker EXCEPT ![w] = Rest]

(* Mutant: a card of the same request counts, whatever message it is. *)
CallbackMatches_AnyMessage(e) ==
  /\ proposal.delivery # None
  /\ e.at + Skew >= proposal.delivery.at
  /\ e.at <= Expires
  /\ e.at <= clock + Skew

(* decide_operation's checks against the message the operation is bound to. *)
CallbackMatches(e) ==
  /\ proposal.delivery # None
  /\ e.msg = proposal.delivery.msg
  /\ e.at + Skew >= proposal.delivery.at
  /\ e.at <= Expires
  /\ e.at <= clock + Skew

DecisionConsumed(e) == proposal.confirmation # None /\ proposal.confirmation.id = e.id

(* Mutant: the confirmation that was consumed is not looked at. *)
AwaitsDecision_Again ==
  /\ proposal.status \in {"gated", "applying"}
  /\ proposal.lifecycle \in {"awaiting_confirmation", "claimed"}

AwaitsDecision ==
  /\ proposal.confirmation = None
  /\ proposal.status = "gated" /\ proposal.lifecycle = "awaiting_confirmation"

Decided(e) ==
  IF e.decision = "reject"
  THEN [proposal EXCEPT !.confirmation = e, !.lifecycle = "outcome_observed",
                        !.outcome = "rejected_by_operator", !.status = "rejected"]
  ELSE [proposal EXCEPT !.confirmation = e, !.lifecycle = "claimed", !.status = "applying"]

(* A conflict leaves the store alone and ends the callback. *)
DecideOperation(w, e) ==
  /\ w \in Callbacks /\ At(w, "idle")
  /\ \/ DecisionConsumed(e) /\ UNCHANGED proposal
     \/ AwaitsDecision /\ CallbackMatches(e) /\ proposal' = Decided(e)
  /\ Go(w, "dispatchLock")
  /\ UNCHANGED <<ghosts, dispatchLock, resultLock, aborts, others>>

(* Mutant: dispatch without the lock. *)
TakeDispatchLock_Unlocked(w) ==
  /\ At(w, "dispatchLock")
  /\ dispatchLock' = w
  /\ Go(w, "dispatch")
  /\ UNCHANGED <<store, ghosts, resultLock, aborts, others>>

TakeDispatchLock(w) ==
  /\ At(w, "dispatchLock") /\ dispatchLock = None
  /\ dispatchLock' = w
  /\ Go(w, "dispatch")
  /\ UNCHANGED <<store, ghosts, resultLock, aborts, others>>

(* A callback goes on to show the result; recovery takes that up by itself.  *)
AfterDispatch(w) == IF w = Recovery THEN "idle" ELSE "resultLock"

(* Dispatch under the lock reads the proposal again and acts on a claimed    *)
(* operation only.                                                           *)
NothingToDispatch(w) ==
  /\ At(w, "dispatch") /\ proposal.lifecycle # "claimed"
  /\ dispatchLock' = None
  /\ Go(w, AfterDispatch(w))
  /\ UNCHANGED <<store, ghosts, resultLock, aborts, others>>

(* _execute_claimed_operation with the executor that was confirmed. *)
ExecuteClaimed(w) ==
  /\ At(w, "dispatch") /\ proposal.lifecycle = "claimed" /\ ~IsAgent /\ executor
  /\ executions' = executions + 1
  /\ Go(w, "observe")
  /\ UNCHANGED <<store, granted, spawned, dispatchLock, resultLock, aborts, others>>

(* It raises when the executor has another revision by now, or answered with *)
(* something else than the outcome of this claim, which is thrown away.      *)
ExecutorRaises(w) ==
  /\ At(w, "dispatch") /\ proposal.lifecycle = "claimed" /\ ~IsAgent /\ ~executor
  /\ dispatchLock' = None
  /\ Stop(w)
  /\ UNCHANGED <<store, ghosts, resultLock, aborts, others>>

(* observe_operation_outcome for an executor that is not an Agent.  Only a   *)
(* claimed operation of an applying proposal records an outcome; any other   *)
(* is a conflict, and the outcome is lost.                                   *)
CanObserve == proposal.lifecycle = "claimed" /\ proposal.status = "applying"

ObserveOutcome(w) ==
  /\ At(w, "observe")
  /\ dispatchLock' = None
  /\ IF CanObserve
     THEN /\ proposal' = [proposal EXCEPT !.lifecycle = "outcome_observed",
                                          !.outcome = "simulated", !.status = "applied"]
          /\ Go(w, AfterDispatch(w))
          /\ UNCHANGED executions
     ELSE /\ Stop(w)
          /\ executions' = executions - 1
          /\ UNCHANGED proposal
  /\ UNCHANGED <<granted, spawned, resultLock, aborts, others>>

(* Mutant: a launch intent on record does not hold the launch back. *)
WakeAdmitted_Again ==
  /\ ~proposal.hostStart /\ ~proposal.handoff
  /\ proposal.outcome = None /\ proposal.status = "applying"
  /\ binding /\ clock < Expires /\ proposal.confirmation.at <= clock

(* dispatch_confirmed_operation_wake.  The launch intent is committed before *)
(* the process is spawned; an operation with an intent is never launched     *)
(* again.  Without a launch grant, or when admission fails, nothing happens. *)
WakeAdmitted ==
  /\ ~proposal.launched /\ ~proposal.hostStart /\ ~proposal.handoff
  /\ proposal.outcome = None /\ proposal.status = "applying"
  /\ binding /\ clock < Expires /\ proposal.confirmation.at <= clock

ReserveTurn(w) ==
  /\ At(w, "dispatch") /\ proposal.lifecycle = "claimed" /\ IsAgent
  /\ WakeAdmitted
  /\ proposal' = [proposal EXCEPT !.launched = TRUE]
  /\ Go(w, "spawn")
  /\ UNCHANGED <<ghosts, dispatchLock, resultLock, aborts, others>>

WakeRefused(w) ==
  /\ At(w, "dispatch") /\ proposal.lifecycle = "claimed" /\ IsAgent
  /\ dispatchLock' = None
  /\ Go(w, AfterDispatch(w))
  /\ UNCHANGED <<store, ghosts, resultLock, aborts, others>>

SpawnTurn(w) ==
  /\ At(w, "spawn")
  /\ spawned' = spawned + 1
  /\ dispatchLock' = None
  /\ Go(w, AfterDispatch(w))
  /\ UNCHANGED <<store, granted, executions, resultLock, aborts, others>>

(* Mutant: the card of a claimed operation has nothing to say. *)
Content_OutcomeOnly ==
  IF proposal.reconciliation # None THEN proposal.reconciliation ELSE proposal.outcome

(* What the result card says, and the stage a delivery of it certifies.      *)
Content ==
  IF proposal.reconciliation # None THEN proposal.reconciliation
  ELSE IF proposal.outcome # None THEN proposal.outcome ELSE "pending"
Stage == IF proposal.reconciliation # None THEN "reconciled" ELSE "initial"
ResultDeliveryCurrent ==
  proposal.resultDelivery # None /\ (IsAgent => proposal.resultDelivery = Stage)

TakeResultLock(w) ==
  /\ At(w, "resultLock") /\ resultLock = None
  /\ resultLock' = w
  /\ Go(w, "result")
  /\ UNCHANGED <<store, ghosts, dispatchLock, aborts, others>>

BuildResultCard(w) ==
  /\ At(w, "result")
  /\ IF ResultDeliveryCurrent
     THEN Stop(w) /\ resultLock' = None
     ELSE /\ worker' = [worker EXCEPT ![w] =
                [pc |-> "patch",
                 view |-> [content |-> Content, stage |-> Stage,
                           final |-> proposal.lifecycle = "outcome_observed"]]]
          /\ UNCHANGED resultLock
  /\ UNCHANGED <<store, ghosts, dispatchLock, aborts, others>>

(* The provider shows the card and the readback verifies it. *)
PatchCard(w) ==
  /\ At(w, "patch")
  /\ shown' = [shown EXCEPT ![proposal.delivery.msg] = worker[w].view.content]
  /\ IF worker[w].view.final
     THEN Go(w, "record") /\ UNCHANGED resultLock
     ELSE Stop(w) /\ resultLock' = None
  /\ UNCHANGED <<store, ghosts, dispatchLock, aborts, clock, events, binding, executor>>

(* The patch is not verified: it may or may not be shown. *)
PatchUnverified(w) ==
  /\ At(w, "patch")
  /\ shown' \in {shown, [shown EXCEPT ![proposal.delivery.msg] = worker[w].view.content]}
  /\ Stop(w) /\ resultLock' = None
  /\ UNCHANGED <<store, ghosts, dispatchLock, aborts, clock, events, binding, executor>>

(* record_operation_result_delivery refuses a stage that is not current, and *)
(* replaces a recorded delivery only when the result was reconciled since.   *)
ResultDeliveryAccepted(stage) ==
  /\ IsAgent => stage = Stage
  /\ \/ proposal.resultDelivery = None
     \/ IsAgent /\ proposal.resultDelivery = "initial" /\ Stage = "reconciled"

(* Mutant: the receipt names the stage of the moment, not of the card. *)
RecordResultDelivery_StageOfNow(w) ==
  /\ At(w, "record")
  /\ proposal' = IF ResultDeliveryAccepted(Stage)
                 THEN [proposal EXCEPT !.resultDelivery = Stage]
                 ELSE proposal
  /\ Stop(w) /\ resultLock' = None
  /\ UNCHANGED <<ghosts, dispatchLock, aborts, others>>

RecordResultDelivery(w) ==
  /\ At(w, "record")
  /\ proposal' = IF ResultDeliveryAccepted(worker[w].view.stage)
                 THEN [proposal EXCEPT !.resultDelivery = worker[w].view.stage]
                 ELSE proposal
  /\ Stop(w) /\ resultLock' = None
  /\ UNCHANGED <<ghosts, dispatchLock, aborts, others>>

(* A thread dies with its process: kernel locks are released, and an outcome *)
(* that only the thread had is lost.                                         *)
Abort(w) ==
  /\ ~At(w, "idle") /\ aborts < MaxAborts
  /\ aborts' = aborts + 1
  /\ executions' = IF At(w, "observe") THEN executions - 1 ELSE executions
  /\ Stop(w)
  /\ dispatchLock' = IF dispatchLock = w THEN None ELSE dispatchLock
  /\ resultLock' = IF resultLock = w THEN None ELSE resultLock
  /\ UNCHANGED <<store, granted, spawned, others>>

-----------------------------------------------------------------------------
(* The recovery loop: claimed simulations, then result cards not yet shown.  *)

(* Mutant: a claimed operation is left to the callback that claimed it. *)
RecoverSimulationClaim_Never ==
  /\ At(Recovery, "idle") /\ proposal.status = "gated"
  /\ Go(Recovery, "dispatchLock")
  /\ UNCHANGED <<store, ghosts, dispatchLock, resultLock, aborts, others>>

RecoverSimulationClaim ==
  /\ At(Recovery, "idle")
  /\ proposal.status = "applying" /\ proposal.lifecycle = "claimed" /\ ~IsAgent
  /\ Go(Recovery, "dispatchLock")
  /\ UNCHANGED <<store, ghosts, dispatchLock, resultLock, aborts, others>>

(* Mutant: only results of callbacks are shown again. *)
RecoverResult_Confirmed ==
  /\ At(Recovery, "idle")
  /\ proposal.lifecycle = "outcome_observed" /\ proposal.delivery # None
  /\ proposal.confirmation # None
  /\ ~ResultDeliveryCurrent
  /\ Go(Recovery, "resultLock")
  /\ UNCHANGED <<store, ghosts, dispatchLock, resultLock, aborts, others>>

RecoverResult ==
  /\ At(Recovery, "idle")
  /\ proposal.lifecycle = "outcome_observed" /\ proposal.delivery # None
  /\ ~ResultDeliveryCurrent
  /\ Go(Recovery, "resultLock")
  /\ UNCHANGED <<store, ghosts, dispatchLock, resultLock, aborts, others>>

-----------------------------------------------------------------------------
(* The managed Turn named as executor.                                       *)

Confirmed == proposal.confirmation # None /\ proposal.confirmation.decision = "confirm"

HostStart ==
  /\ IsAgent /\ Confirmed /\ binding
  /\ ~proposal.hostStart /\ ~proposal.handoff /\ proposal.outcome = None
  /\ CanObserve /\ clock < Expires
  /\ proposal' = [proposal EXCEPT !.hostStart = TRUE]
  /\ UNCHANGED <<ghosts, threads, others>>

(* Mutant: a consumption without an outcome may be repeated. *)
AlreadyConsumed_WithOutcome == proposal.lifecycle = "outcome_observed"

AlreadyConsumed == proposal.handoff \/ proposal.lifecycle = "outcome_observed"

(* consume_agent_operation: the first consumption is the only one answered   *)
(* with execution_allowed.                                                   *)
Consume ==
  /\ IsAgent /\ Confirmed /\ binding
  /\ ~AlreadyConsumed /\ CanObserve /\ clock < Expires
  /\ proposal' = [proposal EXCEPT !.handoff = TRUE]
  /\ granted' = granted + 1
  /\ UNCHANGED <<executions, spawned, threads, others>>

(* observe_operation_outcome with an Agent's report r: the first outcome is  *)
(* kept; a submission_unknown may be reconciled once.  The original session  *)
(* reports at any time, a replacement only after the binding was withdrawn:  *)
(* either way somebody may report a consumed operation.                      *)
Report(r) ==
  /\ IsAgent /\ Confirmed /\ proposal.handoff
  /\ IF proposal.outcome = "submission_unknown" /\ r # "submission_unknown"
     THEN /\ proposal.reconciliation = None
          /\ proposal' = [proposal EXCEPT !.reconciliation = r]
     ELSE /\ CanObserve
          /\ proposal' = [proposal EXCEPT !.lifecycle = "outcome_observed", !.outcome = r,
                                          !.status = "applied"]
  /\ UNCHANGED <<ghosts, threads, others>>

(* The session is replaced or the goal is stopped. *)
WithdrawBinding ==
  /\ binding
  /\ binding' = FALSE
  /\ UNCHANGED <<store, ghosts, threads, clock, shown, events, executor>>

(* The extension is upgraded, removed or restored, as often as it pleases.   *)
ReplaceExecutor ==
  /\ ~IsAgent
  /\ executor' = ~executor
  /\ UNCHANGED <<store, ghosts, threads, clock, shown, events, binding>>

-----------------------------------------------------------------------------
WorkerStep(w) ==
  \/ TakeDispatchLock(w) \/ NothingToDispatch(w) \/ ExecuteClaimed(w) \/ ExecutorRaises(w)
  \/ ObserveOutcome(w)
  \/ ReserveTurn(w) \/ WakeRefused(w) \/ SpawnTurn(w)
  \/ TakeResultLock(w) \/ BuildResultCard(w) \/ PatchCard(w) \/ PatchUnverified(w)
  \/ RecordResultDelivery(w)

Next ==
  \/ CreatePreview \/ ArmOperation \/ Cancel \/ RefuseLocalApply \/ FailLocalApply
  \/ \E m \in Messages : SendCard(m) \/ RecordDelivery(m)
  \/ \E m \in Messages, d \in Decisions : Click(m, d)
  \/ Tick
  \/ \E w \in Workers : \E e \in events : DecideOperation(w, e)
  \/ \E w \in Workers : WorkerStep(w)
  \/ \E w \in Workers : Abort(w)
  \/ RecoverSimulationClaim \/ RecoverResult
  \/ HostStart \/ Consume
  \/ \E r \in Reports : Report(r)
  \/ WithdrawBinding \/ ReplaceExecutor

Spec == Init /\ [][Next]_vars

(* Threads run and the recovery loop comes round every three seconds; it     *)
(* gets a lock that is free again and again, and a patch it tries again and  *)
(* again is verified in the end.                                             *)
Fairness ==
  /\ \A w \in Workers : WF_vars(WorkerStep(w))
  /\ WF_vars(RecoverSimulationClaim \/ RecoverResult)
  /\ SF_vars(TakeDispatchLock(Recovery) \/ TakeResultLock(Recovery))
  /\ SF_vars(PatchCard(Recovery))

FairSpec == Spec /\ Fairness

-----------------------------------------------------------------------------
(* consume_agent_operation promises that even an exact replay grants no      *)
(* retry: over all Turns, replays and restarts one execution is allowed, and *)
(* nothing is allowed or simulated without a confirmation.                   *)
OneGrant ==
  /\ granted <= 1
  /\ granted > 0 \/ executions > 0 => Confirmed

(* The click that was consumed came from the message the operation is bound  *)
(* to and was made before the operation expired.                             *)
ConfirmedOnItsCard ==
  proposal.confirmation # None =>
    /\ proposal.confirmation.msg = proposal.delivery.msg
    /\ proposal.confirmation.at <= Expires

(* reserve_agent_operation_turn: callback replay never launches a            *)
(* replacement process.                                                      *)
OneLaunch == spawned <= 1

(* A delivery, a decision, a launch, a consumption, an outcome and a         *)
(* reconciliation are facts: once in the store, no method replaces them.     *)
KeptBy(p, q) ==
  /\ \A f \in {"delivery", "confirmation", "outcome", "reconciliation"} :
       p[f] # None => q[f] = p[f]
  /\ \A f \in {"launched", "hostStart", "handoff"} : p[f] => q[f]
FactsStay == [][KeptBy(proposal, proposal')]_vars

(* A result delivery that counts as current certifies what the bound message *)
(* displays: an older unknown result never certifies a reconciled one.       *)
CertifiedCardShown ==
  ResultDeliveryCurrent => shown[proposal.delivery.msg] = Content

(* The dispatch lock and the reload under it keep copies of a callback, and  *)
(* recovery, from running the executor twice: it runs again only when the    *)
(* outcome of the run before was lost, with a thread that died or raised     *)
(* before the store had it.                                                  *)
ExecutedAgainOnlyIfLost == executions <= 1

(* cancel's receipt says cancelled_before_confirmation and the card says     *)
(* that the request was not executed: no Turn was allowed to execute it, and *)
(* no simulation of it ran.                                                  *)
CancelMeansNotExecuted ==
  proposal.outcome = "cancelled_before_confirmation" => granted = 0 /\ executions = 0

(* A local apply request took a claimed operation out of the applying state. *)
Stranded == proposal.lifecycle = "claimed" /\ proposal.status # "applying"

(* Once the confirmed executor stays installed, a claimed simulation is      *)
(* brought to an outcome, by its callback or by recovery after a restart,    *)
(* unless a local apply request strands it.                                  *)
ClaimsResolve ==
  <>[]executor =>
    (proposal.lifecycle = "claimed" /\ ~IsAgent ~> proposal.outcome # None \/ Stranded)

(* An outcome reaches the conversation: the bound card is shown and its      *)
(* delivery is on record.                                                    *)
ResultsReturn == proposal.outcome # None /\ proposal.delivery # None ~> ResultDeliveryCurrent
=============================================================================

---------------------- MODULE OperationApproval_proofs ----------------------
(* Proofs about OperationApproval, for every set of callback threads and     *)
(* messages and every bound.                                                 *)
EXTENDS OperationApproval, FiniteSetTheorems, TLAPS

(* What typing needs beside TypeOK: clicks are counted, and a thread that    *)
(* patches a card or records its delivery has a card.                        *)
TypeInv ==
  /\ TypeOK
  /\ IsFiniteSet(events)
  /\ \A w \in Workers : At(w, "patch") \/ At(w, "record") => worker[w].view \in View

LEMMA InitTyped == Init => TypeInv
<1> SUFFICES ASSUME Init PROVE TypeInv
  OBVIOUS
<1>1. TypeOK
  BY KindsAssumption, ClockAssumption
     DEF Init, TypeOK, Proposal, Rest, Points, ExecutorKinds
<1>2. IsFiniteSet(events)
  BY FS_EmptySet DEF Init
<1>3. \A w \in Workers : At(w, "patch") \/ At(w, "record") => worker[w].view \in View
  BY DEF Init, Rest, At
<1> QED
  BY <1>1, <1>2, <1>3 DEF TypeInv

(* What the store's methods do to single fields leaves a proposal. *)
LEMMA UpdatesTyped ==
  ASSUME NEW p \in Proposal, NEW s \in Statuses, NEW l \in LifecycleStates, NEW o \in Outcomes
  PROVE  /\ [p EXCEPT !.status = s] \in Proposal
         /\ [p EXCEPT !.lifecycle = l, !.status = s] \in Proposal
         /\ [p EXCEPT !.status = s, !.lifecycle = l, !.outcome = o] \in Proposal
         /\ [p EXCEPT !.lifecycle = l, !.outcome = o, !.status = s] \in Proposal
         /\ [p EXCEPT !.hostStart = TRUE] \in Proposal
<1>1. [p EXCEPT !.status = s] \in Proposal
  BY DEF Proposal
<1>2. [p EXCEPT !.lifecycle = l, !.status = s] \in Proposal
  BY DEF Proposal
<1>3. [p EXCEPT !.status = s, !.lifecycle = l, !.outcome = o] \in Proposal
  BY DEF Proposal
<1>4. [p EXCEPT !.lifecycle = l, !.outcome = o, !.status = s] \in Proposal
  BY DEF Proposal
<1>5. [p EXCEPT !.hostStart = TRUE] \in Proposal
  BY DEF Proposal
<1> QED
  BY <1>1, <1>2, <1>3, <1>4, <1>5

(* The store's methods keep a proposal a proposal. *)
LEMMA StoreTyped ==
  ASSUME TypeInv, UNCHANGED <<ghosts, threads, others>>, proposal' \in Proposal
  PROVE  TypeInv'
BY DEF TypeInv, TypeOK, ghosts, threads, others, At

(* The part of TypeInv that speaks of the threads. *)
WorkersTyped ==
  /\ worker \in [Workers -> [pc : Points, view : View \cup {None}]]
  /\ \A w \in Workers : At(w, "patch") \/ At(w, "record") => worker[w].view \in View

LEMMA GoTyped ==
  ASSUME WorkersTyped, NEW w \in Workers, NEW p \in Points \ {"patch", "record"}, Go(w, p)
  PROVE  WorkersTyped'
BY DEF WorkersTyped, Go, At

LEMMA StopTyped ==
  ASSUME WorkersTyped, NEW w \in Workers, Stop(w)
  PROVE  WorkersTyped'
BY DEF WorkersTyped, Stop, At, Rest, Points

LEMMA AfterDispatchTyped ==
  ASSUME NEW w \in Workers
  PROVE  AfterDispatch(w) \in Points \ {"patch", "record"}
BY DEF AfterDispatch, Points

LEMMA CardTyped ==
  ASSUME TypeOK
  PROVE  Content \in Contents /\ Stage \in Stages
BY DEF TypeOK, Proposal, Content, Stage, Contents, Stages, Reports, Outcomes

(* A thread's step keeps the types: it moves one thread and changes typed    *)
(* variables by typed values.                                                *)
LEMMA WorkerStepTyped ==
  ASSUME TypeInv, NEW w \in Workers, WorkerStep(w)
  PROVE  TypeInv'
<1> USE DEF TypeInv
<1>0. WorkersTyped /\ AfterDispatch(w) \in Points \ {"patch", "record"}
  BY AfterDispatchTyped DEF WorkersTyped, TypeOK
<1>1. CASE TakeDispatchLock(w)
  <2>1. WorkersTyped'
    BY <1>0, <1>1, GoTyped DEF TakeDispatchLock, Points
  <2> QED BY <1>1, <2>1 DEF TakeDispatchLock, WorkersTyped, TypeOK, store, ghosts, others
<1>2. CASE NothingToDispatch(w)
  <2>1. WorkersTyped'
    BY <1>0, <1>2, GoTyped DEF NothingToDispatch
  <2> QED BY <1>2, <2>1 DEF NothingToDispatch, WorkersTyped, TypeOK, store, ghosts, others
<1>3. CASE ExecuteClaimed(w)
  <2>1. WorkersTyped'
    BY <1>0, <1>3, GoTyped DEF ExecuteClaimed, Points
  <2> QED BY <1>3, <2>1 DEF ExecuteClaimed, WorkersTyped, TypeOK, store, others
<1>4. CASE ObserveOutcome(w)
  <2>1. WorkersTyped'
    BY <1>0, <1>4, GoTyped, StopTyped DEF ObserveOutcome
  <2>2. proposal' \in Proposal
    <3>1. "outcome_observed" \in LifecycleStates /\ "simulated" \in Outcomes /\ "applied" \in Statuses
      BY DEF LifecycleStates, Outcomes, Statuses
    <3>2. CASE proposal' = [proposal EXCEPT !.lifecycle = "outcome_observed",
                                            !.outcome = "simulated", !.status = "applied"]
      BY <3>1, <3>2, UpdatesTyped DEF TypeOK
    <3> QED BY <1>4, <3>2 DEF ObserveOutcome, TypeOK
  <2>3. executions' \in Int /\ UNCHANGED <<granted, spawned>>
    BY <1>4 DEF ObserveOutcome, TypeOK
  <2> QED BY <1>4, <2>1, <2>2, <2>3 DEF ObserveOutcome, WorkersTyped, TypeOK, others
<1>5. CASE ReserveTurn(w)
  <2>1. WorkersTyped'
    BY <1>0, <1>5, GoTyped DEF ReserveTurn, Points
  <2>2. proposal' \in Proposal
    BY <1>5 DEF ReserveTurn, TypeOK, Proposal
  <2> QED BY <1>5, <2>1, <2>2 DEF ReserveTurn, WorkersTyped, TypeOK, ghosts, others
<1>6. CASE WakeRefused(w)
  <2>1. WorkersTyped'
    BY <1>0, <1>6, GoTyped DEF WakeRefused
  <2> QED BY <1>6, <2>1 DEF WakeRefused, WorkersTyped, TypeOK, store, ghosts, others
<1>7. CASE SpawnTurn(w)
  <2>1. WorkersTyped'
    BY <1>0, <1>7, GoTyped DEF SpawnTurn
  <2> QED BY <1>7, <2>1 DEF SpawnTurn, WorkersTyped, TypeOK, store, others
<1>8. CASE TakeResultLock(w)
  <2>1. WorkersTyped'
    BY <1>0, <1>8, GoTyped DEF TakeResultLock, Points
  <2> QED BY <1>8, <2>1 DEF TakeResultLock, WorkersTyped, TypeOK, store, ghosts, others
<1>9. CASE BuildResultCard(w)
  <2>1. WorkersTyped'
    <3>1. CASE ResultDeliveryCurrent
      BY <1>0, <1>9, <3>1, StopTyped DEF BuildResultCard
    <3>2. CASE ~ResultDeliveryCurrent
      <4> DEFINE card == [content |-> Content, stage |-> Stage,
                          final |-> proposal.lifecycle = "outcome_observed"]
      <4>1. card \in View
        BY CardTyped DEF View
      <4>2. worker' = [worker EXCEPT ![w] = [pc |-> "patch", view |-> card]]
        BY <1>9, <3>2 DEF BuildResultCard
      <4> HIDE DEF card
      <4> QED BY <1>0, <4>1, <4>2 DEF WorkersTyped, At, Points
    <3> QED BY <3>1, <3>2
  <2> QED BY <1>9, <2>1 DEF BuildResultCard, WorkersTyped, TypeOK, store, ghosts, others
<1>10. ASSUME PatchCard(w) \/ PatchUnverified(w) PROVE TypeInv'
  <2>1. WorkersTyped'
    BY <1>0, <1>10, GoTyped, StopTyped DEF PatchCard, PatchUnverified, Go, WorkersTyped, At, Points
  <2>2. worker[w].view.content \in Contents
    BY <1>10 DEF PatchCard, PatchUnverified, View
  <2>3. shown' \in [Messages -> Contents \cup {None}]
    BY <1>10, <2>2 DEF PatchCard, PatchUnverified, TypeOK
  <2> QED
    BY <1>10, <2>1, <2>3 DEF PatchCard, PatchUnverified, WorkersTyped, TypeOK, store, ghosts
<1>11. CASE RecordResultDelivery(w)
  <2>1. WorkersTyped'
    BY <1>0, <1>11, StopTyped DEF RecordResultDelivery
  <2>2. proposal' \in Proposal
    <3>1. worker[w].view.stage \in Stages
      BY <1>11 DEF RecordResultDelivery, View
    <3> QED BY <1>11, <3>1 DEF RecordResultDelivery, TypeOK, Proposal
  <2> QED BY <1>11, <2>1, <2>2 DEF RecordResultDelivery, WorkersTyped, TypeOK, ghosts, others
<1>12. CASE ExecutorRaises(w)
  <2>1. WorkersTyped'
    BY <1>0, <1>12, StopTyped DEF ExecutorRaises
  <2> QED BY <1>12, <2>1 DEF ExecutorRaises, WorkersTyped, TypeOK, store, ghosts, others
<1> QED
  BY <1>1, <1>2, <1>3, <1>4, <1>5, <1>6, <1>7, <1>8, <1>9, <1>10, <1>11, <1>12 DEF WorkerStep

LEMMA NextTyped == TypeInv /\ [Next]_vars => TypeInv'
<1> SUFFICES ASSUME TypeInv, [Next]_vars PROVE TypeInv'
  OBVIOUS
<1> USE ClockAssumption DEF TypeInv
<1>1. CASE CreatePreview
  <2>1. proposal' \in Proposal
    BY <1>1 DEF CreatePreview, TypeOK, Proposal, Statuses
  <2> QED BY <1>1, <2>1, StoreTyped DEF CreatePreview
<1>2. CASE ArmOperation
  <2>1. proposal' \in Proposal
    <3>1. "awaiting_confirmation" \in LifecycleStates /\ "gated" \in Statuses
      BY DEF LifecycleStates, Statuses
    <3>2. "simulated" \in Outcomes
      BY DEF Outcomes
    <3> QED BY <1>2, <3>1, <3>2, UpdatesTyped DEF ArmOperation, TypeOK
  <2> QED BY <1>2, <2>1, StoreTyped DEF ArmOperation
<1>3. CASE Cancel
  <2>1. proposal' \in Proposal
    <3>1. /\ "cancelled" \in Statuses /\ "outcome_observed" \in LifecycleStates
          /\ "cancelled_before_confirmation" \in Outcomes
      BY DEF Statuses, LifecycleStates, Outcomes
    <3> QED BY <1>3, <3>1, UpdatesTyped DEF Cancel, TypeOK
  <2> QED BY <1>3, <2>1, StoreTyped DEF Cancel
<1>4. CASE RefuseLocalApply
  <2>1. proposal' \in Proposal
    BY <1>4 DEF RefuseLocalApply, TypeOK, Proposal, Statuses
  <2> QED BY <1>4, <2>1, StoreTyped DEF RefuseLocalApply
<1>4a. CASE FailLocalApply
  <2>1. proposal' \in Proposal
    BY <1>4a DEF FailLocalApply, TypeOK, Proposal, Statuses
  <2> QED BY <1>4a, <2>1, StoreTyped DEF FailLocalApply
<1>5. ASSUME NEW m \in Messages, SendCard(m) PROVE TypeInv'
  BY <1>5 DEF SendCard, TypeOK, Contents, store, ghosts, threads, At
<1>6. ASSUME NEW m \in Messages, RecordDelivery(m) PROVE TypeInv'
  <2>1. proposal' \in Proposal
    BY <1>6 DEF RecordDelivery, TypeOK, Proposal
  <2> QED BY <1>6, <2>1, StoreTyped DEF RecordDelivery
<1>7. ASSUME NEW m \in Messages, NEW d \in Decisions, Click(m, d) PROVE TypeInv'
  <2> DEFINE e == [id |-> Cardinality(events) + 1, decision |-> d, msg |-> m, at |-> clock]
  <2>1. Cardinality(events) \in Nat
    BY FS_CardinalityType
  <2>2. e \in Event
    BY <1>7, <2>1 DEF Click, TypeOK, Event
  <2>3. events' \subseteq Event /\ IsFiniteSet(events')
    <3>1. IsFiniteSet(events \cup {e})
      BY FS_AddElement
    <3> QED BY <1>7, <2>2, <3>1 DEF Click, TypeOK
  <2> QED BY <1>7, <2>3 DEF Click, TypeOK, store, ghosts, threads, At
<1>8. CASE Tick
  BY <1>8 DEF Tick, TypeOK, store, ghosts, threads, At
<1>9. ASSUME NEW w \in Workers, NEW e \in events, DecideOperation(w, e) PROVE TypeInv'
  <2>1. proposal' \in Proposal
    <3>1. e \in Event /\ {"claimed", "outcome_observed"} \subseteq LifecycleStates
          /\ {"rejected", "applying"} \subseteq Statuses /\ "rejected_by_operator" \in Outcomes
      BY DEF TypeOK, LifecycleStates, Statuses, Outcomes
    <3>2. Decided(e) \in Proposal
      <4>1. CASE e.decision = "reject"
        BY <3>1, <4>1 DEF Decided, TypeOK, Proposal
      <4>2. CASE e.decision # "reject"
        BY <3>1, <4>2 DEF Decided, TypeOK, Proposal
      <4> QED BY <4>1, <4>2
    <3> QED BY <1>9, <3>2 DEF DecideOperation, TypeOK
  <2>2. worker' \in [Workers -> [pc : Points, view : View \cup {None}]]
    BY <1>9 DEF DecideOperation, Go, TypeOK, Points
  <2>3. \A v \in Workers : At(v, "patch")' \/ At(v, "record")' => worker'[v].view \in View
    BY <1>9, <2>2 DEF DecideOperation, Go, At, TypeOK
  <2> QED BY <1>9, <2>1, <2>2, <2>3 DEF DecideOperation, TypeOK, ghosts, others, At
<1>10. ASSUME NEW w \in Workers, WorkerStep(w) PROVE TypeInv'
  BY <1>10, WorkerStepTyped
<1>11. ASSUME NEW w \in Workers, Abort(w) PROVE TypeInv'
  <2>1. WorkersTyped'
    BY <1>11, StopTyped DEF Abort, WorkersTyped, TypeOK
  <2>2. executions' \in Int
    BY <1>11 DEF Abort, TypeOK
  <2> QED BY <1>11, <2>1, <2>2 DEF Abort, WorkersTyped, TypeOK, store, others
<1>12. ASSUME RecoverSimulationClaim \/ RecoverResult PROVE TypeInv'
  <2>1. Recovery \in Workers
    BY DEF Workers
  <2>2. WorkersTyped'
    BY <1>12, <2>1, GoTyped
       DEF RecoverSimulationClaim, RecoverResult, WorkersTyped, TypeOK, Points
  <2> QED BY <1>12, <2>2
             DEF RecoverSimulationClaim, RecoverResult, WorkersTyped, TypeOK, store, ghosts, others
<1>13. CASE HostStart
  <2>1. proposal' \in Proposal
    <3>1. "applied" \in Statuses /\ "claimed" \in LifecycleStates /\ "simulated" \in Outcomes
      BY DEF Statuses, LifecycleStates, Outcomes
    <3> QED BY <1>13, <3>1, UpdatesTyped DEF HostStart, TypeOK
  <2> QED BY <1>13, <2>1, StoreTyped DEF HostStart
<1>14. CASE Consume
  <2>1. proposal' \in Proposal
    BY <1>14 DEF Consume, TypeOK, Proposal
  <2> QED BY <1>14, <2>1 DEF Consume, TypeOK, threads, others, At
<1>15. ASSUME NEW r \in Reports, Report(r) PROVE TypeInv'
  <2>1. proposal' \in Proposal
    <3>1. "outcome_observed" \in LifecycleStates /\ r \in Outcomes /\ "applied" \in Statuses
      BY DEF LifecycleStates, Outcomes, Reports, Statuses
    <3>2. [proposal EXCEPT !.reconciliation = r] \in Proposal
      BY DEF TypeOK, Proposal
    <3>3. [proposal EXCEPT !.lifecycle = "outcome_observed", !.outcome = r, !.status = "applied"]
            \in Proposal
      BY <3>1 DEF TypeOK, Proposal
    <3> QED BY <1>15, <3>2, <3>3 DEF Report
  <2> QED BY <1>15, <2>1, StoreTyped DEF Report
<1>16. CASE WithdrawBinding
  BY <1>16 DEF WithdrawBinding, TypeOK, store, ghosts, threads, At
<1>16a. CASE ReplaceExecutor
  BY <1>16a DEF ReplaceExecutor, TypeOK, store, ghosts, threads, At
<1>17. CASE UNCHANGED vars
  BY <1>17 DEF vars, TypeOK, store, ghosts, threads, others, At
<1> QED
  BY <1>1, <1>2, <1>3, <1>4, <1>5, <1>6, <1>7, <1>8, <1>9, <1>10, <1>11, <1>12, <1>13,
     <1>14, <1>15, <1>16, <1>17, <1>4a, <1>16a DEF Next

(* OperationApproval, typed: every variable holds what its declaration says, *)
(* whatever callbacks, recovery, deliveries and Turns do to the proposal.    *)
THEOREM OperationTyped == Spec => []TypeOK
<1>1. TypeInv => TypeOK
  BY DEF TypeInv
<1> QED
  BY <1>1, InitTyped, NextTyped, PTL DEF Spec

-----------------------------------------------------------------------------
(* The facts in the store.                                                   *)

(* What the fields of a proposal say of each other, of the card of its       *)
(* delivery and of the executions that were allowed.                         *)
StoreInv ==
  /\ proposal.confirmation # None =>
       /\ proposal.delivery # None
       /\ proposal.confirmation.msg = proposal.delivery.msg
       /\ proposal.confirmation.at <= Expires
  /\ proposal.lifecycle = "claimed" => Confirmed
  /\ proposal.lifecycle = "outcome_observed" <=> proposal.outcome # None
  /\ proposal.outcome # None => proposal.status \in {"rejected", "cancelled", "applied"}
  /\ granted <= 1 /\ (~proposal.handoff => granted = 0)
  /\ granted > 0 \/ executions > 0 => Confirmed
  /\ proposal.reconciliation # None => IsAgent /\ proposal.outcome # None
  /\ proposal.delivery # None => shown[proposal.delivery.msg] # None

LEMMA NoneIsNew ==
  /\ None \notin Outcomes /\ None \notin Reports /\ None \notin Contents
  /\ None \notin Stages /\ None \notin LifecycleStates /\ None \notin Statuses
  /\ None \notin Event /\ None \notin [msg : Messages, at : 0..MaxClock]
BY NoneAssumption DEF Contents

LEMMA InitStore == Init => StoreInv
<1> SUFFICES ASSUME Init PROVE StoreInv
  OBVIOUS
<1>1. /\ proposal.confirmation = None /\ proposal.lifecycle = None /\ proposal.outcome = None
      /\ proposal.reconciliation = None /\ proposal.delivery = None
  BY DEF Init
<1>2. granted = 0 /\ executions = 0
  BY DEF Init
<1> QED
  BY <1>1, <1>2, NoneIsNew DEF StoreInv, LifecycleStates

(* Most steps leave the store and the messages alone. *)
Quiet == UNCHANGED <<proposal, granted, executions, shown>>

LEMMA QuietKeepsStore ==
  ASSUME StoreInv, Quiet
  PROVE  StoreInv'
BY DEF StoreInv, Quiet, Confirmed, IsAgent

LEMMA NextKeepsStore == TypeInv /\ StoreInv /\ [Next]_vars => StoreInv'
<1> SUFFICES ASSUME TypeInv, StoreInv, [Next]_vars PROVE StoreInv'
  OBVIOUS
<1> USE NoneIsNew DEF TypeInv, TypeOK, StoreInv, Confirmed, IsAgent
<1>1. CASE CreatePreview
  BY <1>1 DEF CreatePreview, Proposal, Statuses, ghosts, others
<1>2. CASE ArmOperation
  BY <1>2 DEF ArmOperation, Proposal, LifecycleStates, ghosts, others
<1>3. CASE Cancel
  <2>1. CASE proposal.lifecycle = None
    BY <1>3, <2>1 DEF Cancel, Proposal, LifecycleStates, ghosts, others
  <2>2. CASE proposal.lifecycle # None
    BY <1>3, <2>2 DEF Cancel, Proposal, Outcomes, ghosts, others
  <2> QED BY <2>1, <2>2
<1>4. CASE RefuseLocalApply
  BY <1>4 DEF RefuseLocalApply, Proposal, ghosts, others
<1>4a. CASE FailLocalApply
  BY <1>4a DEF FailLocalApply, Proposal, ghosts, others
<1>4b. ASSUME NEW w \in Workers, Abort(w) PROVE StoreInv'
  <2>1. UNCHANGED <<proposal, granted, shown>> /\ executions' <= executions
    BY <1>4b DEF Abort, store, others
  <2> QED BY <1>4b, <2>1 DEF Abort
<1>5. ASSUME NEW m \in Messages, SendCard(m) PROVE StoreInv'
  BY <1>5 DEF SendCard, Proposal, Contents, store, ghosts
<1>6. ASSUME NEW m \in Messages, RecordDelivery(m) PROVE StoreInv'
  BY <1>6 DEF RecordDelivery, Proposal, ghosts, others
<1>7. ASSUME NEW w \in Workers, NEW e \in events, DecideOperation(w, e) PROVE StoreInv'
  <2>1. CASE UNCHANGED proposal
    BY <1>7, <2>1 DEF DecideOperation, ghosts, others
  <2>2. ASSUME AwaitsDecision, CallbackMatches(e), proposal' = Decided(e) PROVE StoreInv'
    <3>1. e \in Event /\ e # None /\ e.at \in Int
      BY DEF Event
    <3>2. CASE e.decision = "reject"
      BY <1>7, <2>2, <3>1, <3>2
         DEF DecideOperation, AwaitsDecision, CallbackMatches, Decided, Proposal, Outcomes,
             ghosts, others
    <3>3. CASE e.decision = "confirm"
      BY <1>7, <2>2, <3>1, <3>3
         DEF DecideOperation, AwaitsDecision, CallbackMatches, Decided, Proposal, ghosts, others
    <3> QED BY <3>1, <3>2, <3>3 DEF Event, Decisions
  <2> QED BY <1>7, <2>1, <2>2 DEF DecideOperation
<1>8. ASSUME NEW w \in Workers, WorkerStep(w) PROVE StoreInv'
  <2>1. CASE ExecuteClaimed(w)
    BY <1>8, <2>1 DEF ExecuteClaimed, store, others
  <2>2. CASE ObserveOutcome(w)
    <3>1. CASE CanObserve
      <4>1. /\ proposal' = [proposal EXCEPT !.lifecycle = "outcome_observed",
                                            !.outcome = "simulated", !.status = "applied"]
            /\ UNCHANGED <<granted, executions, shown>>
        BY <2>2, <3>1 DEF ObserveOutcome, others
      <4>2. proposal.lifecycle = "claimed" /\ None # "simulated"
        BY <3>1 DEF CanObserve, Outcomes
      <4> QED BY <4>1, <4>2 DEF Proposal
    <3>2. CASE ~CanObserve
      BY <2>2, <3>2 DEF ObserveOutcome, others
    <3> QED BY <3>1, <3>2
  <2>3. CASE ReserveTurn(w)
    BY <1>8, <2>3 DEF ReserveTurn, Proposal, ghosts, others
  <2>4. ASSUME PatchCard(w) \/ PatchUnverified(w) PROVE StoreInv'
    <3>1. worker[w].view.content \in Contents
      BY <2>4 DEF PatchCard, PatchUnverified, View
    <3> QED BY <2>4, <3>1 DEF PatchCard, PatchUnverified, Proposal, store, ghosts
  <2>5. CASE RecordResultDelivery(w)
    BY <2>5 DEF RecordResultDelivery, Proposal, ghosts, others
  <2>6. ASSUME \/ TakeDispatchLock(w) \/ NothingToDispatch(w) \/ WakeRefused(w) \/ SpawnTurn(w)
               \/ TakeResultLock(w) \/ BuildResultCard(w) \/ ExecutorRaises(w)
        PROVE  StoreInv'
    <3>1. Quiet
      BY <2>6 DEF Quiet, TakeDispatchLock, NothingToDispatch, WakeRefused, SpawnTurn,
                  TakeResultLock, BuildResultCard, ExecutorRaises, store, ghosts, others
    <3> QED BY <3>1, QuietKeepsStore
  <2> QED BY <1>8, <2>1, <2>2, <2>3, <2>4, <2>5, <2>6 DEF WorkerStep
<1>9. CASE HostStart
  BY <1>9 DEF HostStart, Proposal, ghosts, others
<1>10. CASE Consume
  BY <1>10 DEF Consume, AlreadyConsumed, Proposal, threads, others
<1>11. ASSUME NEW r \in Reports, Report(r) PROVE StoreInv'
  <2>1. CASE proposal.outcome = "submission_unknown" /\ r # "submission_unknown"
    BY <1>11, <2>1 DEF Report, Proposal, Outcomes, ghosts, others
  <2>2. CASE ~(proposal.outcome = "submission_unknown" /\ r # "submission_unknown")
    <3>1. /\ proposal.lifecycle = "claimed" /\ proposal.outcome = None
          /\ proposal' = [proposal EXCEPT !.lifecycle = "outcome_observed", !.outcome = r,
                                          !.status = "applied"]
      BY <1>11, <2>2 DEF Report, CanObserve
    <3>2. r # None /\ IsAgent /\ UNCHANGED <<granted, executions, shown>>
      BY <1>11 DEF Report, ghosts, others
    <3> QED BY <3>1, <3>2 DEF Proposal
  <2> QED BY <2>1, <2>2
<1>12. ASSUME \/ \E m \in Messages, d \in Decisions : Click(m, d)
              \/ Tick \/ WithdrawBinding \/ ReplaceExecutor \/ RecoverSimulationClaim \/ RecoverResult
              \/ UNCHANGED vars
       PROVE  StoreInv'
  <2>1. Quiet
    BY <1>12 DEF Quiet, Click, Tick, WithdrawBinding, ReplaceExecutor, RecoverSimulationClaim,
                 RecoverResult, vars, store, ghosts, threads, others
  <2> QED BY <2>1, QuietKeepsStore
<1> QED
  BY <1>1, <1>2, <1>3, <1>4, <1>5, <1>6, <1>7, <1>8, <1>9, <1>10, <1>11, <1>12,
     <1>4a, <1>4b DEF Next

LEMMA StoreHolds == Spec => [](TypeInv /\ StoreInv)
BY InitTyped, NextTyped, InitStore, NextKeepsStore, PTL DEF Spec

(* consume_agent_operation: over all Turns, replays and restarts, execution  *)
(* is allowed once, and nothing runs without a confirmation.                 *)
THEOREM ExecutionGrantedOnce == Spec => []OneGrant
<1>1. StoreInv => OneGrant
  BY DEF StoreInv, OneGrant
<1> QED
  BY <1>1, StoreHolds, PTL

(* decide_operation: the decision on record was clicked on the message the   *)
(* operation was delivered as, before it expired.                            *)
THEOREM DecidedOnTheBoundCard == Spec => []ConfirmedOnItsCard
<1>1. StoreInv => ConfirmedOnItsCard
  BY DEF StoreInv, ConfirmedOnItsCard
<1> QED
  BY <1>1, StoreHolds, PTL

LEMMA UpdatesKeep ==
  ASSUME NEW p \in Proposal, NEW s, NEW l, NEW o
  PROVE  /\ p.outcome = None => KeptBy(p, [p EXCEPT !.status = s, !.lifecycle = l, !.outcome = o])
         /\ p.outcome = None => KeptBy(p, [p EXCEPT !.lifecycle = l, !.outcome = o, !.status = s])
         /\ KeptBy(p, [p EXCEPT !.hostStart = TRUE])
         /\ KeptBy(p, [p EXCEPT !.handoff = TRUE])
<1>1. p.outcome = None => KeptBy(p, [p EXCEPT !.status = s, !.lifecycle = l, !.outcome = o])
  BY DEF Proposal, KeptBy
<1>2. p.outcome = None => KeptBy(p, [p EXCEPT !.lifecycle = l, !.outcome = o, !.status = s])
  BY DEF Proposal, KeptBy
<1>3. KeptBy(p, [p EXCEPT !.hostStart = TRUE])
  BY DEF Proposal, KeptBy
<1>4. KeptBy(p, [p EXCEPT !.handoff = TRUE])
  BY DEF Proposal, KeptBy
<1> QED
  BY <1>1, <1>2, <1>3, <1>4

LEMMA NextKeepsFacts ==
  TypeInv /\ StoreInv /\ [Next]_vars => KeptBy(proposal, proposal')
<1> SUFFICES ASSUME TypeInv, StoreInv, [Next]_vars PROVE KeptBy(proposal, proposal')
  OBVIOUS
<1> USE NoneIsNew DEF TypeInv, TypeOK, StoreInv
<1>1. CASE UNCHANGED proposal
  BY <1>1 DEF KeptBy
<1>2. CASE CreatePreview \/ ArmOperation \/ RefuseLocalApply \/ FailLocalApply
  <2>1. CASE ArmOperation
    BY <2>1 DEF ArmOperation, Proposal, KeptBy
  <2>2. CASE CreatePreview
    BY <2>2 DEF CreatePreview, Proposal, KeptBy
  <2>3. CASE RefuseLocalApply
    BY <2>3 DEF RefuseLocalApply, Proposal, KeptBy
  <2>4. CASE FailLocalApply
    BY <2>4 DEF FailLocalApply, Proposal, KeptBy
  <2> QED BY <1>2, <2>1, <2>2, <2>3, <2>4
<1>3. CASE Cancel
  <2>1. proposal.outcome = None
    BY <1>3 DEF Cancel
  <2>2. CASE proposal' = [proposal EXCEPT !.status = "cancelled"]
    BY <2>2 DEF Proposal, KeptBy
  <2>3. CASE proposal' = [proposal EXCEPT !.status = "cancelled",
                                          !.lifecycle = "outcome_observed",
                                          !.outcome = "cancelled_before_confirmation"]
    BY <2>1, <2>3, UpdatesKeep
  <2> QED BY <1>3, <2>2, <2>3 DEF Cancel
<1>4. ASSUME NEW m \in Messages, RecordDelivery(m) PROVE KeptBy(proposal, proposal')
  BY <1>4 DEF RecordDelivery, Proposal, KeptBy
<1>5. ASSUME NEW w \in Workers, NEW e \in events, DecideOperation(w, e)
      PROVE  KeptBy(proposal, proposal')
  <2>1. ASSUME AwaitsDecision, proposal' = Decided(e) PROVE KeptBy(proposal, proposal')
    <3>1. proposal.confirmation = None /\ proposal.outcome = None
      BY <2>1 DEF AwaitsDecision
    <3>2. CASE e.decision = "reject"
      BY <2>1, <3>1, <3>2 DEF Decided, Proposal, KeptBy
    <3>3. CASE e.decision # "reject"
      BY <2>1, <3>1, <3>3 DEF Decided, Proposal, KeptBy
    <3> QED BY <3>2, <3>3
  <2> QED BY <1>1, <1>5, <2>1 DEF DecideOperation
<1>6. ASSUME NEW w \in Workers, ObserveOutcome(w) PROVE KeptBy(proposal, proposal')
  <2>1. CASE CanObserve
    <3>1. proposal.outcome = None
      BY <2>1 DEF CanObserve
    <3>2. proposal' = [proposal EXCEPT !.lifecycle = "outcome_observed",
                                       !.outcome = "simulated", !.status = "applied"]
      BY <1>6, <2>1 DEF ObserveOutcome
    <3> QED BY <3>1, <3>2, UpdatesKeep
  <2> QED BY <1>1, <1>6, <2>1 DEF ObserveOutcome
<1>7. ASSUME NEW w \in Workers, ReserveTurn(w) \/ RecordResultDelivery(w)
      PROVE  KeptBy(proposal, proposal')
  BY <1>1, <1>7 DEF ReserveTurn, RecordResultDelivery, Proposal, KeptBy
<1>8. CASE HostStart \/ Consume
  BY <1>8, UpdatesKeep DEF HostStart, Consume
<1>9. ASSUME NEW r \in Reports, Report(r) PROVE KeptBy(proposal, proposal')
  <2>1. CASE proposal.outcome = "submission_unknown" /\ r # "submission_unknown"
    <3>1. proposal.reconciliation = None /\ proposal' = [proposal EXCEPT !.reconciliation = r]
      BY <1>9, <2>1 DEF Report
    <3> QED BY <3>1 DEF Proposal, KeptBy
  <2>2. CASE ~(proposal.outcome = "submission_unknown" /\ r # "submission_unknown")
    <3>1. /\ proposal.outcome = None
          /\ proposal' = [proposal EXCEPT !.lifecycle = "outcome_observed", !.outcome = r,
                                          !.status = "applied"]
      BY <1>9, <2>2 DEF Report, CanObserve
    <3> QED BY <3>1, UpdatesKeep
  <2> QED BY <2>1, <2>2
<1>10. ASSUME \/ \E m \in Messages : SendCard(m)
              \/ \E m \in Messages, d \in Decisions : Click(m, d)
              \/ Tick \/ WithdrawBinding \/ ReplaceExecutor \/ RecoverSimulationClaim \/ RecoverResult
              \/ \E w \in Workers : Abort(w)
              \/ UNCHANGED vars
       PROVE  KeptBy(proposal, proposal')
  BY <1>1, <1>10 DEF SendCard, Click, Tick, WithdrawBinding, ReplaceExecutor,
                     RecoverSimulationClaim, RecoverResult, Abort, vars, store
<1>11. ASSUME NEW w \in Workers, WorkerStep(w), ~ObserveOutcome(w), ~ReserveTurn(w),
              ~RecordResultDelivery(w)
       PROVE  KeptBy(proposal, proposal')
  <2>1. UNCHANGED proposal
    BY <1>11 DEF WorkerStep, TakeDispatchLock, NothingToDispatch, ExecuteClaimed, ExecutorRaises,
                 WakeRefused, SpawnTurn, TakeResultLock, BuildResultCard, PatchCard, PatchUnverified, store
  <2> QED BY <1>1, <2>1
<1> QED
  BY <1>2, <1>3, <1>4, <1>5, <1>6, <1>7, <1>8, <1>9, <1>10, <1>11 DEF Next

(* The store's methods never replace a delivery, a decision, a launch, a     *)
(* consumption, an outcome or a reconciliation.                              *)
THEOREM FactsAreKept == Spec => FactsStay
BY StoreHolds, NextKeepsFacts, PTL DEF Spec, FactsStay

-----------------------------------------------------------------------------
(* The launch of a Turn.                                                     *)

(* At most one thread is about to spawn, under an intent on record, and only *)
(* while nothing was spawned.                                                *)
LaunchInv ==
  /\ spawned <= 1
  /\ spawned > 0 => proposal.launched
  /\ \A w \in Workers : At(w, "spawn") => proposal.launched /\ spawned = 0
  /\ \A v, w \in Workers : At(v, "spawn") /\ At(w, "spawn") => v = w

LEMMA NextKeepsLaunch ==
  TypeInv /\ StoreInv /\ LaunchInv /\ [Next]_vars => LaunchInv'
<1> SUFFICES ASSUME TypeInv, StoreInv, LaunchInv, [Next]_vars PROVE LaunchInv'
  OBVIOUS
<1> USE DEF LaunchInv, TypeInv, TypeOK
<1>1. proposal.launched => proposal'.launched
  BY NextKeepsFacts DEF KeptBy
<1>2. ASSUME spawned' = spawned, \A w \in Workers : At(w, "spawn")' => At(w, "spawn")
      PROVE  LaunchInv'
  BY <1>1, <1>2
<1>3. ASSUME NEW w \in Workers, ReserveTurn(w) PROVE LaunchInv'
  BY <1>3 DEF ReserveTurn, WakeAdmitted, Go, At, Proposal, ghosts
<1>4. ASSUME NEW w \in Workers, SpawnTurn(w) PROVE LaunchInv'
  BY <1>4 DEF SpawnTurn, Go, At, AfterDispatch, store
<1>5. ASSUME NEW w \in Workers, WorkerStep(w), ~ReserveTurn(w), ~SpawnTurn(w) PROVE LaunchInv'
  <2>1. spawned' = spawned
    BY <1>5 DEF WorkerStep, TakeDispatchLock, NothingToDispatch, ExecuteClaimed, ExecutorRaises,
                ObserveOutcome, WakeRefused, TakeResultLock, BuildResultCard, PatchCard, PatchUnverified,
                RecordResultDelivery, ghosts
  <2>2. \A v \in Workers : At(v, "spawn")' => At(v, "spawn")
    BY <1>5 DEF WorkerStep, TakeDispatchLock, NothingToDispatch, ExecuteClaimed, ExecutorRaises,
                ObserveOutcome, WakeRefused, TakeResultLock, BuildResultCard, PatchCard, PatchUnverified,
                RecordResultDelivery, Go, Stop, Rest, AfterDispatch, At
  <2> QED BY <1>2, <2>1, <2>2
<1>6. ASSUME \/ \E w \in Workers, e \in events : DecideOperation(w, e)
             \/ \E w \in Workers : Abort(w)
             \/ RecoverSimulationClaim \/ RecoverResult
      PROVE  LaunchInv'
  <2>1. spawned' = spawned
    BY <1>6 DEF DecideOperation, Abort, RecoverSimulationClaim, RecoverResult, ghosts
  <2>2. \A v \in Workers : At(v, "spawn")' => At(v, "spawn")
    BY <1>6 DEF DecideOperation, Abort, RecoverSimulationClaim, RecoverResult, Go, Stop, Rest, At
  <2> QED BY <1>2, <2>1, <2>2
<1>7. ASSUME UNCHANGED <<worker, spawned>> PROVE LaunchInv'
  BY <1>2, <1>7 DEF At
<1> QED
  BY <1>3, <1>4, <1>5, <1>6, <1>7
     DEF Next, CreatePreview, ArmOperation, Cancel, RefuseLocalApply, FailLocalApply, SendCard,
         RecordDelivery, Click, Tick, HostStart, Consume, Report, WithdrawBinding, ReplaceExecutor,
         vars, ghosts, threads

(* reserve_agent_operation_turn: whatever is replayed, one Turn process is   *)
(* spawned for an operation.                                                 *)
THEOREM LaunchedOnce == Spec => []OneLaunch
<1>1. Init => LaunchInv
  BY DEF Init, LaunchInv, At, Rest
<1>2. LaunchInv => OneLaunch
  BY DEF LaunchInv, OneLaunch
<1> QED
  BY <1>1, <1>2, StoreHolds, NextKeepsLaunch, PTL DEF Spec

-----------------------------------------------------------------------------
(* The result card.                                                          *)

(* A card that a thread is about to patch or to record says what was         *)
(* observed when it was built, at the stage it names.                        *)
Truthful(v) ==
  v.final => /\ proposal.outcome # None
             /\ v.stage = "initial" => v.content = proposal.outcome
             /\ v.stage = "reconciled" => /\ proposal.reconciliation # None
                                          /\ v.content = proposal.reconciliation

Showing(w) == At(w, "result") \/ At(w, "patch") \/ At(w, "record")

(* The result lock has one holder, who found that the delivery on record is  *)
(* not current; what he recorded last was on the message, and so was what    *)
(* every delivery certified.                                                 *)
CardInv ==
  /\ \A w \in Workers : ~At(w, "idle") => proposal.delivery # None
  /\ \A w \in Workers : Showing(w) => resultLock = w
  /\ \A w \in Workers : At(w, "patch") \/ At(w, "record") =>
       ~ResultDeliveryCurrent /\ Truthful(worker[w].view)
  /\ \A w \in Workers : At(w, "record") =>
       /\ worker[w].view.final
       /\ shown[proposal.delivery.msg] = worker[w].view.content
  /\ proposal.resultDelivery # None => proposal.outcome # None /\ proposal.delivery # None
  /\ proposal.resultDelivery = "reconciled" => proposal.reconciliation # None
  /\ CertifiedCardShown

(* A step that leaves the messages, the delivery on record and the threads   *)
(* that show a card alone.                                                   *)
LEMMA FactsKeepCards ==
  ASSUME TypeInv, StoreInv, StoreInv', CardInv, KeptBy(proposal, proposal'),
         proposal'.resultDelivery = proposal.resultDelivery, proposal'.kind = proposal.kind,
         UNCHANGED shown,
         \A w \in Workers : Showing(w)' => worker'[w] = worker[w] /\ resultLock' = resultLock,
         \A w \in Workers : ~At(w, "idle")' => ~At(w, "idle") \/ proposal'.delivery # None
  PROVE  CardInv'
<1> USE NoneIsNew DEF TypeInv, TypeOK, CardInv
<1>1. /\ proposal.delivery # None => proposal'.delivery = proposal.delivery
      /\ proposal.outcome # None => proposal'.outcome = proposal.outcome
      /\ proposal.reconciliation # None => proposal'.reconciliation = proposal.reconciliation
  BY DEF KeptBy
<1>2. ~ResultDeliveryCurrent => ~ResultDeliveryCurrent'
  BY <1>1 DEF ResultDeliveryCurrent, Stage, IsAgent, Proposal, Stages
<1>3. \A v : Truthful(v) => Truthful(v)'
  BY <1>1 DEF Truthful
<1>4. CertifiedCardShown'
  <2> SUFFICES ASSUME ResultDeliveryCurrent' PROVE shown'[proposal'.delivery.msg] = Content'
    BY DEF CertifiedCardShown
  <2>1. ResultDeliveryCurrent
    BY <1>2
  <2>2. proposal.resultDelivery # None /\ proposal.outcome # None /\ proposal.delivery # None
    BY <2>1 DEF ResultDeliveryCurrent, StoreInv
  <2>3. proposal'.reconciliation = proposal.reconciliation
    BY <1>1, <2>1, <2>2 DEF ResultDeliveryCurrent, Stage, IsAgent, StoreInv, Stages
  <2> QED BY <1>1, <2>1, <2>2, <2>3 DEF CertifiedCardShown, Content
<1> QED
  BY <1>1, <1>2, <1>3, <1>4 DEF Showing, At

LEMMA NextKeepsCards ==
  TypeInv /\ StoreInv /\ CardInv /\ [Next]_vars => CardInv'
<1> SUFFICES ASSUME TypeInv, StoreInv, CardInv, [Next]_vars PROVE CardInv'
  OBVIOUS
<1> USE NoneIsNew DEF TypeInv, TypeOK
<1>0. StoreInv' /\ KeptBy(proposal, proposal')
  BY NextKeepsStore, NextKeepsFacts
<1>1. ASSUME NEW m \in Messages, SendCard(m) PROVE CardInv'
  <2>1. proposal.delivery # None => shown'[proposal.delivery.msg] = shown[proposal.delivery.msg]
    BY <1>1 DEF SendCard, StoreInv, Proposal
  <2> QED
    BY <1>1, <2>1 DEF SendCard, CardInv, Showing, At, Truthful, CertifiedCardShown,
                      ResultDeliveryCurrent, Content, Stage, IsAgent, store, threads
<1>2. ASSUME proposal'.resultDelivery = proposal.resultDelivery, proposal'.kind = proposal.kind,
             UNCHANGED <<shown, worker, resultLock>>
      PROVE  CardInv'
  BY <1>0, <1>2, FactsKeepCards DEF At
<1>3. CASE CreatePreview \/ ArmOperation \/ Cancel \/ RefuseLocalApply \/ FailLocalApply
           \/ (\E m \in Messages : RecordDelivery(m)) \/ HostStart \/ Consume
           \/ (\E r \in Reports : Report(r))
  <2>1. UNCHANGED <<shown, worker, resultLock>>
    BY <1>3 DEF CreatePreview, ArmOperation, Cancel, RefuseLocalApply, FailLocalApply, RecordDelivery,
                HostStart, Consume, Report, threads, others
  <2>2. proposal'.resultDelivery = proposal.resultDelivery /\ proposal'.kind = proposal.kind
    <3>1. CASE CreatePreview \/ RefuseLocalApply \/ FailLocalApply
      BY <3>1 DEF CreatePreview, RefuseLocalApply, FailLocalApply, Proposal
    <3>2. CASE ArmOperation
      BY <3>2 DEF ArmOperation, Proposal
    <3>3. CASE HostStart \/ Consume
      BY <3>3 DEF HostStart, Consume, Proposal
    <3>4. CASE Cancel
      BY <3>4 DEF Cancel, Proposal
    <3>5. CASE \E m \in Messages : RecordDelivery(m)
      BY <3>5 DEF RecordDelivery, Proposal
    <3>6. CASE \E r \in Reports : Report(r)
      <4>1. PICK r \in Reports :
              \/ proposal' = [proposal EXCEPT !.reconciliation = r]
              \/ proposal' = [proposal EXCEPT !.lifecycle = "outcome_observed", !.outcome = r,
                                              !.status = "applied"]
        BY <3>6 DEF Report
      <4> QED BY <4>1 DEF Proposal
    <3> QED BY <1>3, <3>1, <3>2, <3>3, <3>4, <3>5, <3>6
  <2> QED BY <1>2, <2>1, <2>2
<1>4. CASE (\E m \in Messages, d \in Decisions : Click(m, d)) \/ Tick \/ WithdrawBinding
           \/ ReplaceExecutor
           \/ UNCHANGED vars
  BY <1>2, <1>4 DEF Click, Tick, WithdrawBinding, ReplaceExecutor, vars, store, threads, others
<1>5. ASSUME NEW w \in Workers, NEW e \in events, DecideOperation(w, e) PROVE CardInv'
  <2>1. proposal'.delivery # None
    BY <1>0, <1>5 DEF DecideOperation, DecisionConsumed, CallbackMatches, StoreInv, KeptBy
  <2>2. proposal'.resultDelivery = proposal.resultDelivery /\ proposal'.kind = proposal.kind
    <3>1. CASE proposal' = Decided(e) /\ e.decision = "reject"
      BY <3>1 DEF Decided, Proposal
    <3>2. CASE proposal' = Decided(e) /\ e.decision # "reject"
      BY <3>2 DEF Decided, Proposal
    <3> QED BY <1>5, <3>1, <3>2 DEF DecideOperation
  <2>3. UNCHANGED <<shown, resultLock>> /\ worker' = [worker EXCEPT ![w].pc = "dispatchLock"]
    BY <1>5 DEF DecideOperation, Go, others
  <2>4. \A v \in Workers : Showing(v)' => worker'[v] = worker[v]
    BY <2>3 DEF Showing, At
  <2> QED BY <1>0, <2>1, <2>2, <2>3, <2>4, FactsKeepCards
<1>6. ASSUME NEW w \in Workers,
             \/ TakeDispatchLock(w) \/ NothingToDispatch(w) \/ ExecuteClaimed(w)
             \/ ExecutorRaises(w) \/ ObserveOutcome(w) \/ ReserveTurn(w) \/ WakeRefused(w) \/ SpawnTurn(w)
      PROVE  CardInv'
  <2>1. UNCHANGED <<shown, resultLock>>
    BY <1>6 DEF TakeDispatchLock, NothingToDispatch, ExecuteClaimed, ExecutorRaises, ObserveOutcome,
                ReserveTurn, WakeRefused, SpawnTurn, others
  <2>2. proposal'.resultDelivery = proposal.resultDelivery /\ proposal'.kind = proposal.kind
    <3>1. CASE ObserveOutcome(w)
      BY <3>1 DEF ObserveOutcome, Proposal
    <3>2. CASE ReserveTurn(w)
      BY <3>2 DEF ReserveTurn, Proposal
    <3> QED BY <1>6, <3>1, <3>2 DEF TakeDispatchLock, NothingToDispatch, ExecuteClaimed,
                                    ExecutorRaises, WakeRefused, SpawnTurn, store
  <2>3. /\ ~At(w, "idle")
        /\ \E p \in Points \ {"result", "patch", "record"} : Go(w, p) \/ Stop(w)
    BY <1>6 DEF TakeDispatchLock, NothingToDispatch, ExecuteClaimed, ExecutorRaises, ObserveOutcome,
                ReserveTurn, WakeRefused, SpawnTurn, AfterDispatch, At, Points
  <2>4. \A v \in Workers : /\ Showing(v)' => worker'[v] = worker[v]
                           /\ ~At(v, "idle")' => ~At(v, "idle")
    BY <2>3 DEF Showing, At, Go, Stop, Rest
  <2> QED BY <1>0, <2>1, <2>2, <2>4, FactsKeepCards
<1>7. ASSUME NEW w \in Workers, TakeResultLock(w) PROVE CardInv'
  <2>1. \A v \in Workers : ~Showing(v)
    BY <1>7, NoneAssumption DEF TakeResultLock, CardInv
  <2>2. /\ UNCHANGED <<proposal, shown>> /\ resultLock' = w
        /\ worker' = [worker EXCEPT ![w].pc = "result"] /\ ~At(w, "idle")
    BY <1>7 DEF TakeResultLock, Go, At, store, others
  <2> QED BY <2>1, <2>2 DEF CardInv, Showing, At, CertifiedCardShown, ResultDeliveryCurrent,
                            Content, Stage, IsAgent
<1>8. ASSUME NEW w \in Workers, Showing(w), resultLock' = None, Stop(w),
             proposal'.resultDelivery = proposal.resultDelivery, proposal'.kind = proposal.kind,
             UNCHANGED shown
      PROVE  CardInv'
  <2>1. \A v \in Workers : ~Showing(v)'
    BY <1>8 DEF CardInv, Stop, Rest, Showing, At
  <2>2. \A v \in Workers : ~At(v, "idle")' => ~At(v, "idle")
    BY <1>8 DEF Stop, Rest, At
  <2> QED BY <1>0, <1>8, <2>1, <2>2, FactsKeepCards
<1>9. ASSUME NEW w \in Workers, BuildResultCard(w) PROVE CardInv'
  <2>0. UNCHANGED <<proposal, shown>> /\ Showing(w)
    BY <1>9 DEF BuildResultCard, Showing, store, others
  <2>1. CASE ResultDeliveryCurrent
    BY <1>8, <1>9, <2>0, <2>1 DEF BuildResultCard
  <2>2. CASE ~ResultDeliveryCurrent
    <3>1. PICK card : card = [content |-> Content, stage |-> Stage,
                              final |-> proposal.lifecycle = "outcome_observed"]
      OBVIOUS
    <3>2. worker' = [worker EXCEPT ![w] = [pc |-> "patch", view |-> card]] /\ resultLock' = resultLock
      BY <1>9, <2>2, <3>1 DEF BuildResultCard
    <3>3. Truthful(card)' /\ ~ResultDeliveryCurrent'
      <4>1. Truthful(card)
        BY <3>1 DEF Truthful, Content, Stage, StoreInv
      <4> QED BY <2>0, <2>2, <4>1 DEF Truthful, ResultDeliveryCurrent, Stage, IsAgent
    <3>4. \A v \in Workers : v # w => ~Showing(v)'
      BY <2>0, <3>2 DEF CardInv, Showing, At
    <3>5. /\ At(w, "patch")' /\ ~At(w, "record")' /\ worker'[w].view = card
          /\ resultLock' = w
      BY <2>0, <3>2 DEF CardInv, At
    <3>6. \A v \in Workers : At(v, "idle") => v # w /\ At(v, "idle")'
      BY <2>0, <3>2 DEF Showing, At
    <3>7. \A v \in Workers : At(v, "patch")' \/ At(v, "record")' => v = w
      BY <3>4 DEF Showing
    <3>8. Truthful(worker[w].view)'
      BY <3>3, <3>5 DEF Truthful
    <3> QED BY <2>0, <3>3, <3>4, <3>5, <3>6, <3>7, <3>8 DEF CardInv, CertifiedCardShown
  <2> QED BY <2>1, <2>2
<1>10. ASSUME NEW w \in Workers, PatchCard(w) \/ PatchUnverified(w) PROVE CardInv'
  <2>0. /\ UNCHANGED proposal /\ At(w, "patch") /\ ~ResultDeliveryCurrent
        /\ ~ResultDeliveryCurrent'
    BY <1>10 DEF PatchCard, PatchUnverified, CardInv, store, ResultDeliveryCurrent, Stage, IsAgent
  <2>1. \A v \in Workers : v # w => ~Showing(v) /\ worker'[v] = worker[v]
    BY <1>10, <2>0 DEF PatchCard, PatchUnverified, CardInv, Showing, Go, Stop
  <2>2. CASE Stop(w)
    <3>1. \A v \in Workers : ~Showing(v)' /\ (~At(v, "idle")' => ~At(v, "idle"))
      BY <2>1, <2>2 DEF Stop, Rest, Showing, At
    <3> QED BY <2>0, <3>1 DEF CardInv, Showing, At, CertifiedCardShown
  <2>3. CASE PatchCard(w) /\ worker[w].view.final
    <3>1. worker' = [worker EXCEPT ![w].pc = "record"] /\ resultLock' = resultLock
      BY <2>3 DEF PatchCard, Go
    <3>2. proposal.delivery # None /\ proposal.delivery.msg \in Messages
      BY <2>0 DEF CardInv, At, Proposal
    <3>3. shown'[proposal.delivery.msg] = worker[w].view.content
      BY <2>3, <3>2 DEF PatchCard
    <3>4. worker'[w].view = worker[w].view /\ Truthful(worker[w].view)
      BY <2>0, <3>1 DEF CardInv
    <3>5. Truthful(worker[w].view)'
      BY <2>0, <3>4 DEF Truthful
    <3>6. \A v \in Workers : /\ v # w => ~Showing(v)'
                             /\ At(v, "idle") => At(v, "idle")'
      BY <2>0, <2>1, <3>1 DEF Showing, At
    <3>7. resultLock' = w
      BY <2>0, <3>1 DEF CardInv, Showing
    <3>8. \A v \in Workers : At(v, "patch")' \/ At(v, "record")' => v = w
      BY <3>6 DEF Showing
    <3> QED BY <2>0, <2>3, <3>2, <3>3, <3>4, <3>5, <3>6, <3>7, <3>8
            DEF CardInv, CertifiedCardShown
  <2> QED BY <1>10, <2>2, <2>3 DEF PatchCard, PatchUnverified
<1>11. ASSUME NEW w \in Workers, RecordResultDelivery(w) PROVE CardInv'
  <2> DEFINE v == worker[w].view
  <2>0. Showing(w) /\ UNCHANGED shown /\ Stop(w) /\ resultLock' = None
    BY <1>11 DEF RecordResultDelivery, Showing, others
  <2>1. CASE ~ResultDeliveryAccepted(v.stage)
    BY <1>8, <1>11, <2>0, <2>1 DEF RecordResultDelivery
  <2>2. CASE ResultDeliveryAccepted(v.stage)
    <3>1. proposal' = [proposal EXCEPT !.resultDelivery = v.stage]
      BY <1>11, <2>2 DEF RecordResultDelivery
    <3>2. /\ v.final /\ Truthful(v) /\ v.stage \in Stages /\ proposal.delivery # None
          /\ shown[proposal.delivery.msg] = v.content
      BY <1>11 DEF RecordResultDelivery, CardInv, At, View
    <3>3. v.content = Content
      BY <2>2, <3>2 DEF ResultDeliveryAccepted, Truthful, Content, Stage, Stages, StoreInv
    <3>4. /\ proposal'.delivery = proposal.delivery /\ proposal'.outcome = proposal.outcome
          /\ proposal'.reconciliation = proposal.reconciliation
          /\ proposal'.resultDelivery = v.stage
      BY <3>1 DEF Proposal
    <3>5. CertifiedCardShown'
      BY <2>0, <3>2, <3>3, <3>4 DEF CertifiedCardShown, Content
    <3>6. \A u \in Workers : ~Showing(u)' /\ (~At(u, "idle")' => ~At(u, "idle"))
      BY <2>0 DEF CardInv, Stop, Rest, Showing, At
    <3> QED BY <3>2, <3>4, <3>5, <3>6 DEF CardInv, Showing, Truthful
  <2> QED BY <2>1, <2>2
<1>12. ASSUME NEW w \in Workers, Abort(w) PROVE CardInv'
  <2>1. UNCHANGED <<proposal, shown>> /\ Stop(w)
    BY <1>12 DEF Abort, store, others
  <2>2. \A v \in Workers : /\ Showing(v)' => worker'[v] = worker[v] /\ resultLock' = resultLock
                           /\ ~At(v, "idle")' => ~At(v, "idle")
    BY <1>12 DEF Abort, CardInv, Stop, Rest, Showing, At
  <2> QED BY <1>0, <2>1, <2>2, FactsKeepCards
<1>13. CASE RecoverSimulationClaim \/ RecoverResult
  <2>1. UNCHANGED <<proposal, shown, resultLock>> /\ proposal.delivery # None
    BY <1>13 DEF RecoverSimulationClaim, RecoverResult, StoreInv, Confirmed, store, others
  <2>2. \A v \in Workers : Showing(v)' => worker'[v] = worker[v]
    BY <1>13 DEF RecoverSimulationClaim, RecoverResult, Go, Showing, At
  <2> QED BY <1>0, <2>1, <2>2, FactsKeepCards
<1> QED
  BY <1>1, <1>3, <1>4, <1>5, <1>6, <1>7, <1>9, <1>10, <1>11, <1>12, <1>13 DEF Next, WorkerStep

(* record_operation_result_delivery: a delivery that counts as current       *)
(* certifies what the bound message shows.                                   *)
THEOREM CertifiedCardsAreShown == Spec => []CertifiedCardShown
<1>1. Init => CardInv
  BY NoneIsNew DEF Init, CardInv, Rest, Showing, At, Stages, CertifiedCardShown,
                   ResultDeliveryCurrent
<1>2. CardInv => CertifiedCardShown
  BY DEF CardInv
<1> QED
  BY <1>1, <1>2, StoreHolds, NextKeepsCards, PTL DEF Spec

-----------------------------------------------------------------------------
(* The dispatch of a claimed simulation.                                     *)

(* The dispatch lock has one holder.  Where no thread has an outcome in hand *)
(* and the store has none, every run of the executor lost its outcome.       *)
Dispatching(w) == At(w, "dispatch") \/ At(w, "observe") \/ At(w, "spawn")
ExecInv ==
  /\ \A w \in Workers : Dispatching(w) => dispatchLock = w
  /\ executions <= 1
  /\ \A w \in Workers : At(w, "observe") => proposal.outcome # "simulated"
  /\ proposal.outcome # "simulated" /\ (\A w \in Workers : ~At(w, "observe"))
       => executions <= 0

(* An outcome "simulated" is recorded by the thread that has it in hand. *)
LEMMA OnlyObserversRecord ==
  ASSUME TypeInv, StoreInv, [Next]_vars, \A w \in Workers : ~ObserveOutcome(w)
  PROVE  proposal'.outcome = "simulated" <=> proposal.outcome = "simulated"
<1> USE NoneIsNew DEF TypeInv, TypeOK
<1>1. "simulated" # None
  BY DEF Outcomes
<1>2. proposal.outcome = "simulated" => proposal'.outcome = "simulated"
  BY <1>1, NextKeepsFacts DEF KeptBy
<1>3. CASE UNCHANGED proposal
  BY <1>3
<1>4. CASE CreatePreview \/ RefuseLocalApply \/ FailLocalApply
  BY <1>4 DEF CreatePreview, RefuseLocalApply, FailLocalApply, Proposal
<1>5. CASE ArmOperation
  BY <1>5 DEF ArmOperation, Proposal
<1>6. CASE Cancel
  BY <1>2, <1>6 DEF Cancel, Proposal
<1>7. CASE \E m \in Messages : RecordDelivery(m)
  BY <1>7 DEF RecordDelivery, Proposal
<1>8. CASE HostStart \/ Consume
  BY <1>8 DEF HostStart, Consume, Proposal
<1>9. CASE \E r \in Reports : Report(r)
  <2>1. PICK r \in Reports :
          \/ proposal' = [proposal EXCEPT !.reconciliation = r]
          \/ proposal' = [proposal EXCEPT !.lifecycle = "outcome_observed", !.outcome = r,
                                          !.status = "applied"]
    BY <1>9 DEF Report
  <2> QED BY <1>2, <2>1 DEF Proposal, Reports
<1>10. ASSUME NEW w \in Workers, NEW e \in events, DecideOperation(w, e)
       PROVE  proposal'.outcome = "simulated" <=> proposal.outcome = "simulated"
  <2>1. CASE proposal' = Decided(e) /\ e.decision = "reject"
    BY <1>2, <2>1 DEF Decided, Proposal
  <2>2. CASE proposal' = Decided(e) /\ e.decision # "reject"
    BY <2>2 DEF Decided, Proposal
  <2> QED BY <1>3, <1>10, <2>1, <2>2 DEF DecideOperation
<1>11. ASSUME NEW w \in Workers, ReserveTurn(w) \/ RecordResultDelivery(w)
       PROVE  proposal'.outcome = proposal.outcome
  BY <1>11 DEF ReserveTurn, RecordResultDelivery, Proposal
<1>12. ASSUME NEW w \in Workers, WorkerStep(w), ~ReserveTurn(w), ~RecordResultDelivery(w)
       PROVE  UNCHANGED proposal
  BY <1>12 DEF WorkerStep, TakeDispatchLock, NothingToDispatch, ExecuteClaimed, ExecutorRaises,
               WakeRefused, SpawnTurn, TakeResultLock, BuildResultCard, PatchCard,
               PatchUnverified, store
<1>13. CASE \/ \E m \in Messages : SendCard(m)
            \/ \E m \in Messages, d \in Decisions : Click(m, d)
            \/ Tick \/ WithdrawBinding \/ ReplaceExecutor
            \/ RecoverSimulationClaim \/ RecoverResult
            \/ \E w \in Workers : Abort(w)
            \/ UNCHANGED vars
  BY <1>3, <1>13 DEF SendCard, Click, Tick, WithdrawBinding, ReplaceExecutor,
                     RecoverSimulationClaim, RecoverResult, Abort, vars, store
<1> QED
  BY <1>3, <1>4, <1>5, <1>6, <1>7, <1>8, <1>9, <1>10, <1>11, <1>12, <1>13 DEF Next

LEMMA NextKeepsExec == TypeInv /\ StoreInv /\ ExecInv /\ [Next]_vars => ExecInv'
<1> SUFFICES ASSUME TypeInv, StoreInv, ExecInv, [Next]_vars PROVE ExecInv'
  OBVIOUS
<1> USE NoneIsNew DEF TypeInv, TypeOK, ExecInv, Dispatching
<1>1. ASSUME NEW w \in Workers, ObserveOutcome(w) PROVE ExecInv'
  <2>1. \A v \in Workers : ~Dispatching(v)'
    BY <1>1 DEF ObserveOutcome, Go, Stop, Rest, AfterDispatch, At
  <2>2. CASE CanObserve
    <3>1. executions' = executions
      BY <1>1, <2>2 DEF ObserveOutcome
    <3>2. proposal'.outcome = "simulated"
      BY <1>1, <2>2 DEF ObserveOutcome, Proposal
    <3> QED BY <2>1, <3>1, <3>2
  <2>3. CASE ~CanObserve
    <3>1. executions' = executions - 1
      BY <1>1, <2>3 DEF ObserveOutcome
    <3> QED BY <2>1, <3>1
  <2> QED BY <2>2, <2>3
<1>2. ASSUME \A w \in Workers : ~ObserveOutcome(w) PROVE ExecInv'
  <2>1. proposal'.outcome = "simulated" <=> proposal.outcome = "simulated"
    BY <1>2, OnlyObserversRecord
  <2>2. ASSUME UNCHANGED <<dispatchLock, executions>>,
               \A v \in Workers : /\ Dispatching(v)' => Dispatching(v)
                                  /\ At(v, "observe")' <=> At(v, "observe")
        PROVE  ExecInv'
    BY <2>1, <2>2
  <2>3. CASE UNCHANGED <<worker, dispatchLock, executions>>
    BY <2>2, <2>3 DEF At
  <2>4. ASSUME NEW w \in Workers, NEW e \in events, DecideOperation(w, e) PROVE ExecInv'
    BY <2>2, <2>4 DEF DecideOperation, Go, At, ghosts
  <2>5. ASSUME NEW w \in Workers, TakeDispatchLock(w) PROVE ExecInv'
    BY <2>1, <2>5, NoneAssumption DEF TakeDispatchLock, Go, At, ghosts
  <2>6. ASSUME NEW w \in Workers,
               NothingToDispatch(w) \/ WakeRefused(w) \/ SpawnTurn(w) \/ ExecutorRaises(w)
        PROVE  ExecInv'
    <3>1. Dispatching(w) /\ ~At(w, "observe") /\ executions' = executions
      BY <2>6 DEF NothingToDispatch, WakeRefused, SpawnTurn, ExecutorRaises, At, ghosts
    <3>2. Go(w, AfterDispatch(w)) \/ Stop(w)
      BY <2>6 DEF NothingToDispatch, WakeRefused, SpawnTurn, ExecutorRaises
    <3>3. \A v \in Workers : ~Dispatching(v)' /\ ~At(v, "observe")
      BY <3>1, <3>2 DEF Go, Stop, Rest, At, AfterDispatch
    <3> QED BY <2>1, <3>1, <3>3
  <2>7. ASSUME NEW w \in Workers, ExecuteClaimed(w) PROVE ExecInv'
    <3>1. /\ At(w, "dispatch") /\ worker' = [worker EXCEPT ![w].pc = "observe"]
          /\ executions' = executions + 1 /\ UNCHANGED dispatchLock
          /\ proposal.lifecycle = "claimed"
      BY <2>7 DEF ExecuteClaimed, Go
    <3>2. \A v \in Workers : ~At(v, "observe")
      BY <3>1 DEF At
    <3>3. proposal.outcome # "simulated"
      BY <3>1 DEF StoreInv, Outcomes
    <3>4. At(w, "observe")' /\ \A v \in Workers : Dispatching(v)' => Dispatching(v)
      BY <3>1 DEF At
    <3> QED BY <2>1, <3>1, <3>2, <3>3, <3>4
  <2>8. ASSUME NEW w \in Workers, ReserveTurn(w) PROVE ExecInv'
    BY <2>2, <2>8 DEF ReserveTurn, Go, At, ghosts
  <2>9. ASSUME NEW w \in Workers,
               \/ TakeResultLock(w) \/ BuildResultCard(w) \/ PatchCard(w) \/ PatchUnverified(w)
               \/ RecordResultDelivery(w)
        PROVE  ExecInv'
    <3>1. \A v \in Workers : /\ Dispatching(v)' => Dispatching(v)
                             /\ At(v, "observe")' <=> At(v, "observe")
      BY <2>9 DEF TakeResultLock, BuildResultCard, PatchCard, PatchUnverified,
                  RecordResultDelivery, Go, Stop, Rest, At
    <3>2. UNCHANGED <<dispatchLock, executions>>
      BY <2>9 DEF TakeResultLock, BuildResultCard, PatchCard, PatchUnverified,
                  RecordResultDelivery, ghosts
    <3> QED BY <2>2, <3>1, <3>2
  <2>10. ASSUME NEW w \in Workers, Abort(w) PROVE ExecInv'
    <3>1. /\ worker' = [worker EXCEPT ![w] = Rest]
          /\ dispatchLock' = IF dispatchLock = w THEN None ELSE dispatchLock
          /\ executions' = IF At(w, "observe") THEN executions - 1 ELSE executions
      BY <2>10 DEF Abort, Stop
    <3>2. \A v \in Workers : Dispatching(v)' => Dispatching(v) /\ v # w
      BY <3>1 DEF Rest, At
    <3>3. \A v \in Workers : /\ At(v, "observe")' => At(v, "observe")
                             /\ At(v, "observe") /\ v # w => At(v, "observe")'
      BY <3>1 DEF Rest, At
    <3>4. CASE At(w, "observe")
      BY <2>1, <3>1, <3>2, <3>3, <3>4
    <3>5. CASE ~At(w, "observe")
      BY <2>1, <3>1, <3>2, <3>3, <3>5
    <3> QED BY <3>4, <3>5
  <2>11. CASE RecoverSimulationClaim \/ RecoverResult
    <3>1. \A v \in Workers : /\ Dispatching(v)' => Dispatching(v)
                             /\ At(v, "observe")' <=> At(v, "observe")
      BY <2>11 DEF RecoverSimulationClaim, RecoverResult, Go, At
    <3> QED BY <2>2, <2>11, <3>1 DEF RecoverSimulationClaim, RecoverResult, ghosts
  <2>12. CASE \/ CreatePreview \/ ArmOperation \/ Cancel \/ RefuseLocalApply \/ FailLocalApply
              \/ \E m \in Messages : SendCard(m) \/ RecordDelivery(m)
              \/ \E m \in Messages, d \in Decisions : Click(m, d)
              \/ Tick \/ HostStart \/ Consume \/ WithdrawBinding \/ ReplaceExecutor
              \/ \E r \in Reports : Report(r)
              \/ UNCHANGED vars
    BY <2>3, <2>12
       DEF CreatePreview, ArmOperation, Cancel, RefuseLocalApply, FailLocalApply, SendCard,
           RecordDelivery, Click, Tick, HostStart, Consume, Report, WithdrawBinding,
           ReplaceExecutor, vars, ghosts, threads
  <2> QED
    BY <1>2, <2>4, <2>5, <2>6, <2>7, <2>8, <2>9, <2>10, <2>11, <2>12 DEF Next, WorkerStep
<1> QED
  BY <1>1, <1>2

(* The dispatch lock and the reload under it: copies of a callback, and      *)
(* recovery, run the executor again only when the outcome of the run before  *)
(* was lost, whatever executors, deaths and local apply requests do.         *)
THEOREM ExecutedAgainOnlyAfterALoss == Spec => []ExecutedAgainOnlyIfLost
<1>1. Init => ExecInv
  BY DEF Init, ExecInv, Dispatching, At, Rest
<1>2. ExecInv => ExecutedAgainOnlyIfLost
  BY DEF ExecInv, ExecutedAgainOnlyIfLost
<1> QED
  BY <1>1, <1>2, StoreHolds, NextKeepsExec, PTL DEF Spec
=============================================================================

------------------------------ MODULE ChatTurns ------------------------------
(***************************************************************************)
(* The Turns of one managed chat Session: chat_store.py keeps the durable  *)
(* Session and Turn files, chat_runtime.py the threads of the service.     *)
(*                                                                         *)
(* A Turn is either submitted (accept_managed_turn makes it the Session's  *)
(* active Turn, and a thread of its own runs it) or queued                 *)
(* (create_queued_turn; the Session's queue worker claims and runs it).    *)
(* Whoever runs it holds the Turn's execution fence, calls the provider    *)
(* and commits an outcome.  Stop, Resume, Close and the recovery of lost   *)
(* executions run in threads of their own, and the service may die and be  *)
(* started again between any two steps.                                    *)
(*                                                                         *)
(* A message, a response and an event are counted, never spelled out.      *)
(***************************************************************************)
EXTENDS Integers, FiniteSets, Sequences

CONSTANTS
  Turns,      \* the client Turn ids of the Session
  Submits,    \* bound: the Turns a client may submit; any Turn may be queued
  Stops,      \* bound: the Turns a user may stop
  None,       \* "no Turn", "nobody"
  Queue,      \* the thread of the Session's queue worker
  MaxPending, \* SESSION_QUEUE_MAX_PENDING
  MaxRetries, \* TRANSPORT_RETRY_MAX_RETRIES
  MaxResumes, \* bound: the calls of resume_session that have no request to replay
  MaxFaults,  \* bound: crashes, failed writes, lost adapters and transports, unconfirmed stops
  MaxUpsets   \* bound: the Turns stopped, the resumes and the faults together

Workers == Turns \cup {Queue}

ASSUME ConstantsDistinct ==
  /\ None \notin Workers \cup {"resume", "close", "recovery", "submit", "queue"}
  /\ Queue \notin Turns /\ Workers \cap {"resume", "close", "recovery"} = {}
  /\ Submits \subseteq Turns /\ Stops \subseteq Turns
  /\ MaxPending \in Nat /\ MaxRetries \in Nat
  /\ MaxResumes \in Nat /\ MaxFaults \in Nat /\ MaxUpsets \in Nat

VARIABLES
  session,   \* the Session file: status and active_turn_id
  turn,      \* the Turn files
  log,       \* what the transcript and the event streams show of a Turn
  order,     \* the Turns by created_at
  fence,     \* the execution locks and their holder records
  runs,      \* how often the provider was given a Turn's input
  run,       \* the executing threads: one per submitted Turn, and the queue worker;
             \* tool is history: a tool ran since the provider was given the input
  calls,     \* the threads of submit_turn and enqueue_turn
  stop,      \* the threads of interrupt_turn
  done,      \* turn_done_events
  cancelled, \* cancelled_turns
  wake,      \* session_queue_wakeups
  adapter,   \* the Session's adapter
  holds,     \* the threads whose adapter object is the Session's current one
  alock,     \* the Session's adapter lock, and where its holder is
  resume,    \* the resume_session calls without a request to replay: their number, and
             \* whether one waits for that lock
  faults

disk == <<session, turn, log, order, runs>>
threads == <<run, calls, stop>>
link == <<adapter, alock, resume>>
memory == <<done, cancelled, wake, holds, link>>
owned == <<fence, done, stop, holds>> \* what a worker gives back when it ends
vars == <<disk, fence, threads, memory, faults>>

TERMINAL_TURN_STATES == {"completed", "interrupted", "timed_out", "failed"}
Statuses == {"queued", "starting", "running", "completing", "interrupting"}
              \cup TERMINAL_TURN_STATES
Failures == {"failed", "timed_out"}

RunPoints == {"idle", "fence", "check", "call", "provider", "backoff", "commit", "finalize",
              "failed", "stale", "loop", "prepareActive", "unfitActive", "forgetActive", "drop",
              "scan", "claimed", "retire", "prepare", "adapt", "unfit", "forget", "ready"}

\* The Session and Turn files hold known statuses, the threads are at known points,
\* and no bound is passed.
TypeOK ==
  /\ session \in [status : {"ready", "busy", "stale", "resuming", "resume_failed", "closed"},
                  active : Turns \cup {None}]
  /\ turn \in [Turns -> [status : Statuses \cup {"absent"}, route : {"submit", "queue", None},
                         sealed : BOOLEAN, recovered : BOOLEAN]]
  /\ log \in [Turns -> [user : Nat, queued : BOOLEAN, answers : Nat, failures : Nat,
                        stops : Nat, stopAsked : BOOLEAN, retries : 0..MaxRetries]]
  /\ order \in Seq(Turns)
  /\ fence \in [Turns -> [by : Workers \cup {None, "recovery"}, record : BOOLEAN, here : BOOLEAN]]
  /\ runs \in [Turns -> Nat]
  /\ run \in [Workers -> [pc : RunPoints, turn : Turns \cup {None}, tool : BOOLEAN]]
  /\ calls \in [Turns -> {"idle", "prepare", "start", "wake"}]
  /\ stop \in [Turns -> [pc : {"idle", "capture", "signal", "wait", "publish"},
                         on : Workers \cup {None}, active : BOOLEAN]]
  /\ done \in [Turns -> [by : Workers \cup {None}, set : BOOLEAN]]
  /\ cancelled \subseteq Turns
  /\ wake \in BOOLEAN
  /\ adapter \in {"none", "sick", "up"}
  /\ holds \in [calls : SUBSET Turns, runs : SUBSET Workers]
  /\ alock \in [by : Workers \cup {None, "resume", "close"},
                at : {"free", "resume", "ensure", "fail", "event", "start", "close"},
                accepted : Turns \cup {None}, victim : Turns \cup {None}, preserve : BOOLEAN]
  /\ resume \in [calls : 0..MaxResumes, waiting : BOOLEAN]
  /\ faults \in 0..MaxFaults

NoEvent == [by |-> None, set |-> FALSE]
NoHolder == [calls |-> {}, runs |-> {}]
Unlocked == [by |-> None, at |-> "free", accepted |-> None, victim |-> None, preserve |-> FALSE]
Absent == [status |-> "absent", route |-> None, sealed |-> FALSE, recovered |-> FALSE]
Thread(pc, t) == [pc |-> pc, turn |-> t, tool |-> FALSE]
Idle == Thread("idle", None)
NoStop == [pc |-> "idle", on |-> None, active |-> FALSE]

Init ==
  /\ session = [status |-> "ready", active |-> None]
  /\ turn = [t \in Turns |-> Absent]
  /\ log = [t \in Turns |-> [user |-> 0, queued |-> FALSE, answers |-> 0, failures |-> 0,
                             stops |-> 0, stopAsked |-> FALSE, retries |-> 0]]
  /\ order = <<>>
  /\ fence = [t \in Turns |-> [by |-> None, record |-> FALSE, here |-> FALSE]]
  /\ runs = [t \in Turns |-> 0]
  /\ run = [w \in Workers |-> Idle]
  /\ calls = [t \in Turns |-> "idle"]
  /\ stop = [t \in Turns |-> NoStop]
  /\ done = [t \in Turns |-> NoEvent]
  /\ cancelled = {} /\ wake = FALSE
  /\ adapter \in {"none", "up"} /\ holds = NoHolder /\ alock = Unlocked
  /\ resume = [calls |-> 0, waiting |-> FALSE] /\ faults = 0

-----------------------------------------------------------------------------
Status(t) == IF t = None THEN "absent" ELSE turn[t].status
Terminal(t) == Status(t) \in TERMINAL_TURN_STATES
Live(t) == Status(t) \in Statuses \ TERMINAL_TURN_STATES
Prepared(t) == Live(t) /\ ~turn[t].sealed
At(w, pc) == run[w].pc = pc
Goto(w, pc) == run' = [run EXCEPT ![w].pc = pc]

\* The bounds of an instance.
Stopped == {t \in Turns : log[t].stopAsked}
Upset == Cardinality(Stopped) + resume.calls + faults < MaxUpsets
Fault == faults < MaxFaults /\ Upset /\ faults' = faults + 1

\* The queue worker holds the Session lock from its scan to its claim.
SessionFree == ~At(Queue, "claimed")
SetSession(s) == SessionFree /\ session' = s

\* release_active_turn: only this Turn's claim is given up.
ReleaseActive(t) ==
  SetSession(IF session.active = t THEN [status |-> "ready", active |-> None] ELSE session)

SetStatus(t, s) == turn' = [turn EXCEPT ![t].status = s]
Failed(t, s, recovered) == [turn EXCEPT ![t].status = s, ![t].recovered = recovered]
ReportFailure(t) == [log EXCEPT ![t].failures = @ + 1]

-----------------------------------------------------------------------------
(* Admission. *)

Blocked(t) == session.active \notin {None, t} /\ ~Terminal(session.active)
Owned(t) == session = [status |-> "busy", active |-> t]

\* planNewAcceptance.
CanCreate(t) ==
  /\ t \in Submits /\ Status(t) = "absent"
  /\ ~Blocked(t) /\ \A u \in Turns : ~Prepared(u)

\* planPreparedAcceptance.
CanRepair(t) ==
  /\ turn[t].route = "submit" /\ ~turn[t].sealed
  /\ \/ Terminal(t)
     \/ /\ Status(t) = "queued" /\ ~Blocked(t)
        /\ \A u \in Turns \ {t} : ~Prepared(u)
        /\ log[t].user = 1 \/ log[t].queued => Owned(t)
  /\ log[t].user <= 1 /\ (log[t].queued => log[t].user = 1)

\* planSettledReplay of a Turn that still has to be dispatched.
CanReplay(t) ==
  /\ turn[t].route = "submit" /\ turn[t].sealed
  /\ log[t].user = 1 /\ log[t].queued
  /\ Status(t) = "queued" /\ ~Blocked(t) /\ Owned(t)

\* accept_managed_turn up to its k-th write: the prepared Turn, the Session's
\* claim, the user's message, the queued event, the seal.
Accept(t, k) ==
  /\ turn' = [turn EXCEPT ![t] = IF Status(t) = "absent"
                                 THEN [Absent EXCEPT !.status = "queued", !.route = "submit",
                                                     !.sealed = (k = 5)]
                                 ELSE [turn[t] EXCEPT !.sealed = turn[t].sealed \/ k = 5]]
  /\ order' = IF Status(t) = "absent" THEN Append(order, t) ELSE order
  /\ SetSession(IF k >= 2 /\ ~Terminal(t) THEN [status |-> "busy", active |-> t] ELSE session)
  /\ log' = [log EXCEPT ![t].user = IF k >= 3 /\ @ = 0 THEN 1 ELSE @,
                        ![t].queued = @ \/ k >= 4]

\* submit_turn: under the adapter lock the request is accepted and, if it has to
\* be dispatched, the adapter is made ready.
Submit(t) ==
  /\ alock = Unlocked /\ calls[t] = "idle" /\ session.status # "closed"
  /\ CanCreate(t) \/ CanRepair(t) \/ CanReplay(t)
  /\ Accept(t, 5)
  /\ IF Terminal(t)
     THEN UNCHANGED <<calls, holds, link>>
     ELSE IF adapter = "up"
     THEN /\ calls' = [calls EXCEPT ![t] = "start"]
          /\ holds' = [holds EXCEPT !.calls = @ \cup {t}] /\ UNCHANGED link
     ELSE /\ calls' = [calls EXCEPT ![t] = "prepare"] /\ holds' = NoHolder
          /\ adapter' = "none" /\ UNCHANGED resume
          /\ alock' = [Unlocked EXCEPT !.by = t, !.at = "fail", !.accepted = t]
  /\ UNCHANGED <<runs, fence, run, stop, done, cancelled, wake, faults>>

\* One of the writes of the acceptance fails: the caller is told to try again.
SubmitCut(t, k) ==
  /\ alock = Unlocked /\ calls[t] = "idle" /\ session.status # "closed" /\ Fault
  /\ CanCreate(t) \/ (CanRepair(t) /\ ~Terminal(t))
  /\ Accept(t, k)
  /\ UNCHANGED <<runs, fence, threads, memory>>

\* _start_accepted_turn_worker.
StartWorker(t) ==
  /\ calls[t] = "start" /\ At(t, "idle")
  /\ IF done[t] = NoEvent
     THEN /\ done' = [done EXCEPT ![t] = [by |-> t, set |-> FALSE]]
          /\ run' = [run EXCEPT ![t] = Thread("fence", t)]
          /\ holds' = [calls |-> holds.calls \ {t}, runs |-> holds.runs \cup (holds.calls \cap {t})]
     ELSE holds' = [holds EXCEPT !.calls = @ \ {t}] /\ UNCHANGED <<done, run>>
  /\ calls' = [calls EXCEPT ![t] = "idle"]
  /\ UNCHANGED <<disk, fence, stop, cancelled, wake, link, faults>>

\* queued_turns.
Queued == {t \in Turns : Status(t) = "queued" /\ t # session.active}

\* create_queued_turn up to its k-th write: the Turn, the message, the event.
CreateQueued(t, k) ==
  /\ calls[t] = "idle" /\ SessionFree
  /\ Status(t) = "absent" /\ session.status # "closed"
  /\ Cardinality(Queued) < MaxPending
  /\ turn' = [turn EXCEPT ![t] = [Absent EXCEPT !.status = "queued", !.route = "queue",
                                                !.sealed = TRUE]]
  /\ order' = Append(order, t)
  /\ log' = [log EXCEPT ![t].user = IF k >= 2 THEN 1 ELSE @, ![t].queued = (k = 3)]
  /\ IF k = 3
     THEN calls' = [calls EXCEPT ![t] = "wake"] /\ UNCHANGED faults
     ELSE Fault /\ UNCHANGED calls
  /\ UNCHANGED <<session, runs, fence, run, stop, memory>>

\* Mutant: only the queued event is looked for, not the message itself.
RecoverInput_NoScan(t) == [log EXCEPT ![t].user = IF log[t].queued THEN @ ELSE @ + 1,
                                      ![t].queued = TRUE]

\* _recover_queued_turn_input: the queued event is the marker of a published input.
RecoverInput(t) == [log EXCEPT ![t].user = IF @ = 0 THEN 1 ELSE @, ![t].queued = TRUE]

\* create_queued_turn again for the same client id, with what was written before.
RetryQueued(t) ==
  /\ calls[t] = "idle" /\ SessionFree
  /\ turn[t].route = "queue" /\ ~log[t].queued
  /\ log' = RecoverInput(t)
  /\ calls' = [calls EXCEPT ![t] = "wake"]
  /\ UNCHANGED <<session, turn, order, runs, fence, run, stop, memory, faults>>

\* Mutant: a worker that runs is left no hint.
Wake_Lost ==
  IF At(Queue, "idle")
  THEN run' = [run EXCEPT ![Queue] = Thread("loop", None)] /\ UNCHANGED wake
  ELSE UNCHANGED <<run, wake>>

\* resume_session_queue: start the queue worker, or leave it a hint.
Wake ==
  IF At(Queue, "idle")
  THEN run' = [run EXCEPT ![Queue] = Thread("loop", None)] /\ UNCHANGED wake
  ELSE wake' = TRUE /\ UNCHANGED run

WakeQueue(t) ==
  /\ calls[t] = "wake" /\ Wake
  /\ calls' = [calls EXCEPT ![t] = "idle"]
  /\ UNCHANGED <<disk, fence, stop, done, cancelled, holds, link, faults>>

\* The services that poll their conversations: a Turn waits, or a request that was
\* accepted into the queue has no answer yet.
Polled == \/ Queued # {}
          \/ session.status # "closed" /\ \E t \in Turns : turn[t].route = "queue"
                                                         /\ Status(t) # "completed"
PollQueue ==
  /\ Polled /\ Wake
  /\ UNCHANGED <<disk, fence, calls, stop, done, cancelled, holds, link, faults>>

-----------------------------------------------------------------------------
(* resume_session and _ensure_adapter_locked, under the adapter lock. *)

\* _has_live_turn_worker.
LiveWorker(t) ==
  /\ t # None /\ Status(t) \in {"starting", "running", "interrupting"}
  /\ done[t].by # None /\ ~done[t].set

\* An active Turn that is queued keeps its claim while the adapter is prepared.
AcceptedTurn == IF session.active # None /\ Status(session.active) = "queued"
                THEN session.active ELSE None

\* resume_session has no request to replay (with one, it is Submit).
ResumeAsk ==
  /\ ~resume.waiting /\ resume.calls < MaxResumes /\ Upset /\ session.status # "closed"
  /\ AcceptedTurn = None /\ \A t \in Turns : ~Prepared(t)
  /\ resume' = [calls |-> resume.calls + 1, waiting |-> TRUE]
  /\ UNCHANGED <<disk, fence, threads, done, cancelled, wake, holds, adapter, alock, faults>>

\* Under the adapter lock it reads whether an adapter or a worker is alive.
ResumeBegin ==
  /\ resume.waiting /\ alock = Unlocked /\ resume' = [resume EXCEPT !.waiting = FALSE]
  /\ alock' = IF session.status = "closed" THEN Unlocked
              ELSE [Unlocked EXCEPT !.by = "resume", !.at = "resume",
                                    !.preserve = (adapter = "up" \/ LiveWorker(session.active))]
  /\ UNCHANGED <<disk, fence, threads, done, cancelled, wake, holds, adapter, faults>>

\* prepare_managed_session_resume: an active Turn is preserved, or loses the Session.
ResumeTakes ==
  /\ alock.at = "resume"
  /\ IF alock.preserve /\ Live(session.active)
     THEN alock' = Unlocked /\ UNCHANGED session
     ELSE /\ SetSession([status |-> "stale", active |-> None])
          /\ alock' = [alock EXCEPT !.at = "ensure", !.victim = session.active]
  /\ UNCHANGED <<turn, log, order, runs, fence, threads, done, cancelled, wake, holds,
                 adapter, resume, faults>>

\* The holder of the adapter lock gives up: the queue worker goes on to fail its Turn.
Raise ==
  /\ alock' = Unlocked
  /\ run' = IF alock.by = Queue
            THEN [run EXCEPT ![Queue].pc = IF @ = "adapt" THEN "unfit" ELSE "unfitActive"]
            ELSE run
  /\ calls' = [t \in Turns |-> IF t = alock.by THEN "idle" ELSE calls[t]]

\* restore_managed_session_if_idle.
Restored == IF session.active = None THEN [session EXCEPT !.status = "ready"] ELSE session

\* The holder has a working adapter.
HasAdapter ==
  /\ adapter' = "up" /\ alock' = Unlocked
  /\ run' = IF alock.by = Queue
            THEN [run EXCEPT ![Queue].pc = IF @ = "adapt" THEN "ready" ELSE "loop"] ELSE run
  /\ calls' = [t \in Turns |-> IF t = alock.by THEN "start" ELSE calls[t]]
  /\ holds' = [calls |-> holds.calls \cup (Turns \cap {alock.by}),
               runs |-> holds.runs \cup (IF At(Queue, "adapt") /\ alock.by = Queue
                                         THEN {Queue} ELSE {})]

\* The Session is read again.  A working adapter is kept; without one, the worker of
\* the active Turn is left alone; a sick one is closed.
EnsureAdapter ==
  /\ alock.at = "ensure"
  /\ IF session.status = "closed" \/ (adapter = "none" /\ LiveWorker(session.active))
     THEN Raise /\ UNCHANGED <<session, adapter, holds>>
     ELSE IF adapter = "up"
     THEN /\ HasAdapter
          /\ IF alock.by = "resume" THEN SetSession(Restored) ELSE UNCHANGED session
     ELSE /\ adapter' = "none" /\ holds' = NoHolder
          /\ alock' = [alock EXCEPT !.at = "fail", !.accepted = AcceptedTurn,
                                    !.victim = IF @ = None THEN session.active ELSE @]
          /\ UNCHANGED <<session, run, calls>>
  /\ UNCHANGED <<turn, log, order, runs, fence, stop, done, cancelled, wake, resume, faults>>

\* Unless it is prepared for an accepted Turn, the Turn that had the Session is failed
\* as lost.  (The Session's status is written first; nothing tells "resuming" from "stale".)
FailLost ==
  /\ alock.at = "fail"
  /\ IF alock.accepted # None
     THEN /\ IF Status(alock.accepted) = "queued"
             THEN alock' = [alock EXCEPT !.at = "start"] /\ UNCHANGED <<run, calls>>
             ELSE Raise
          /\ UNCHANGED <<session, turn>>
     ELSE /\ SetSession([session EXCEPT !.status = "resuming"])
          /\ IF Status(alock.victim) \in {"queued", "starting", "running", "interrupting"}
             THEN /\ turn' = Failed(alock.victim, "failed", TRUE)
                  /\ alock' = [alock EXCEPT !.at = "event"]
             ELSE alock' = [alock EXCEPT !.at = "start"] /\ UNCHANGED turn
          /\ UNCHANGED <<run, calls>>
  /\ UNCHANGED <<log, order, runs, fence, stop, done, cancelled, wake, holds, adapter,
                 resume, faults>>

\* Its event is a write of its own, without the Turn's fence.
ReportLost ==
  /\ alock.at = "event" /\ log' = ReportFailure(alock.victim)
  /\ alock' = [alock EXCEPT !.at = "start"]
  /\ UNCHANGED <<session, turn, order, runs, fence, threads, done, cancelled, wake, holds,
                 adapter, resume, faults>>

AdapterStarts ==
  /\ alock.at = "start" /\ HasAdapter /\ SetSession(Restored)
  /\ UNCHANGED <<turn, log, order, runs, fence, stop, done, cancelled, wake, resume, faults>>

\* A write fails, or the adapter does not start.
PrepareCut ==
  /\ alock.at \in {"fail", "event", "start"} /\ Fault /\ Raise
  /\ IF alock.at = "start"
     THEN SetSession([status |-> IF alock.accepted # None THEN "busy" ELSE "resume_failed",
                      active |-> alock.accepted])
     ELSE UNCHANGED session
  /\ UNCHANGED <<turn, log, order, runs, fence, stop, done, cancelled, wake, holds, adapter,
                 resume>>

-----------------------------------------------------------------------------
(* The queue worker: _drain_session_queue. *)

Q == run[Queue].turn
QueueRests == run' = [run EXCEPT ![Queue] = Idle] /\ wake' = FALSE
QueueGoes(pc, t) == run' = [run EXCEPT ![Queue] = Thread(pc, t)]

\* No active Turn: forget the hint and look for work.  A queued active Turn with a
\* sealed acceptance is a claim that lost its worker.  An active Turn without an
\* adapter gets one; with one, it still runs (wait) or has ended.
QueueLoop ==
  /\ At(Queue, "loop")
  /\ LET a == session.active IN
     IF session.status = "closed" THEN QueueRests
     ELSE IF a = None THEN QueueGoes("scan", None) /\ wake' = FALSE
     ELSE IF Status(a) = "queued" /\ turn[a].sealed THEN QueueGoes("prepare", a) /\ wake' = FALSE
     ELSE /\ UNCHANGED wake
          /\ IF adapter # "up" THEN QueueGoes("prepareActive", a)
             ELSE Terminal(a) /\ QueueGoes("drop", a)
  /\ UNCHANGED <<disk, fence, calls, stop, done, cancelled, holds, link, faults>>

\* The claim of an ended Turn is given up.
QueueDrop ==
  /\ At(Queue, "drop")
  /\ ReleaseActive(Q) /\ Goto(Queue, "scan") /\ wake' = FALSE
  /\ UNCHANGED <<turn, log, order, runs, fence, calls, stop, done, cancelled, holds, link, faults>>

\* queued_turns is sorted by created_at: the first place of a queued Turn.
Waiting == {i \in DOMAIN order : order[i] \in Queued}
Oldest == IF Waiting = {} THEN None ELSE order[CHOOSE i \in Waiting : \A j \in Waiting : i <= j]

\* Mutant: the Session's active Turn is not looked at again.
Claimable_Stale == session.status # "closed" /\ Oldest # None
\* What the scan finds under the Session lock: the Session may have a Turn by now.
Claimable == session.status # "closed" /\ session.active = None /\ Oldest # None

\* claim_next_queued_turn, the scan.  A prepared acceptance at the head of the
\* queue ends the worker.
QueueScan ==
  /\ At(Queue, "scan")
  /\ IF ~Claimable
     THEN Goto(Queue, "retire") /\ UNCHANGED <<log, wake>>
     ELSE IF ~turn[Oldest].sealed THEN QueueRests /\ UNCHANGED log
     ELSE QueueGoes("claimed", Oldest) /\ log' = RecoverInput(Oldest) /\ UNCHANGED wake
  /\ UNCHANGED <<session, turn, order, runs, fence, calls, stop, done, cancelled,
                 holds, link, faults>>

\* claim_next_queued_turn, the claim.
QueueClaim ==
  /\ At(Queue, "claimed")
  /\ session' = [status |-> "busy", active |-> Q]
  /\ Goto(Queue, "prepare")
  /\ UNCHANGED <<turn, log, order, runs, fence, calls, stop, memory, faults>>

\* Nothing to claim: retire, unless a hint was left since it was forgotten.
QueueRetire ==
  /\ At(Queue, "retire")
  /\ IF wake THEN Goto(Queue, "loop") /\ UNCHANGED wake ELSE QueueRests
  /\ UNCHANGED <<disk, fence, calls, stop, done, cancelled, holds, link, faults>>

\* The event of whoever runs t is set: nobody waits for it any longer.
Acknowledged(w, t) == [stop EXCEPT ![t].on = IF @ = w THEN None ELSE @]

\* The Session's claim is checked, then the adapter lock is waited for.
QueueCheck ==
  /\ At(Queue, "prepare")
  /\ IF session.active # Q THEN QueueRests ELSE Goto(Queue, "adapt") /\ UNCHANGED wake
  /\ UNCHANGED <<disk, fence, calls, stop, done, cancelled, holds, link, faults>>

\* _ensure_adapter, for the claimed Turn or for an active Turn without an adapter.
QueuePrepare ==
  /\ At(Queue, "adapt") \/ At(Queue, "prepareActive")
  /\ alock = Unlocked
  /\ alock' = [Unlocked EXCEPT !.by = Queue, !.at = "ensure"]
  /\ UNCHANGED <<disk, fence, threads, done, cancelled, wake, holds, adapter, resume, faults>>

\* It also sets the event of a worker that still runs the Turn.
EventSet(t) ==
  /\ done' = [done EXCEPT ![t].set = (done[t].by # None)]
  /\ stop' = Acknowledged(done[t].by, t)

\* _fail_queue_preparation: the status.
QueueFails ==
  LET t == Q IN
  /\ At(Queue, "unfit") \/ At(Queue, "unfitActive")
  /\ IF Status(t) \in {"queued", "starting", "running"}
     THEN /\ turn' = Failed(t, "failed", FALSE)
          /\ Goto(Queue, IF At(Queue, "unfit") THEN "forget" ELSE "forgetActive")
          /\ UNCHANGED <<done, stop>>
     ELSE /\ EventSet(t) /\ UNCHANGED turn
          /\ Goto(Queue, IF At(Queue, "unfitActive") /\ Terminal(t) THEN "drop" ELSE "loop")
  /\ UNCHANGED <<session, log, order, runs, fence, calls, cancelled, wake, holds, link,
                 faults>>

\* The event, the message and the claim.
QueueForgets ==
  /\ At(Queue, "forget") \/ At(Queue, "forgetActive")
  /\ log' = ReportFailure(Q) /\ ReleaseActive(Q) /\ EventSet(Q)
  /\ Goto(Queue, IF At(Queue, "forget") THEN "loop" ELSE "drop")
  /\ UNCHANGED <<turn, order, runs, fence, calls, cancelled, wake, holds, link, faults>>

\* The claim may be gone by now.  Otherwise the worker registers its event, over
\* whatever event the Turn had, and runs the Turn.
QueueRuns ==
  /\ At(Queue, "ready")
  /\ IF session.active # Q
     THEN QueueRests /\ UNCHANGED done
     ELSE /\ done' = [done EXCEPT ![Q] = [by |-> Queue, set |-> FALSE]]
          /\ Goto(Queue, "fence") /\ UNCHANGED wake
  /\ UNCHANGED <<disk, fence, calls, stop, cancelled, holds, link, faults>>

-----------------------------------------------------------------------------
(* Running a Turn: _run_turn and _run_started_turn, by worker w. *)

\* The end of _run_turn: the fence and the event are given back.
EndRun(w) ==
  LET t == run[w].turn IN
  /\ fence' = IF fence[t].by = w THEN [fence EXCEPT ![t].by = None] ELSE fence
  /\ done' = [done EXCEPT ![t] = IF @.by = w THEN NoEvent ELSE @]
  /\ stop' = Acknowledged(w, t)
  /\ holds' = [holds EXCEPT !.runs = @ \ {w}]
  /\ run' = [run EXCEPT ![w] = IF w = Queue THEN Thread("loop", None) ELSE Idle]

\* The start fact is a compare-and-set: a Turn is started once.
CanStart(t) == Status(t) = "queued"

\* Single flight: another executor, or a recovery, holds the Turn's fence.
FenceFree(w) == fence[run[w].turn].by = None

StartTurn(w) ==
  LET t == run[w].turn IN
  /\ At(w, "fence")
  /\ IF ~FenceFree(w) THEN EndRun(w) /\ UNCHANGED <<turn, cancelled>>
     ELSE IF ~CanStart(t)
     THEN /\ fence' = [fence EXCEPT ![t] = [by |-> None, record |-> TRUE, here |-> TRUE]]
          /\ done' = [done EXCEPT ![t] = IF @.by = w THEN NoEvent ELSE @]
          /\ stop' = Acknowledged(w, t) /\ holds' = [holds EXCEPT !.runs = @ \ {w}]
          /\ run' = [run EXCEPT ![w] = IF w = Queue THEN Thread("loop", None) ELSE Idle]
          /\ cancelled' = cancelled \ {t} /\ UNCHANGED turn
     ELSE /\ fence' = [fence EXCEPT ![t] = [by |-> w, record |-> TRUE, here |-> TRUE]]
          /\ SetStatus(t, "starting") /\ Goto(w, "check")
          /\ UNCHANGED <<done, stop, holds, cancelled>>
  /\ UNCHANGED <<session, log, order, runs, calls, wake, link, faults>>

\* mayContinueChatTurn: the durable claim still is this Turn's.
ExecutionAllowed(t) ==
  session.status # "closed" /\ session.active = t /\ Status(t) \in {"starting", "running"}
ExecutionEnded(t) == t \in cancelled \/ ~ExecutionAllowed(t)

\* execution_ended, before the provider is called and when it has answered.
Check(w, pc, next) ==
  LET t == run[w].turn IN
  /\ At(w, pc)
  /\ IF ExecutionEnded(t) THEN EndRun(w)
     ELSE /\ run' = [run EXCEPT ![w].pc = next, ![w].tool = @ /\ next = "call"]
          /\ UNCHANGED owned
  /\ cancelled' = cancelled \ {t}
  /\ UNCHANGED <<disk, calls, wake, link, faults>>

\* The adapter this worker was given still reaches the provider.
Usable(w) == w \in holds.runs /\ adapter = "up"

CallProvider(w) ==
  LET t == run[w].turn IN
  /\ At(w, "call") /\ Usable(w) /\ Goto(w, "provider")
  /\ runs' = [runs EXCEPT ![t] = @ + 1]
  /\ turn' = [turn EXCEPT ![t].status = IF @ = "starting" THEN "running" ELSE @]
  /\ UNCHANGED <<session, log, order, fence, calls, stop, memory, faults>>

\* A tool of the provider runs for the Turn; the provider is external.
ToolRuns(w) ==
  /\ At(w, "provider") \/ At(w, "backoff")
  /\ ~run[w].tool /\ run' = [run EXCEPT ![w].tool = TRUE]
  /\ UNCHANGED <<disk, fence, calls, stop, memory, faults>>

\* transport_retry_readback: the input was accepted, and no tool ran.
Readback(w) == ~run[w].tool

\* The adapter still is the Session's, and the durable claim still this Turn's.
Current(w) == Usable(w) /\ ExecutionAllowed(run[w].turn)

\* _prepare_transport_retry: another attempt is recorded before its backoff.
PlanRetry(w) ==
  LET t == run[w].turn IN
  /\ At(w, "provider") /\ Fault /\ Current(w) /\ Readback(w)
  /\ log[t].retries < MaxRetries
  /\ log' = [log EXCEPT ![t].retries = @ + 1] /\ Goto(w, "backoff")
  /\ UNCHANGED <<session, turn, order, runs, fence, calls, stop, memory>>

\* Mutant: the earlier readback is trusted after the backoff.
Retry_Unread(w) ==
  /\ At(w, "backoff") /\ Current(w) /\ Goto(w, "check")
  /\ UNCHANGED <<disk, fence, calls, stop, memory, faults>>
\* After the backoff everything is read again, and the same input is given again.
Retry(w) ==
  /\ At(w, "backoff") /\ Current(w) /\ Readback(w) /\ Goto(w, "check")
  /\ UNCHANGED <<disk, fence, calls, stop, memory, faults>>

\* Mutant: the answer is committed whatever became of the Turn.
CommitAnswer_Blind(w) ==
  LET t == run[w].turn IN
  /\ At(w, "commit")
  /\ SetStatus(t, "completing") /\ Goto(w, "finalize") /\ UNCHANGED owned
  /\ UNCHANGED <<session, log, order, runs, calls, cancelled, wake, link, faults>>

\* The answer is committed unless the Turn has another outcome by now.
CommitAnswer(w) ==
  LET t == run[w].turn IN
  /\ At(w, "commit")
  /\ IF Status(t) \in {"starting", "running"}
     THEN SetStatus(t, "completing") /\ Goto(w, "finalize") /\ UNCHANGED owned
     ELSE EndRun(w) /\ UNCHANGED turn
  /\ UNCHANGED <<session, log, order, runs, calls, cancelled, wake, link,
                 faults>>

\* What finalize_managed_turn_completion publishes, once.
Answered(l) == IF l.answers = 0 THEN [l EXCEPT !.answers = 1] ELSE l
Answer(t) == [log EXCEPT ![t] = Answered(log[t])]

\* finalize_managed_turn_completion under the Turn's lock, up to its k-th write: the
\* answer and its event, the release of the claim, the terminal status.
FinalizeTurn(w, k) ==
  LET t == run[w].turn IN
  /\ At(w, "finalize") /\ EndRun(w)
  /\ IF Status(t) = "completing"
     THEN /\ log' = Answer(t)
          /\ IF k >= 2 THEN ReleaseActive(t) ELSE UNCHANGED session
          /\ IF k = 3 THEN SetStatus(t, "completed") ELSE UNCHANGED turn
     ELSE UNCHANGED <<session, log, turn>>
  /\ IF k = 3 THEN UNCHANGED faults ELSE Fault
  /\ UNCHANGED <<order, runs, calls, cancelled, wake, link>>

\* _fail_turn after an error or a timeout of the provider: the status, then (in
\* PublishFailure) the event, the message and the claim.
ProviderFails(w, s) ==
  LET t == run[w].turn IN
  /\ \/ At(w, "provider") \/ (At(w, "call") /\ ~Usable(w))
     \/ At(w, "backoff") /\ s = "failed"
  /\ IF Status(t) \in {"starting", "running"}
     THEN /\ turn' = Failed(t, s, FALSE) /\ UNCHANGED owned
          /\ run' = [run EXCEPT ![w] = Thread("failed", t)]
     ELSE EndRun(w) /\ UNCHANGED turn
  /\ UNCHANGED <<session, log, order, runs, calls, cancelled, wake, link,
                 faults>>

PublishFailure(w) ==
  /\ At(w, "failed") /\ log' = ReportFailure(run[w].turn) /\ ReleaseActive(run[w].turn)
  /\ \/ ~Usable(w) /\ w \in holds.runs /\ Goto(w, "stale") /\ UNCHANGED owned
     \/ EndRun(w)
  /\ UNCHANGED <<turn, order, runs, calls, cancelled, wake, link, faults>>

\* The provider's transport is gone: the Session is marked stale.
MarkStale(w) ==
  /\ At(w, "stale") /\ EndRun(w)
  /\ IF w \in holds.runs
     THEN adapter' = "none" /\ SetSession([session EXCEPT !.status = "stale"])
     ELSE UNCHANGED <<adapter, session>>
  /\ UNCHANGED <<turn, log, order, runs, calls, cancelled, wake, alock, resume, faults>>

\* A write fails, and so does the record of that failure: the thread leaves the
\* Turn as it is.
WorkerDies(w) ==
  /\ run[w].pc \in {"check", "call", "provider", "backoff", "commit", "finalize", "failed", "stale"}
  /\ Fault /\ EndRun(w)
  /\ UNCHANGED <<disk, calls, cancelled, wake, link>>

-----------------------------------------------------------------------------
(* interrupt_turn, in a thread of its own. *)

\* begin_turn_interrupt: the stop intent and the status are one transition.  A
\* prepared acceptance is finished first.
StopBegin(t) ==
  /\ t \in Stops /\ (t \in Stopped \/ Upset) /\ alock = Unlocked /\ stop[t].pc = "idle"
  /\ Status(t) \in {"queued", "starting", "running", "interrupting"}
  /\ turn[t].sealed \/ (session.status # "closed" /\ CanRepair(t))
  /\ turn' = [turn EXCEPT ![t].status = "interrupting", ![t].sealed = TRUE]
  /\ IF turn[t].sealed THEN UNCHANGED session
     ELSE SetSession([status |-> "busy", active |-> t])
  /\ log' = [log EXCEPT ![t].stopAsked = TRUE,
                        ![t].user = IF turn[t].sealed THEN @ ELSE 1,
                        ![t].queued = @ \/ ~turn[t].sealed]
  /\ stop' = [stop EXCEPT ![t] = [NoStop EXCEPT !.pc = "capture"]]
  /\ UNCHANGED <<order, runs, fence, run, calls, memory, faults>>

\* A stop that comes after the answer was committed finishes its publication.
StopFinalizes(t) ==
  /\ t \in Stops /\ stop[t].pc = "idle" /\ Status(t) = "completing"
  /\ log' = Answer(t) /\ ReleaseActive(t) /\ SetStatus(t, "completed")
  /\ UNCHANGED <<order, runs, fence, threads, memory, faults>>

\* The worker's event is looked up and the Turn is marked cancelled.
StopCapture(t) ==
  /\ stop[t].pc = "capture"
  /\ stop' = [stop EXCEPT ![t] = [pc |-> IF session.active = t THEN "signal" ELSE "wait",
                                  on |-> IF done[t].set THEN None ELSE done[t].by,
                                  active |-> (session.active = t)]]
  /\ cancelled' = cancelled \cup {t}
  /\ UNCHANGED <<disk, fence, run, calls, done, wake, holds, link, faults>>

\* The adapter is told to interrupt the provider's Turn.
StopSignal(t) ==
  /\ stop[t].pc = "signal" /\ alock = Unlocked
  /\ stop' = [stop EXCEPT ![t].pc = "wait"]
  /\ UNCHANGED <<disk, fence, run, calls, memory, faults>>

\* No transport, no answer of the provider, or no worker's acknowledgement in time.
StopUnconfirmed(t) ==
  /\ stop[t].pc \in {"signal", "wait"} /\ Fault
  /\ stop' = [stop EXCEPT ![t] = NoStop]
  /\ UNCHANGED <<disk, fence, run, calls, memory>>

\* Mutant: the Turn is interrupted whatever became of it.
StopMark_Blind(t) ==
  /\ stop[t].pc = "wait" /\ stop[t].on = None
  /\ cancelled' = cancelled \ {t}
  /\ SetStatus(t, "interrupted") /\ stop' = [stop EXCEPT ![t].pc = "publish"]
  /\ UNCHANGED <<session, log, order, runs, fence, run, calls, done, wake, holds, link, faults>>
\* The worker has ended: the Turn is interrupted, unless it has another outcome.
StopMark(t) ==
  /\ stop[t].pc = "wait" /\ stop[t].on = None
  /\ cancelled' = cancelled \ {t}
  /\ IF Status(t) = "interrupting"
     THEN SetStatus(t, "interrupted") /\ stop' = [stop EXCEPT ![t].pc = "publish"]
     ELSE stop' = [stop EXCEPT ![t] = NoStop] /\ UNCHANGED turn
  /\ UNCHANGED <<session, log, order, runs, fence, run, calls, done, wake, holds, link, faults>>

\* The event and the message of the stop, and the claim if it had one.
StopPublish(t) ==
  /\ stop[t].pc = "publish" /\ log' = [log EXCEPT ![t].stops = @ + 1]
  /\ IF stop[t].active THEN ReleaseActive(t) ELSE UNCHANGED session
  /\ stop' = [stop EXCEPT ![t] = NoStop]
  /\ UNCHANGED <<turn, order, runs, fence, run, calls, memory, faults>>

-----------------------------------------------------------------------------
(* close_session, recovery, faults. *)

\* Mutant: the queue is not looked at.
Closable_Queued == session.active = None \/ Terminal(session.active)
\* _close_session_if_idle: no live active Turn, and nothing queued.
Closable == (session.active = None \/ Terminal(session.active)) /\ Queued = {}

Close ==
  /\ alock = Unlocked /\ session.status # "closed"
  /\ Closable
  /\ SetSession([status |-> "closed", active |-> None])
  /\ alock' = [Unlocked EXCEPT !.by = "close", !.at = "close"]
  /\ UNCHANGED <<turn, log, order, runs, fence, threads, done, cancelled, wake, holds, adapter,
                 resume, faults>>

CloseAdapter ==
  /\ alock.by = "close" /\ alock' = Unlocked
  /\ adapter' = "none" /\ holds' = NoHolder
  /\ UNCHANGED <<disk, fence, threads, done, cancelled, wake, resume, faults>>

\* mayRecoverChatTurn.
RecoveryAllowed(t) ==
  /\ session.status # "closed" /\ session.active = t
  /\ Status(t) \in {"starting", "running", "interrupting"}

\* recover_exited_turn takes the free fence of an executor that left a record.  A
\* Turn that is being stopped by this service is left to its stop.
RecoverLost(t) ==
  /\ fence[t].by = None /\ fence[t].record
  /\ ~(Status(t) = "interrupting" /\ fence[t].here)
  /\ RecoveryAllowed(t)
  /\ fence' = [fence EXCEPT ![t].by = "recovery"]
  /\ UNCHANGED <<disk, threads, memory, faults>>

\* _fail_turn of the recovery, up to its k-th write: status, event, release.
RecoverFail(t, k) ==
  /\ fence[t].by = "recovery"
  /\ fence' = [fence EXCEPT ![t].by = None]
  /\ IF Status(t) \in {"starting", "running", "interrupting"}
     THEN /\ turn' = Failed(t, "failed", TRUE)
          /\ log' = IF k >= 2 THEN ReportFailure(t) ELSE log
          /\ IF k = 3 THEN ReleaseActive(t) ELSE UNCHANGED session
     ELSE UNCHANGED <<turn, log, session>>
  /\ UNCHANGED <<order, runs, threads, memory, faults>>

\* complete_recovered_terminalization: what an earlier recovery did not write.
RecoverComplete(t) ==
  /\ fence[t].by = None /\ fence[t].record
  /\ Status(t) = "failed" /\ turn[t].recovered
  /\ log[t].failures = 0 \/ session.active = t
  /\ log' = IF log[t].failures = 0 THEN ReportFailure(t) ELSE log
  /\ ReleaseActive(t)
  /\ UNCHANGED <<turn, order, runs, fence, threads, memory, faults>>

AdapterLost ==
  /\ adapter = "up" /\ Fault /\ adapter' = "sick"
  /\ UNCHANGED <<disk, fence, threads, done, cancelled, wake, holds, alock, resume>>

Committed == {t \in Turns : Status(t) = "completing"}

\* The service dies and is started again; _recover_turn_completions finishes the
\* answers that were committed.
Restart ==
  /\ Fault
  /\ turn' = [t \in Turns |-> IF t \in Committed THEN [turn[t] EXCEPT !.status = "completed"]
                              ELSE turn[t]]
  /\ log' = [t \in Turns |-> IF t \in Committed THEN Answered(log[t]) ELSE log[t]]
  /\ session' = IF session.active \in Committed THEN [status |-> "ready", active |-> None] ELSE session
  /\ fence' = [t \in Turns |-> [by |-> None, record |-> fence[t].record, here |-> FALSE]]
  /\ run' = [w \in Workers |-> Idle] /\ calls' = [t \in Turns |-> "idle"]
  /\ stop' = [t \in Turns |-> NoStop]
  /\ done' = [t \in Turns |-> NoEvent] /\ cancelled' = {} /\ wake' = FALSE
  /\ adapter' = "none" /\ holds' = NoHolder /\ alock' = Unlocked
  /\ resume' = [resume EXCEPT !.waiting = FALSE]
  /\ UNCHANGED <<order, runs>>

-----------------------------------------------------------------------------
CallStep(t) == StartWorker(t) \/ WakeQueue(t)
PrepareStep == ResumeAsk \/ ResumeBegin \/ ResumeTakes \/ EnsureAdapter \/ FailLost \/ ReportLost
                 \/ AdapterStarts
QueueStep == QueueLoop \/ QueueDrop \/ QueueScan \/ QueueClaim \/ QueueRetire \/ QueueCheck
               \/ QueuePrepare \/ QueueFails \/ QueueForgets \/ QueueRuns
RunStep(w) ==
  \/ StartTurn(w) \/ Check(w, "check", "call") \/ CallProvider(w) \/ Check(w, "provider", "commit")
  \/ CommitAnswer(w) \/ FinalizeTurn(w, 3) \/ (\E s \in Failures : ProviderFails(w, s))
  \/ PublishFailure(w) \/ MarkStale(w) \/ ToolRuns(w) \/ PlanRetry(w) \/ Retry(w)
StopStep(t) == StopCapture(t) \/ StopSignal(t) \/ StopMark(t) \/ StopPublish(t)
RecoverStep(t) == RecoverLost(t) \/ RecoverFail(t, 3) \/ RecoverComplete(t)

Next ==
  \/ \E t \in Turns : \/ Submit(t) \/ CreateQueued(t, 3) \/ RetryQueued(t) \/ CallStep(t)
                      \/ StopBegin(t) \/ StopFinalizes(t) \/ StopStep(t) \/ RecoverStep(t)
  \/ \E w \in Workers : RunStep(w)
  \/ QueueStep \/ PollQueue \/ PrepareStep \/ Close \/ CloseAdapter
  \/ \E t \in Turns : \/ \E k \in 1..4 : SubmitCut(t, k)
                      \/ \E k \in 1..2 : CreateQueued(t, k)
                      \/ \E k \in 1..2 : RecoverFail(t, k)
                      \/ StopUnconfirmed(t)
  \/ \E w \in Workers : WorkerDies(w) \/ \E k \in 1..2 : FinalizeTurn(w, k)
  \/ PrepareCut \/ AdapterLost \/ Restart

Spec == Init /\ [][Next]_vars

-----------------------------------------------------------------------------
(* Properties. *)

\* A Turn's input is given again only for a retry that was recorded, and never once a
\* tool ran, whatever dispatches the Turn (its submitter, the queue worker, a replayed
\* request, a restarted service) and whatever fails: the execution fence and the
\* compare-and-set of the start fact admit one worker, recovery never runs the old
\* input again, and a transport is only retried on a readback after the backoff.
RunsAreProved ==
  [][\A t \in Turns : runs'[t] # runs[t] =>
       runs[t] = log[t].retries /\ \A w \in Workers : run[w].turn = t => ~run[w].tool]_vars

\* While the Session's working adapter executes a Turn that has neither ended nor been
\* stopped, that Turn has the Session's claim: neither a release by another Turn's
\* failure, stop or late worker, nor a resume that read an old state, nor the queue's
\* claim takes it away.
RunsUnderItsClaim ==
  \A w \in Workers : /\ run[w].pc \in {"provider", "backoff"} /\ Usable(w)
                     /\ Status(run[w].turn) \in {"starting", "running"}
                     => session.active = run[w].turn

\* A stop that was recorded is final: an answer that arrives later, an error or a
\* recovery never turns the Turn into a completed or timed out one.
StopIsFinal ==
  \A t \in Turns : log[t].stopAsked => Status(t) \in {"interrupting", "interrupted", "failed"}

\* A user sees one message of a Turn, at most one answer, and reports of its one
\* outcome only, although admission, publication and recovery are cut between any two
\* writes and tried again by another thread or another life of the service; a Turn that
\* is reported as completed was run and has its answer in the transcript.  (The report
\* of a failure may come twice: FailLost and ReportLost are not fenced from a recovery.)
OneOutcome ==
  \A t \in Turns :
    /\ log[t].user <= 1 /\ log[t].answers <= 1 /\ log[t].stops <= 1
    /\ log[t].answers > 0 => Status(t) \in {"completing", "completed"}
    /\ log[t].failures > 0 => Status(t) \in Failures
    /\ log[t].stops > 0 => Status(t) = "interrupted"
    /\ Status(t) = "completed" => log[t].answers = 1 /\ runs[t] >= 1

\* In a closed Session no Turn waits, and the provider is not given the input of a
\* Turn that is still to be answered: Close loses the race against an admission, a
\* claim, a worker or a retry, or they are refused.
ClosedIsQuiet ==
  [][session.status = "closed" =>
       \A t \in Turns : /\ turn'[t].status # "queued"
                        /\ runs'[t] # runs[t] => Status(t) \notin {"starting", "running"}]_vars

\* The outcome of a Turn never changes: every writer of a status compares it first.
OutcomeStays ==
  [][\A t \in Turns : Terminal(t) => turn'[t].status = turn[t].status]_vars

\* As long as requests are only queued, none is stopped and no resume takes a Turn's
\* claim, no hint is lost: a Turn whose admission returned is seen by a queue worker
\* that has not retired.  (Otherwise the worker may retire too early; the services'
\* polling then wakes it.)
NoTurnIsForgotten ==
  /\ faults = 0 /\ alock.victim = None
  /\ \A t \in Turns : turn[t].route # "submit" /\ ~log[t].stopAsked /\ ~turn[t].recovered
  =>
    \A t \in Turns : Status(t) = "queued" /\ calls[t] = "idle" => ~At(Queue, "idle")
=============================================================================
